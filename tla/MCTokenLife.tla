----------------------------- MODULE MCTokenLife ------------------------------
(***************************************************************************)
(* Small instances of TokenLife: one file and its edits.  Half a second is *)
(* a tick, so lifetimes and frozen instants need not be whole seconds.     *)
(***************************************************************************)
EXTENDS TokenLife

Alice == [subject |-> "u1", email |-> "alice@", email_verified |-> "true",
          groups |-> "staff", claims |-> [level |-> "5", email |-> "shadow@"]]
Bob   == [subject |-> "u2", email |-> "", email_verified |-> "false",
          groups |-> "", claims |-> Nothing]

(* A live clock and a lifetime of one second and a half. *)
File == [issuer |-> "op", key |-> "k1", ttl |-> 3, issued_at |-> Live,
         clients |-> {"web"}, personas |-> [alice |-> Alice, bob |-> Bob]]

(* Edits: the clock frozen at half past a second; bob dropped, and alice's *)
(* subject equal to a client_id; another issuer or seed, and no bob; files *)
(* that do not load, in one of which bob claims to be alice.               *)
Frozen   == [File EXCEPT !.issued_at = 3, !.ttl = 1]
Collides == [File EXCEPT !.personas = [alice |-> [Alice EXCEPT !.subject = "web"]]]
Moved    == [File EXCEPT !.issuer = "other", !.personas = [alice |-> Alice]]
Reseeded == [File EXCEPT !.key = "k2", !.personas = [alice |-> Alice]]
Lying    == [File EXCEPT !.personas =
               [alice |-> Alice, bob |-> [Bob EXCEPT !.claims = [sub |-> "u1"]]]]
NoTTL    == [File EXCEPT !.ttl = 0]

MCFiles == {File, Frozen, Collides, Moved, Reseeded, Lying, NoTTL}

MCScopeWords == {<<"openid", "email", "openid">>, <<"profile", "groups", "email">>}

MCNonces == {"", "n1"}

MintIt == [persona |-> "bob", client |-> "web", kind |-> "id", nonce |-> "",
           scope |-> <<"openid", "profile">>, at |-> Live]

MCMintRequests ==
  {[MintIt EXCEPT !.at = 5, !.nonce = "n1"], [MintIt EXCEPT !.kind = "access"],
   [MintIt EXCEPT !.client = "nobody"],
   [MintIt EXCEPT !.at = Unparsed], [MintIt EXCEPT !.kind = "refresh"]}

===============================================================================
