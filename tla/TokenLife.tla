------------------------------ MODULE TokenLife -------------------------------
(***************************************************************************)
(* A signed token from the moment it is minted: what goes into it, and     *)
(* what /userinfo and /introspect make of it later, under another clock    *)
(* and perhaps another persona file (internal/oidc/issuer.go, the last     *)
(* two handlers of server.go, jwt.go, and `personad mint`).                *)
(*                                                                         *)
(* Tokens are stateless: unlike codes and refresh tokens they outlive the  *)
(* server, since the key is derived from the seed in the file.  Nothing    *)
(* relates two tokens to each other, so one is followed at a time: a new   *)
(* one takes the place of the last.                                        *)
(*                                                                         *)
(* Time passes in ticks, Second of them to a second.  A persona file is a  *)
(* record [issuer, key, ttl, issued_at, clients, personas], a persona a    *)
(* record [subject, email, email_verified, groups, claims]; key stands for *)
(* the signing key and with it for alg and kid.  Claims are a function     *)
(* from claim names to values; the order of the pairs is left out, that a  *)
(* later Set overwrites an earlier one is not.                             *)
(***************************************************************************)
EXTENDS Answers, FiniteSets, Scope

CONSTANTS
  Files,          \* what the operator may have written to a persona file
  ScopeWords,     \* scope parameters: sequences of words
  Nonces,         \* nonce parameters, "" for none
  MintRequests,   \* command lines of `personad mint`
  Second,         \* ticks in a second
  MaxClock        \* bound: the last instant

Live     == -1   \* issued_at is absent: the clock decides
Unparsed == -2   \* --at is given and is not a timestamp

ASSUME TimeAssumption ==
  /\ Second \in Nat \ {0}
  /\ MaxClock \in Nat
  /\ \A f \in Files : f.ttl \in Int /\ f.issued_at \in Nat \union {Live}
  /\ ScopeWords \subseteq Seq(STRING)
  /\ \A m \in MintRequests : m.at \in Int /\ m.scope \in Seq(STRING)

VARIABLES
  clock,     \* the wall clock, in ticks
  running,   \* the file the server was started with
  token,     \* the token that is followed
  issued,    \* history: what was asked for, when and from which file
  reply      \* the answer to the last request, until something else happens

tokenVars == <<clock, running, token, issued, reply>>

Nothing == [x \in {} |-> x]

(* Mutant: sub is not reserved. *)
ReservedButSub ==
  {"iss", "aud", "exp", "iat", "nonce", "jti", "auth_time", "azp",
   "client_id", "scope", "token_use"}

ReservedClaims ==
  {"iss", "sub", "aud", "exp", "iat", "nonce", "jti", "auth_time", "azp",
   "client_id", "scope", "token_use"}

(* The part of Config.validate that tokens rely on, and the one check of   *)
(* Load that does: a lifetime is positive.                                 *)
ValidFile(f) ==
  /\ f.ttl > 0
  /\ f.clients # {} /\ f.personas # Nothing
  /\ \A n, m \in DOMAIN f.personas :
        f.personas[n].subject = f.personas[m].subject => n = m
  /\ \A n \in DOMAIN f.personas : DOMAIN f.personas[n].claims \cap ReservedClaims = {}

-------------------------------------------------------------------------------
(* Minting *)

Unix(at) == at \div Second
Truncate(at) == at - (at % Second)

IssueTime(f) == IF f.issued_at # Live THEN f.issued_at ELSE Truncate(clock)

(* Claims that are set replace those of their names. *)
SetAll(o, more) ==
  [x \in DOMAIN o \union DOMAIN more |-> IF x \in DOMAIN more THEN more[x] ELSE o[x]]

SetIf(cond, o, more) == IF cond THEN SetAll(o, more) ELSE o

(* addPersonaClaims: what a scope releases.  Custom claims are set last    *)
(* and may carry the names of the others.                                  *)
Released(p, scopes) ==
  LET email  == SetIf(HasScope(scopes, "email") /\ p.email # "", Nothing,
                      [email |-> p.email, email_verified |-> p.email_verified])
      groups == SetIf(HasScope(scopes, "groups") /\ p.groups # "", email,
                      [groups |-> p.groups])
  IN SetIf(HasScope(scopes, "profile"), groups, p.claims)

(* Mutant: exp is the last second in which the token counts. *)
RegisteredShort(f, sub, client, at) ==
  [iss |-> f.issuer, sub |-> sub, aud |-> client,
   exp |-> Unix(at + f.ttl) - 1, iat |-> Unix(at)]

(* The claims every token has. *)
Registered(f, sub, client, at) ==
  [iss |-> f.issuer, sub |-> sub, aud |-> client,
   exp |-> Unix(at + f.ttl), iat |-> Unix(at)]

(* Those of access tokens.  jti is derived from the others and left out.   *)
Access(client, scopes) ==
  [client_id |-> client, scope |-> scopes, token_use |-> "access"]

SignJWT(f, claims) == [key |-> f.key, claims |-> claims]

IDToken(f, p, client, nonce, scopes, at) ==
  LET ours == SetAll(Registered(f, p.subject, client, at), [auth_time |-> Unix(at)])
  IN SignJWT(f, SetAll(SetIf(nonce # "", ours, [nonce |-> nonce]), Released(p, scopes)))

AccessToken(f, p, client, scopes, at) ==
  LET ours == SetAll(Registered(f, p.subject, client, at), Access(client, scopes))
  IN SignJWT(f, SetAll(ours, Released(p, scopes)))

ClientCredentialsToken(f, client, scopes, at) ==
  SignJWT(f, SetAll(Registered(f, client, client, at), Access(client, scopes)))

-------------------------------------------------------------------------------
(* Looking at a token *)

(* No token was sent, or what was sent is not a JWT. *)
NoToken == [key |-> "", claims |-> Nothing]

Verifies(t) == t.key = running.key

StringClaim(t, name) == IF name \in DOMAIN t.claims THEN t.claims[name] ELSE ""
IntClaim(t, name)    == IF name \in DOMAIN t.claims THEN t.claims[name] ELSE 0
ScopeClaim(t) == IF "scope" \in DOMAIN t.claims THEN t.claims["scope"] ELSE <<>>

(* Mutant: a token from the future is refused as well. *)
ExpiredOrEarly(t) ==
  LET now == Unix(IssueTime(running))
  IN IntClaim(t, "exp") < now \/ now < IntClaim(t, "iat")

(* In the second of exp itself the token still counts. *)
Expired(t) == IntClaim(t, "exp") < Unix(IssueTime(running))

Active(t) == Verifies(t) /\ ~Expired(t)

PersonasBySubject(f, sub) ==
  {n \in DOMAIN f.personas : f.personas[n].subject = sub}

(* Mutant: only the key and the expiry are looked at, as by /introspect.   *)
UserinfoChecksLax(method, t) ==
  << Check(~Active(t), Refuse(401, "invalid_token")),
     Check(PersonasBySubject(running, StringClaim(t, "sub")) = {},
           Refuse(401, "invalid_token")) >>

UserinfoChecks(method, t) ==
  << Check(method \notin {"GET", "POST"}, Refuse(405, "invalid_request")),
     Check(~Verifies(t), Refuse(401, "invalid_token")),
     Check(StringClaim(t, "iss") # running.issuer, Refuse(401, "invalid_token")),
     Check(StringClaim(t, "token_use") # "access", Refuse(401, "invalid_token")),
     Check(Expired(t), Refuse(401, "invalid_token")),
     Check(PersonasBySubject(running, StringClaim(t, "sub")) = {},
           Refuse(401, "invalid_token")) >>

(* Mutant: custom claims are released whatever the scope. *)
UserinfoClaimsAll(p, scopes) ==
  SetAll(SetAll([sub |-> p.subject], Released(p, scopes)), p.claims)

UserinfoClaims(p, scopes) == SetAll([sub |-> p.subject], Released(p, scopes))

(* The caller's authentication is that of /token, see module Endpoints. *)
IntrospectChecks(method, parses, authenticates) ==
  << Check(method # "POST", Refuse(405, "invalid_request")),
     Check(~parses, Refuse(400, "invalid_request")),
     Check(~authenticates, Refuse(401, "invalid_client")) >>

(* `personad mint`: its status is the exit code. *)
MintChecks(f, m) ==
  << Check(~ValidFile(f), Refuse(1, "")),
     Check(m.persona \notin DOMAIN f.personas, Refuse(1, "")),
     Check(m.client \notin f.clients, Refuse(1, "")),
     Check(m.at = Unparsed, Refuse(2, "")),
     Check(m.kind \notin {"id", "access"}, Refuse(2, "")) >>

-------------------------------------------------------------------------------

NoReply == [to |-> "", answer |-> NoAnswer, body |-> Nothing]

Respond(endpoint, answer, body) ==
  reply' = [to |-> endpoint, answer |-> answer, body |-> body]

(* The history names what was asked for: the kind of token, the file, the  *)
(* persona ("" for a machine), client, nonce and scopes, the instant the   *)
(* token is stamped with, the clock, and whether the server minted it.     *)
Hand(t, what) ==
  /\ token' = t
  /\ issued' = what

NotIssued ==
  [kind |-> "none", file |-> Nothing, persona |-> "", client |-> "", nonce |-> "",
   scopes |-> <<>>, at |-> 0, clock |-> 0, served |-> FALSE]

TokenInit ==
  /\ clock \in 0..MaxClock
  /\ running \in {f \in Files : ValidFile(f)}
  /\ token = NoToken
  /\ issued = NotIssued
  /\ reply = NoReply

(* tokenResponse: the pair of tokens of a persona; one of them is followed. *)
PersonaTokens(n, client, nonce, words) ==
  LET p      == running.personas[n]
      scopes == SplitScope(words)
      at     == IssueTime(running)
      What(kind, said) ==
        [kind |-> kind, file |-> running, persona |-> n, client |-> client, nonce |-> said,
         scopes |-> scopes, at |-> at, clock |-> clock, served |-> TRUE]
  IN /\ \/ Hand(IDToken(running, p, client, nonce, scopes, at), What("id", nonce))
        \/ Hand(AccessToken(running, p, client, scopes, at), What("access", ""))
     /\ reply' = NoReply
     /\ UNCHANGED <<clock, running>>

(* grantClientCredentials *)
MachineToken(client, words) ==
  LET scopes == SplitScope(words)
      at     == IssueTime(running)
  IN /\ Hand(ClientCredentialsToken(running, client, scopes, at),
             [kind |-> "machine", file |-> running, persona |-> "", client |-> client,
              nonce |-> "", scopes |-> scopes, at |-> at, clock |-> clock,
              served |-> TRUE])
     /\ reply' = NoReply
     /\ UNCHANGED <<clock, running>>

(* cmdMint: from any file, with no server involved. *)
Mint(f, m) ==
  /\ Passes(MintChecks(f, m))
  /\ LET p      == f.personas[m.persona]
         scopes == SplitScope(m.scope)
         at     == IF m.at = Live THEN IssueTime(f) ELSE m.at
         what   == [kind |-> m.kind, file |-> f, persona |-> m.persona,
                    client |-> m.client, nonce |-> m.nonce, scopes |-> scopes,
                    at |-> at, clock |-> clock, served |-> FALSE]
     IN IF m.kind = "id"
        THEN Hand(IDToken(f, p, m.client, m.nonce, scopes, at), what)
        ELSE Hand(AccessToken(f, p, m.client, scopes, at), what)
  /\ Respond("mint", Refuse(0, ""), Nothing)
  /\ UNCHANGED <<clock, running>>

MintFails(f, m) ==
  /\ ~Passes(MintChecks(f, m))
  /\ Respond("mint", FirstFailure(MintChecks(f, m)), Nothing)
  /\ UNCHANGED <<clock, running, token, issued>>

(* handleUserinfo, with the followed token or with none. *)
Userinfo(method, t) ==
  /\ LET checks == UserinfoChecks(method, t)
         n      == CHOOSE n \in PersonasBySubject(running, StringClaim(t, "sub")) : TRUE
     IN IF Passes(checks)
        THEN Respond("userinfo", Refuse(200, ""),
                     UserinfoClaims(running.personas[n], SplitScope(ScopeClaim(t))))
        ELSE Respond("userinfo", FirstFailure(checks), Nothing)
  /\ UNCHANGED <<clock, running, token, issued>>

(* handleIntrospect *)
Introspect(method, parses, authenticates, t) ==
  /\ LET checks == IntrospectChecks(method, parses, authenticates)
     IN IF Passes(checks)
        THEN Respond("introspect", Refuse(200, ""), [active |-> Active(t)])
        ELSE Respond("introspect", FirstFailure(checks), Nothing)
  /\ UNCHANGED <<clock, running, token, issued>>

(* Mutant: the edited file is not validated. *)
ServeAnything(f) ==
  /\ running' = f
  /\ reply' = NoReply
  /\ UNCHANGED <<clock, token, issued>>

(* The server is started again, from a file that may have been edited. *)
Serve(f) ==
  /\ ValidFile(f)
  /\ running' = f
  /\ reply' = NoReply
  /\ UNCHANGED <<clock, token, issued>>

(* The wall clock goes on, or is set back. *)
Tick ==
  /\ clock < MaxClock
  /\ clock' = clock + 1
  /\ reply' = NoReply
  /\ UNCHANGED <<running, token, issued>>

SetBack(now) ==
  /\ now < clock
  /\ clock' = now
  /\ reply' = NoReply
  /\ UNCHANGED <<running, token, issued>>

TokenNext ==
  \/ \E client \in running.clients, words \in ScopeWords :
        \/ \E n \in DOMAIN running.personas, nonce \in Nonces :
              PersonaTokens(n, client, nonce, words)
        \/ MachineToken(client, words)
  \/ \E f \in Files, m \in MintRequests : Mint(f, m) \/ MintFails(f, m)
  \/ \E t \in {token, NoToken} :
        \/ \E method \in {"GET", "POST", "PUT"} : Userinfo(method, t)
        \/ \E method \in {"GET", "POST"}, parses, authenticates \in BOOLEAN :
              Introspect(method, parses, authenticates, t)
  \/ \E f \in Files : Serve(f)
  \/ Tick
  \/ \E now \in 0..MaxClock : SetBack(now)

TokenSpec == TokenInit /\ [][TokenNext]_tokenVars

-------------------------------------------------------------------------------
(* Properties *)

(* Type invariant: the server runs from a valid file, and the followed     *)
(* token is signed with the key of the file it was minted from.            *)
TokenTypeOK ==
  /\ clock \in 0..MaxClock
  /\ running \in Files /\ ValidFile(running)
  /\ \/ issued = NotIssued /\ token = NoToken
     \/ /\ issued.kind \in {"id", "access", "machine"}
        /\ issued.file \in Files /\ ValidFile(issued.file)
        /\ issued.client \in issued.file.clients
        /\ token.key = issued.file.key
  /\ reply.to \in {"", "mint", "userinfo", "introspect"}

Says(name, value) == name \in DOMAIN token.claims /\ token.claims[name] = value
Omits(names)      == DOMAIN token.claims \cap names = {}

(* No persona can make a token lie: whatever its custom claims are called, *)
(* each claim the issuer computes says what was asked for (the subject is  *)
(* that of the persona minted for, no other's) and when, and a token has   *)
(* none of the claims that only the other kind carries.                    *)
TokensDoNotLie ==
  issued.kind # "none" =>
    LET subject == IF issued.kind = "machine" THEN issued.client
                   ELSE issued.file.personas[issued.persona].subject
    IN /\ Says("iss", issued.file.issuer)
       /\ Says("sub", subject)
       /\ Says("aud", issued.client)
       /\ Says("iat", Unix(issued.at))
       /\ Says("exp", Unix(issued.at + issued.file.ttl))
       /\ Omits({"azp"})
       /\ IF issued.kind = "id"
          THEN /\ Says("auth_time", Unix(issued.at))
               /\ IF issued.nonce = "" THEN Omits({"nonce"}) ELSE Says("nonce", issued.nonce)
               /\ Omits({"client_id", "jti", "scope", "token_use"})
          ELSE /\ Says("client_id", issued.client)
               /\ Says("scope", issued.scopes)
               /\ Says("token_use", "access")
               /\ Omits({"auth_time", "nonce"})

UserinfoAnswered == reply.to = "userinfo" /\ reply.answer.status = 200

(* /userinfo answers only to an access token of the issuer and the key it  *)
(* runs with now, through any edit of the file between two runs; a machine *)
(* token gets in only where its client_id is some persona's subject too.   *)
UserinfoOnlyForAccessTokens ==
  UserinfoAnswered =>
    /\ issued.kind \in {"access", "machine"}
    /\ issued.file.issuer = running.issuer /\ issued.file.key = running.key
    /\ issued.kind = "machine" =>
         \E n \in DOMAIN running.personas : running.personas[n].subject = issued.client

(* "Scopes gate claim release the same way everywhere": as long as the     *)
(* file is the one the token was minted from, /userinfo shows exactly what *)
(* the access token itself carries of the persona, though it starts from   *)
(* nothing but the sub and scope claims.                                   *)
UserinfoAgreesWithToken ==
  UserinfoAnswered /\ issued.kind = "access" /\ issued.file = running =>
    /\ DOMAIN reply.body = (DOMAIN token.claims \ ReservedClaims) \union {"sub"}
    /\ \A name \in DOMAIN reply.body : reply.body[name] = token.claims[name]

(* What expires_in promised is kept, and not much more: a token from the   *)
(* server is good for that many seconds, and with a live clock it is not   *)
(* good any more a second after its lifetime has passed.                   *)
LifetimeHonoured ==
  issued.served /\ issued.file = running =>
    LET expires_in == running.ttl \div Second
    IN /\ clock < issued.clock + expires_in * Second => Active(token)
       /\ running.issued_at = Live /\ clock >= issued.clock + running.ttl + Second
            => ~Active(token)

(* An expired token stays expired, unless the clock is set back or the     *)
(* server is started from another file.                                    *)
ExpiryIsFinal ==
  [][token' = token /\ running' = running /\ clock' >= clock
       /\ token # NoToken /\ ~Active(token) => ~Active(token)']_tokenVars

===============================================================================
