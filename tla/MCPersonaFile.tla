---------------------------- MODULE MCPersonaFile -----------------------------
(* A persona file with two clients, two personas and a [tokens] section,   *)
(* and what an operator may do to it.                                      *)
EXTENDS PersonaFile

MCHttpURLs     == {"http://idp", "https://idp/", "https://app/cb"}
MCSlashURLs    == {"https://idp/"}
MCAbsoluteURLs == MCHttpURLs \union {"app:/cb", "app:/cb#top"}
MCFragmentURLs == {"app:/cb#top"}
MCDurationOf   == ("1h" :> 60) @@ ("60m" :> 60) @@ ("90m" :> 90) @@ ("-1h" :> -60)
MCInstantOf    == [at \in {"2026-01-01T00:00:00Z", "2026-01-01T01:00:00+01:00"} |-> 0]
MCReserved     == {"sub", "token_use"}

MCFile ==
  [issuer   |-> String("http://idp"),
   seed     |-> String("s"),
   tokens   |-> Table([ttl |-> String("90m"), issued_at |-> String("2026-01-01T00:00:00Z")]),
   clients  |-> Array(<<
     Table([client_id |-> String("app"), client_secret |-> String("x"),
            redirect_uris |-> Array(<<String("https://app/cb")>>)]),
     Table([client_id |-> String("cli"),
            redirect_uris |-> Array(<<String("app:/cb"), String("https://app/cb")>>)]) >>),
   personas |-> Array(<<
     Table([name |-> String("alice"), subject |-> String("1"), email |-> String("a@x"),
            email_verified |-> Boolean(TRUE), groups |-> Array(<<String("dev")>>),
            claims |-> Table([role |-> String("admin"), level |-> Integer])]),
     Table([name |-> String("bob"), subject |-> String("2")]) >>)]

MCClaimOrders ==
  {<<"sub", "token_use", "role", "level">>, <<"level", "role", "token_use", "sub">>}

At(at, key, values) == {[at |-> at, key |-> key, value |-> v] : v \in values}

Spoilt == {Integer, Removed}

MCEdits ==
  UNION {
    At(<<>>, "issuer", Spoilt \union
       {String(""), String("idp"), String("https://idp/"), String("https://app/cb")}),
    At(<<>>, "seed", Spoilt \union {String("t")}),
    At(<<>>, "isuer", {String("http://idp")}),
    At(<<>>, "tokens", {Removed, Array(<<>>)}),
    At(<<>>, "clients", {Removed, Array(<<>>), Array(<<Integer>>), String("app")}),
    At(<<>>, "personas", {Array(<<>>), Integer}),
    At(<<"tokens">>, "algorithm", {String("RS256"), String("none"), String("EdDSA"), Integer}),
    At(<<"tokens">>, "rsa_key_file", {String("key.pem"), Integer}),
    At(<<"tokens">>, "ttl", Spoilt \union {String("60m"), String("-1h"), String("soon"), String("")}),
    At(<<"tokens">>, "issued_at", Spoilt \union
       {String("2026-01-01T01:00:00+01:00"), String("today")}),
    At(<<"clients", 1>>, "client_id", Spoilt \union {String("cli")}),
    At(<<"clients", 1>>, "client_secret", Spoilt \union {String("")}),
    At(<<"clients", 1>>, "redirect_url", {String("https://app/cb")}),
    At(<<"clients", 2>>, "redirect_uris", Spoilt \union
       {Array(<<String("app:/cb"), Integer>>), Array(<<String("cb")>>),
        Array(<<String("app:/cb#top")>>), Array(<<>>)}),
    At(<<"personas", 1>>, "email_verified", {Removed, Boolean(FALSE), String("true")}),
    At(<<"personas", 1>>, "groups", {Removed, Array(<<String("dev"), Boolean(TRUE)>>)}),
    At(<<"personas", 1>>, "claims", {Removed, Array(<<>>)}),
    At(<<"personas", 1, "claims">>, "sub", {String("2")}),
    At(<<"personas", 1, "claims">>, "role", {Integer, Table(EmptyTable),
       Array(<<Integer, Boolean(TRUE)>>), Array(<<Array(<<>>)>>)}),
    At(<<"personas", 1, "claims">>, "token_use", {Table(EmptyTable)}),
    At(<<"personas", 2>>, "name", {String("alice"), String(""), Integer}),
    At(<<"personas", 2>>, "subject", Spoilt \union {String("1")}),
    At(<<"personas", 2>>, "gruops", {Array(<<String("dev")>>)}) }

(* All that the file and the edits are made of. *)
Inner(S) == S \union UNION {Within(v) : v \in S}

MCValues ==
  Inner(Inner(Inner(Inner({Table(MCFile)} \union ({e.value : e \in MCEdits} \ {Removed})))))

===============================================================================
