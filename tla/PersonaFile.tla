----------------------------- MODULE PersonaFile ------------------------------
(***************************************************************************)
(* How a persona file becomes a configuration (internal/config/config.go): *)
(* the walk of Load over the tree the TOML reader has built, the decoder   *)
(* that keeps the first type error it sees and walks on, and validate.     *)
(* The operator edits the file and loads it again.                         *)
(*                                                                         *)
(* A tree is a function from keys to values and a value begins with its    *)
(* type, as tomlType names it.  Strings are opaque: the constants say what *)
(* net/url and time make of them.                                          *)
(***************************************************************************)
EXTENDS Answers, SequencesExt

CONSTANTS
  HttpURLs,       \* absolute http or https URLs with a host
  SlashURLs,      \* those whose path ends in a slash
  AbsoluteURLs,   \* URLs with a scheme
  FragmentURLs,   \* URLs with a fragment
  DurationOf,     \* what time.ParseDuration reads, in minutes
  InstantOf,      \* the instant of each RFC 3339 timestamp, in UTC
  ReservedClaims, \* claims the issuer computes
  FirstFile,      \* a file that loads
  Edits,          \* what an operator may change: [at, key, value]
  ClaimOrders,    \* orders in which a Go map of claims may be walked
  Values,         \* what FirstFile and Edits are made of
  MaxEdits        \* bound: edits

VARIABLES
  file,     \* the tree of the file as it is now
  report,   \* what the last load said
  before,   \* history: the last file that loaded
  edits     \* the number of edits made

fileVars == <<file, report, before, edits>>

-------------------------------------------------------------------------------
(* Values *)

String(s)  == <<"string", s>>
Boolean(b) == <<"boolean", b>>
Integer    == <<"integer">>
Array(s)   == <<"array", s>>
Table(m)   == <<"table", m>>

Has(m, key)     == key \in DOMAIN m
Is(v, type)     == v[1] = type
Holds(m, key, type) == Has(m, key) /\ Is(m[key], type)

EmptyTable == [k \in {} |-> Integer]

(* A value is one of these, and what an array or a table holds is a value. *)
Shaped(v) ==
  \/ Is(v, "string") /\ v = String(v[2]) /\ v[2] \in STRING
  \/ Is(v, "boolean") /\ v = Boolean(v[2]) /\ v[2] \in BOOLEAN
  \/ v = Integer
  \/ Is(v, "array") /\ v = Array(v[2]) /\ v[2] \in Seq(ToSet(v[2]))
  \/ Is(v, "table") /\ v = Table(v[2]) /\ v[2] = [k \in DOMAIN v[2] |-> v[2][k]]

Within(v) == IF v[1] \in {"array", "table"} THEN {v[2][k] : k \in DOMAIN v[2]} ELSE {}

AreValues(S) == \A v \in S : Shaped(v) /\ Within(v) \subseteq S

(* What is wrong, and where: the table, the key in it, and why. *)
Complaint(at, key, why) == [at |-> at, key |-> key, why |-> why]
Loaded    == Complaint(<<>>, "", "loaded")
NoReport  == Complaint(<<>>, "", "")

-------------------------------------------------------------------------------
(* The decoder.  Each read has a value, with a default for what is absent  *)
(* or of the wrong type, and the complaint fail may keep.                  *)

Str(m, key, def) == IF Holds(m, key, "string") THEN m[key][2] ELSE def
Bool(m, key)     == IF Holds(m, key, "boolean") THEN m[key][2] ELSE FALSE

AllOf(v, type) == Is(v, "array") /\ \A i \in DOMAIN v[2] : Is(v[2][i], type)

Strs(m, key) ==
  IF Has(m, key) /\ AllOf(m[key], "string")
  THEN [i \in DOMAIN m[key][2] |-> m[key][2][i][2]] ELSE <<>>

Tables(m, key) ==
  IF Has(m, key) /\ AllOf(m[key], "table")
  THEN [i \in DOMAIN m[key][2] |-> m[key][2][i][2]] ELSE <<>>

(* A step of the walk: d.fail notes the complaint and the walk goes on, a  *)
(* return ends it.                                                         *)
Note(fails, complaint)   == [fails |-> fails, answer |-> complaint, ends |-> FALSE]
Return(fails, complaint) == [fails |-> fails, answer |-> complaint, ends |-> TRUE]

NoteUnless(type, m, at, key) ==
  Note(Has(m, key) /\ ~Is(m[key], type), Complaint(at, key, "type"))

(* Mutant: what is in the array is not looked at. *)
NoteUnlessArray(m, at, key) ==
  Note(Has(m, key) /\ ~Is(m[key], "array"), Complaint(at, key, "type"))

NoteUnlessStrings(m, at, key) ==
  Note(Has(m, key) /\ ~AllOf(m[key], "string"), Complaint(at, key, "type"))

(* Mutant: tables are taken to have known keys only. *)
NothingUnknown(m, at, keys) == Note(FALSE, NoReport)

(* allow: of several unknown keys, the first in sorted order is named; all *)
(* that counts here is that it is always the same one.                     *)
Allow(m, at, keys) ==
  LET unknown == DOMAIN m \ keys
  IN Note(unknown # {},
          Complaint(at, IF unknown = {} THEN "" ELSE CHOOSE k \in unknown : TRUE, "unknown"))

ReturnUnlessTables(m, key) ==
  Return(Has(m, key) /\ ~AllOf(m[key], "table"), Complaint(<<>>, key, "type"))

-------------------------------------------------------------------------------
(* The walk *)

(* Mutant: any duration will do. *)
LifetimeAny(s) == s \in DOMAIN DurationOf

Lifetime(s) == s \in DOMAIN DurationOf /\ DurationOf[s] > 0

TokensWalk(tree) ==
  IF ~Has(tree, "tokens") THEN <<>>
  ELSE IF ~Is(tree["tokens"], "table")
  THEN << Return(TRUE, Complaint(<<>>, "tokens", "type")) >>
  ELSE
    LET t  == tree["tokens"][2]
        at == <<"tokens">>
    IN << Allow(t, at, {"algorithm", "ttl", "issued_at", "rsa_key_file"}),
          NoteUnless("string", t, at, "algorithm"),
          NoteUnless("string", t, at, "rsa_key_file"),
          NoteUnless("string", t, at, "ttl"),
          Return(Str(t, "ttl", "") # "" /\ ~Lifetime(Str(t, "ttl", "")),
                 Complaint(at, "ttl", "value")),
          NoteUnless("string", t, at, "issued_at"),
          Return(Str(t, "issued_at", "") \notin DOMAIN InstantOf \union {""},
                 Complaint(at, "issued_at", "value")) >>

ClientWalk(c, i) ==
  LET at == <<"clients", i>>
  IN << Allow(c, at, {"client_id", "client_secret", "redirect_uris"}),
        NoteUnless("string", c, at, "client_id"),
        NoteUnless("string", c, at, "client_secret"),
        NoteUnlessStrings(c, at, "redirect_uris") >>

PersonaWalk(p, i) ==
  LET at == <<"personas", i>>
  IN << Allow(p, at, {"name", "subject", "email", "email_verified", "groups", "claims"}),
        NoteUnless("string", p, at, "name"),
        NoteUnless("string", p, at, "subject"),
        NoteUnless("string", p, at, "email"),
        NoteUnless("boolean", p, at, "email_verified"),
        NoteUnlessStrings(p, at, "groups"),
        Return(Has(p, "claims") /\ ~Is(p["claims"], "table"),
               Complaint(at, "claims", "type")) >>

(* Entries, one after the other. *)
Each(entries, Steps(_, _)) ==
  FlattenSeq([i \in DOMAIN entries |-> Steps(entries[i], i)])

Walk(tree) ==
  << Allow(tree, <<>>, {"issuer", "seed", "tokens", "clients", "personas"}),
     NoteUnless("string", tree, <<>>, "issuer"),
     NoteUnless("string", tree, <<>>, "seed") >>
  \o TokensWalk(tree)
  \o << ReturnUnlessTables(tree, "clients") >>
  \o Each(Tables(tree, "clients"), ClientWalk)
  \o << ReturnUnlessTables(tree, "personas") >>
  \o Each(Tables(tree, "personas"), PersonaWalk)

(* The configuration the walk builds, defaults applied. *)
ClientOf(c) ==
  [ID           |-> Str(c, "client_id", ""),
   Secret       |-> Str(c, "client_secret", ""),
   RedirectURIs |-> Strs(c, "redirect_uris")]

PersonaOf(p) ==
  [Name          |-> Str(p, "name", ""),
   Subject       |-> Str(p, "subject", ""),
   Email         |-> Str(p, "email", ""),
   EmailVerified |-> Bool(p, "email_verified"),
   Groups        |-> Strs(p, "groups"),
   Claims        |-> IF Holds(p, "claims", "table") THEN p["claims"][2] ELSE EmptyTable]

TokensOf(tree) == IF Holds(tree, "tokens", "table") THEN tree["tokens"][2] ELSE EmptyTable

DefaultTTL == "1h"
LiveClock  == -1

IssuedAt(t) ==
  IF Str(t, "issued_at", "") = "" THEN LiveClock ELSE InstantOf[Str(t, "issued_at", "")]

Config(tree) ==
  LET t == TokensOf(tree)
  IN [Issuer     |-> Str(tree, "issuer", ""),
      Seed       |-> Str(tree, "seed", ""),
      Algorithm  |-> Str(t, "algorithm", "EdDSA"),
      RSAKeyFile |-> Str(t, "rsa_key_file", ""),
      TTL        |-> DurationOf[IF Str(t, "ttl", "") = "" THEN DefaultTTL ELSE Str(t, "ttl", "")],
      IssuedAt   |-> IssuedAt(t),
      Clients    |-> [i \in DOMAIN Tables(tree, "clients") |->
                        ClientOf(Tables(tree, "clients")[i])],
      Personas   |-> [i \in DOMAIN Tables(tree, "personas") |->
                        PersonaOf(Tables(tree, "personas")[i])]]

-------------------------------------------------------------------------------
(* validate *)

ValidateIssuer(cfg) ==
  << Check(cfg.Issuer = "", Complaint(<<>>, "issuer", "missing")),
     Check(cfg.Issuer \notin HttpURLs, Complaint(<<>>, "issuer", "value")),
     Check(cfg.Issuer \in SlashURLs, Complaint(<<>>, "issuer", "value")),
     Check(cfg.Seed = "", Complaint(<<>>, "seed", "missing")) >>

ValidateAlgorithm(cfg) ==
  LET at == <<"tokens">>
  IN << Check(cfg.Algorithm = "EdDSA" /\ cfg.RSAKeyFile # "",
              Complaint(at, "rsa_key_file", "value")),
        Check(cfg.Algorithm = "RS256" /\ cfg.RSAKeyFile = "",
              Complaint(at, "rsa_key_file", "missing")),
        Check(cfg.Algorithm \notin {"EdDSA", "RS256"},
              Complaint(at, "algorithm", "value")) >>

(* Mutant: a client may have no redirect URI. *)
ValidateClientLax(clients, i) ==
  LET c  == clients[i]
      at == <<"clients", i>>
  IN << Check(c.ID = "", Complaint(at, "client_id", "missing")),
        Check(\E j \in 1..(i - 1) : clients[j].ID = c.ID, Complaint(at, "client_id", "twice")) >>

ValidateClient(clients, i) ==
  LET c  == clients[i]
      at == <<"clients", i>>
  IN << Check(c.ID = "", Complaint(at, "client_id", "missing")),
        Check(\E j \in 1..(i - 1) : clients[j].ID = c.ID, Complaint(at, "client_id", "twice")),
        Check(c.RedirectURIs = <<>>, Complaint(at, "redirect_uris", "missing")),
        Check(\E r \in ToSet(c.RedirectURIs) : r \notin AbsoluteURLs \/ r \in FragmentURLs,
              Complaint(at, "redirect_uris", "value")) >>

ValidScalar(v) == v[1] \in {"string", "boolean", "integer"}

ValidClaimValue(v) ==
  ValidScalar(v) \/ (Is(v, "array") /\ \A i \in DOMAIN v[2] : ValidScalar(v[2][i]))

ValidateClaim(claims, i, k) ==
  LET at == <<"personas", i, "claims">>
  IN << Check(Has(claims, k) /\ k \in ReservedClaims, Complaint(at, k, "reserved")),
        Check(Has(claims, k) /\ ~ValidClaimValue(claims[k]), Complaint(at, k, "value")) >>

(* Mutant: the names and subjects seen are not kept. *)
SeenNothing(personas, i, field) == FALSE

Seen(personas, i, field) == \E j \in 1..(i - 1) : personas[j][field] = personas[i][field]

(* The claims come in the order in which Go happens to walk the map. *)
ValidatePersona(personas, i, order) ==
  LET p    == personas[i]
      at   == <<"personas", i>>
  IN << Check(p.Name = "", Complaint(at, "name", "missing")),
        Check(p.Subject = "", Complaint(at, "subject", "missing")),
        Check(Seen(personas, i, "Name"), Complaint(at, "name", "twice")),
        Check(Seen(personas, i, "Subject"), Complaint(at, "subject", "twice")) >>
     \o FlattenSeq([n \in DOMAIN order |-> ValidateClaim(p.Claims, i, order[n])])

Validate(cfg, order) ==
  ValidateIssuer(cfg)
  \o ValidateAlgorithm(cfg)
  \o << Check(cfg.Clients = <<>>, Complaint(<<>>, "clients", "missing")) >>
  \o FlattenSeq([i \in DOMAIN cfg.Clients |-> ValidateClient(cfg.Clients, i)])
  \o << Check(cfg.Personas = <<>>, Complaint(<<>>, "personas", "missing")) >>
  \o FlattenSeq([i \in DOMAIN cfg.Personas |-> ValidatePersona(cfg.Personas, i, order)])

(* The walk, of which only a return counts. *)
Ending(walk) == [i \in DOMAIN walk |-> Check(walk[i].fails /\ walk[i].ends, walk[i].answer)]

(* Mutant: what the walk has noted is looked at last. *)
VerdictNotesLast(tree, order) ==
  LET returns == Ending(Walk(tree))
      faults  == Validate(Config(tree), order)
  IN IF ~Passes(returns) THEN FirstFailure(returns)
     ELSE IF ~Passes(faults) THEN FirstFailure(faults)
     ELSE IF ~Passes(Walk(tree)) THEN FirstFailure(Walk(tree))
     ELSE Loaded

(* What Load says: a return of the walk comes first, even after a note;    *)
(* then the first note; and only a file free of both is validated.         *)
Verdict(tree, order) ==
  LET walk    == Walk(tree)
      returns == Ending(walk)
  IN IF ~Passes(returns) THEN FirstFailure(returns)
     ELSE IF ~Passes(walk) THEN FirstFailure(walk)
     ELSE LET faults == Validate(Config(tree), order)
          IN IF Passes(faults) THEN Loaded ELSE FirstFailure(faults)

-------------------------------------------------------------------------------
(* Lookups: the index of the first entry that fits, 0 if there is none. *)

(* Persona, by its handle *)
PersonaNamed(cfg, name) == SelectInSeq(cfg.Personas, LAMBDA p : p.Name = name)

(* personaBySubject *)
PersonaOfSubject(cfg, sub) == SelectInSeq(cfg.Personas, LAMBDA p : p.Subject = sub)

(* Client *)
ClientWithId(cfg, id) == SelectInSeq(cfg.Clients, LAMBDA c : c.ID = id)

-------------------------------------------------------------------------------
(* An edit sets a key of one of the tables, or removes it. *)

Removed == <<"removed">>

With(m, key, v) ==
  IF v = Removed THEN [k \in DOMAIN m \ {key} |-> m[k]]
  ELSE [k \in DOMAIN m \union {key} |-> IF k = key THEN v ELSE m[k]]

(* Where: in the file itself, in [tokens], in an entry of [[clients]] or   *)
(* [[personas]], or in a persona's [personas.claims].                      *)
EntryPlaces == {"clients", "personas"} \X Nat
ClaimPlaces == {"personas"} \X Nat \X {"claims"}

Reaches(tree, at) ==
  CASE at = <<>>           -> TRUE
    [] at = <<"tokens">>   -> Holds(tree, "tokens", "table")
    [] at \in EntryPlaces  -> at[2] \in DOMAIN Tables(tree, at[1])
    [] at \in ClaimPlaces  -> /\ at[2] \in DOMAIN Tables(tree, "personas")
                              /\ Holds(Tables(tree, "personas")[at[2]], "claims", "table")

SetTable(m, key, t) == [m EXCEPT ![key] = Table(t)]

SetEntry(tree, kind, i, t) == [tree EXCEPT ![kind] = Array([@[2] EXCEPT ![i] = Table(t)])]

Edited(tree, e) ==
  CASE e.at = <<>> -> With(tree, e.key, e.value)
    [] e.at = <<"tokens">> ->
         SetTable(tree, "tokens", With(tree["tokens"][2], e.key, e.value))
    [] e.at \in EntryPlaces ->
         SetEntry(tree, e.at[1], e.at[2], With(Tables(tree, e.at[1])[e.at[2]], e.key, e.value))
    [] e.at \in ClaimPlaces ->
         LET persona == Tables(tree, "personas")[e.at[2]]
         IN SetEntry(tree, "personas", e.at[2],
              SetTable(persona, "claims", With(persona["claims"][2], e.key, e.value)))

(* The library reads a duration as a number and a timestamp as an instant, *)
(* neither in an empty text, in which it finds no scheme either; the       *)
(* default lifetime is positive, and files are made of values.  (That ""   *)
(* is a string the provers have to be told.)                               *)
ASSUME FileAssumption ==
  /\ "" \in STRING \ AbsoluteURLs
  /\ "" \notin DOMAIN DurationOf \union DOMAIN InstantOf
  /\ DurationOf \in [DOMAIN DurationOf -> Int] /\ InstantOf \in [DOMAIN InstantOf -> Nat]
  /\ DefaultTTL \in DOMAIN DurationOf /\ DurationOf[DefaultTTL] > 0
  /\ AreValues(Values) /\ Table(FirstFile) \in Values
  /\ \A e \in Edits : /\ e.value \in Values \union {Removed}
                      /\ e.at \in {<<>>, <<"tokens">>} \union EntryPlaces \union ClaimPlaces
  /\ \A order \in ClaimOrders : order \in Seq(ToSet(order))
  /\ MaxEdits \in Nat

Init ==
  /\ file = FirstFile
  /\ report = NoReport
  /\ before = FirstFile
  /\ edits = 0

Edit(e) ==
  /\ edits < MaxEdits
  /\ Reaches(file, e.at)
  /\ file' = Edited(file, e)
  /\ report' = NoReport
  /\ edits' = edits + 1
  /\ UNCHANGED before

(* Walking a map meets every key of it. *)
Meets(order, tree) ==
  \A p \in ToSet(Tables(tree, "personas")) : DOMAIN PersonaOf(p).Claims \subseteq ToSet(order)

(* What the server runs on at first did load. *)
ASSUME FirstAssumption ==
  \E order \in ClaimOrders : Meets(order, FirstFile) /\ Verdict(FirstFile, order) = Loaded

LoadFile(order) ==
  /\ Meets(order, file)
  /\ report' = Verdict(file, order)
  /\ before' = IF report' = Loaded THEN file ELSE before
  /\ UNCHANGED <<file, edits>>

Next ==
  \/ \E e \in Edits : Edit(e)
  \/ \E order \in ClaimOrders : LoadFile(order)

Spec == Init /\ [][Next]_fileVars

-------------------------------------------------------------------------------
(* The reference, docs/persona-format.md: what each table may hold, what   *)
(* it must hold, and what else is a fault.  An empty string or array is    *)
(* taken for an absent one.                                                *)

Schema ==
  [top      |-> [issuer |-> "string", seed |-> "string", tokens |-> "table",
                 clients |-> "tables", personas |-> "tables"],
   tokens   |-> [algorithm |-> "string", rsa_key_file |-> "string",
                 ttl |-> "string", issued_at |-> "string"],
   clients  |-> [client_id |-> "string", client_secret |-> "string",
                 redirect_uris |-> "strings"],
   personas |-> [name |-> "string", subject |-> "string", email |-> "string",
                 email_verified |-> "boolean", groups |-> "strings", claims |-> "table"]]

Required ==
  [top      |-> {"issuer", "seed", "clients", "personas"},
   tokens   |-> {},
   clients  |-> {"client_id", "redirect_uris"},
   personas |-> {"name", "subject"}]

Fits(v, type) ==
  CASE type = "strings" -> AllOf(v, "string")
    [] type = "tables"  -> AllOf(v, "table")
    [] OTHER            -> Is(v, type)

(* The tables of a file that the schema speaks of. *)
Place(at, kind, m) == [at |-> at, kind |-> kind, m |-> m]

Places(tree) ==
  {Place(<<>>, "top", tree), Place(<<"tokens">>, "tokens", TokensOf(tree))}
  \union UNION {{Place(<<kind, i>>, kind, Tables(tree, kind)[i]) :
                   i \in DOMAIN Tables(tree, kind)} : kind \in {"clients", "personas"}}

Absent(m, key) == ~Has(m, key) \/ m[key] \in {String(""), Array(<<>>)}

(* What a key says, if it is there and a string. *)
Text(m, key) == IF Holds(m, key, "string") THEN {m[key][2]} ELSE {}
Says(m, key) == Text(m, key) \ {""}

SchemaFaults(place) ==
  LET keys  == Schema[place.kind]
      wrong == {k \in DOMAIN place.m \intersect DOMAIN keys : ~Fits(place.m[k], keys[k])}
  IN {Complaint(place.at, k, "unknown") : k \in DOMAIN place.m \ DOMAIN keys}
     \union {Complaint(place.at, k, "type") : k \in wrong}
     \union {Complaint(place.at, k, "missing") :
               k \in {r \in Required[place.kind] : Absent(place.m, r)}}

UsesRSA(t) == Says(t, "algorithm") = {"RS256"}

ValueFaults(tree) ==
  LET t == TokensOf(tree) IN
  {Complaint(<<>>, "issuer", "value") :
     s \in {u \in Says(tree, "issuer") : u \notin HttpURLs \ SlashURLs}}
  \union {Complaint(<<"tokens">>, "ttl", "value") : s \in Says(t, "ttl") \ {d \in DOMAIN DurationOf : DurationOf[d] \in Nat \ {0}}}
  \union {Complaint(<<"tokens">>, "issued_at", "value") :
            s \in Says(t, "issued_at") \ DOMAIN InstantOf}
  \union {Complaint(<<"tokens">>, "algorithm", "value") :
            s \in Text(t, "algorithm") \ {"EdDSA", "RS256"}}
  \union {Complaint(<<"tokens">>, "rsa_key_file", "missing") :
            s \in IF UsesRSA(t) /\ Absent(t, "rsa_key_file") THEN {1} ELSE {}}
  \union {Complaint(<<"tokens">>, "rsa_key_file", "value") :
            s \in IF UsesRSA(t) THEN {} ELSE Says(t, "rsa_key_file")}
  \union {Complaint(<<"clients", i>>, "redirect_uris", "value") :
            i \in {j \in DOMAIN Tables(tree, "clients") :
                     ~(ToSet(Strs(Tables(tree, "clients")[j], "redirect_uris"))
                         \subseteq AbsoluteURLs \ FragmentURLs)}}

(* An entry that repeats what an earlier one says. *)
Repeats(tree, kind, key) ==
  LET entries == Tables(tree, kind)
  IN {Complaint(<<kind, i>>, key, "twice") :
        i \in {j \in DOMAIN entries :
                 \E e \in 1..(j - 1) : Says(entries[e], key) \intersect Says(entries[j], key) # {}}}

ClaimsOf(tree, i) == PersonaOf(Tables(tree, "personas")[i]).Claims

ClaimFaults(tree) ==
  LET claims == UNION {{<<i, k>> : k \in DOMAIN ClaimsOf(tree, i)} :
                         i \in DOMAIN Tables(tree, "personas")}
  IN {Complaint(<<"personas", c[1], "claims">>, c[2], "reserved") :
        c \in {d \in claims : d[2] \in ReservedClaims}}
     \union {Complaint(<<"personas", c[1], "claims">>, c[2], "value") :
        c \in {d \in claims : ~ValidClaimValue(ClaimsOf(tree, d[1])[d[2]])}}

Faults(tree) ==
  (UNION {SchemaFaults(place) : place \in Places(tree)})
  \union ValueFaults(tree)
  \union Repeats(tree, "clients", "client_id")
  \union Repeats(tree, "personas", "name")
  \union Repeats(tree, "personas", "subject")
  \union ClaimFaults(tree)

-------------------------------------------------------------------------------
(* Properties *)

(* Type invariant: a file that loaded gives a configuration that has every *)
(* field the server reads, with a positive lifetime and an instant that is *)
(* one of the timestamps' or the live clock.                               *)
FileTypeOK ==
  /\ edits \in 0..MaxEdits
  /\ report = Loaded =>
       /\ Config(file).TTL \in Nat \ {0}
       /\ Config(file).IssuedAt \in Nat \union {LiveClock}
       /\ \A p \in ToSet(Config(file).Personas) :
            p.EmailVerified \in BOOLEAN /\ p.Groups \in Seq(STRING)

(* Load stops at the first thing wrong in its own order: some type errors  *)
(* are kept for later and read as a default meanwhile, others end it at    *)
(* once, and validate sees only the defaults.  Still what it reports is    *)
(* wrong with the file, and never a consequence of a default.              *)
ReportsAreTrue == report \in {Loaded, NoReport} \union Faults(file)

(* No file with a fault loads, however the faults hide each other: "a typo *)
(* fails the load instead of silently minting tokens" (persona-format.md). *)
LoadsOnlyFaultless == report = Loaded => Faults(file) = {}

(* The configuration a file gives meets the assumption under which the     *)
(* endpoints are modelled and proved about.                                *)
Served(cfg) ==
  INSTANCE Deployment WITH
    ClientIds    <- {c.ID : c \in ToSet(cfg.Clients)},
    Secret       <- [id \in {c.ID : c \in ToSet(cfg.Clients)} |->
                       cfg.Clients[ClientWithId(cfg, id)].Secret],
    RedirectURIs <- [id \in {c.ID : c \in ToSet(cfg.Clients)} |->
                       ToSet(cfg.Clients[ClientWithId(cfg, id)].RedirectURIs)],
    PersonaNames <- {p.Name : p \in ToSet(cfg.Personas)},
    Signs        <- TRUE

LoadedIsDeployable == report = Loaded => Served(Config(file))!ValidatedConfig

(* Every client and persona of a file that loads is the one its lookups    *)
(* find, by client_id, by handle, and by the subject of its tokens: none   *)
(* hides behind another.                                                   *)
EveryEntryIsFound ==
  report = Loaded =>
    LET cfg == Config(file) IN
    /\ \A i \in DOMAIN cfg.Clients : ClientWithId(cfg, cfg.Clients[i].ID) = i
    /\ \A i \in DOMAIN cfg.Personas :
         /\ PersonaNamed(cfg, cfg.Personas[i].Name) = i
         /\ PersonaOfSubject(cfg, cfg.Personas[i].Subject) = i

(* What a file says in effect: durations and timestamps read, and without  *)
(* the keys that only repeat a default of persona-format.md.               *)
InEffect(place, key) ==
  LET v == place.m[key] IN
  CASE key = "ttl" /\ v[2] \in DOMAIN DurationOf      -> <<"duration", DurationOf[v[2]]>>
    [] key = "issued_at" /\ v[2] \in DOMAIN InstantOf -> <<"instant", InstantOf[v[2]]>>
    [] OTHER                                          -> v

Defaults(key) ==
  {String(""), Array(<<>>), Table(EmptyTable)} \union
  CASE key = "algorithm"      -> {String("EdDSA")}
    [] key = "ttl"            -> {<<"duration", DurationOf[DefaultTTL]>>}
    [] key = "email_verified" -> {Boolean(FALSE)}
    [] OTHER                  -> {}

Effect(place) ==
  LET said == {k \in DOMAIN place.m \ {"tokens", "clients", "personas"} :
                 InEffect(place, k) \notin Defaults(k)}
  IN [k \in said |-> InEffect(place, k)]

Effects(tree) ==
  {<<place.at, Effect(place)>> : place \in Places(tree)}

(* Whatever an edit changes in a file that loads again is seen by the      *)
(* server: no key is accepted and ignored.                                 *)
NoEditIgnored ==
  [][ report' = Loaded /\ Effects(file) # Effects(before)
        => Config(file) # Config(before) ]_fileVars

===============================================================================
