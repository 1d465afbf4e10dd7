------------------------------ MODULE FileProofs ------------------------------
(***************************************************************************)
(* What a persona file that loads is free of, and what one that does not   *)
(* load is told: for every file, every edit and every order in which Go    *)
(* walks the claims of a persona.                                          *)
(***************************************************************************)
EXTENDS PersonaFile, AnswerProofs

-------------------------------------------------------------------------------
(* The recursion of FlattenSeq is defined, and what it collects is what    *)
(* the sequences hold.                                                     *)
Join(s, t) == s \o t

IsFlattening(f, seqs, m) ==
  /\ IsFunctionOn(f, 1..m) /\ f[1] = seqs[1]
  /\ \A i \in 2..m : f[i] = Join(f[i - 1], seqs[i])

LEMMA FlatteningExists ==
  ASSUME NEW seqs
  PROVE  \A m \in Nat \ {0} : \E f : IsFlattening(f, seqs, m)
<1> DEFINE S == {m \in Nat : \E f : IsFlattening(f, seqs, m + 1)}
<1>1. 0 \in S
  <2> DEFINE f == [i \in 1..1 |-> seqs[1]]
  <2>1. IsFunctionOn(f, 1..1) /\ f[1] = seqs[1]
    BY DEF IsFunctionOn
  <2> HIDE DEF f
  <2>2. IsFlattening(f, seqs, 0 + 1)
    BY <2>1 DEF IsFlattening
  <2> QED
    BY <2>2
<1>2. ASSUME NEW m \in Nat, m \in S PROVE m + 1 \in S
  <2>1. PICK f : IsFlattening(f, seqs, m + 1)
    BY <1>2
  <2> DEFINE g == [i \in 1..(m + 2) |-> IF i = m + 2 THEN Join(f[m + 1], seqs[m + 2]) ELSE f[i]]
  <2>2. IsFunctionOn(g, 1..(m + 2))
    BY DEF IsFunctionOn
  <2>3. g[m + 2] = Join(f[m + 1], seqs[m + 2]) /\ \A i \in 1..(m + 1) : g[i] = f[i]
    OBVIOUS
  <2> HIDE DEF g
  <2>4. g[1] = seqs[1]
    BY <2>1, <2>3 DEF IsFlattening
  <2>5. ASSUME NEW i \in 2..(m + 2) PROVE g[i] = Join(g[i - 1], seqs[i])
    <3>1. CASE i = m + 2
      <4>1. i - 1 = m + 1 /\ m + 1 \in 1..(m + 1)
        BY <3>1
      <4> QED
        BY <2>3, <3>1, <4>1
    <3>2. CASE i # m + 2
      <4>1. i \in 2..(m + 1) /\ i \in 1..(m + 1) /\ i - 1 \in 1..(m + 1)
        BY <3>2
      <4>2. f[i] = Join(f[i - 1], seqs[i])
        BY <2>1, <4>1 DEF IsFlattening
      <4> QED
        BY <2>3, <4>1, <4>2
    <3> QED
      BY <3>1, <3>2
  <2>6. IsFlattening(g, seqs, m + 2)
    BY <2>2, <2>4, <2>5 DEF IsFlattening
  <2>7. (m + 1) + 1 = m + 2
    OBVIOUS
  <2> QED
    BY <2>6, <2>7
<1> HIDE DEF S
<1>3. Nat \subseteq S
  BY <1>1, <1>2, Induction
<1>4. ASSUME NEW m \in Nat \ {0} PROVE \E f : IsFlattening(f, seqs, m)
  <2>1. m - 1 \in S /\ (m - 1) + 1 = m
    BY <1>3
  <2> QED
    BY <2>1 DEF S
<1> QED
  BY <1>4

LEMMA FlattenIsFlattening ==
  ASSUME NEW seqs, Len(seqs) \in Nat \ {0}
  PROVE  \E f : IsFlattening(f, seqs, Len(seqs)) /\ FlattenSeq(seqs) = f[Len(seqs)]
<1> DEFINE n == Len(seqs)
           Def(f) == [i \in 1..n |-> IF i = 1 THEN seqs[i] ELSE Join(f[i - 1], seqs[i])]
<1>1. PICK f : IsFlattening(f, seqs, n)
  BY FlatteningExists
<1>2. IsFunctionOn(Def(f), 1..n)
  BY DEF IsFunctionOn
<1>3. ASSUME NEW i \in 1..n PROVE f[i] = Def(f)[i]
  <2>1. CASE i = 1
    BY <1>1, <2>1 DEF IsFlattening
  <2>2. CASE i # 1
    BY <1>1, <2>2 DEF IsFlattening
  <2> QED
    BY <2>1, <2>2
<1>4. f = Def(f)
  <2> HIDE DEF Def
  <2> QED
    BY <1>1, <1>2, <1>3, SameFunction DEF IsFlattening
<1> DEFINE flatten == CHOOSE u : u = Def(u)
<1>5. FlattenSeq(seqs) = flatten[n]
  BY DEF FlattenSeq, Join
<1>6. flatten = Def(flatten)
  <2> HIDE DEF Def
  <2> QED
    BY <1>4
<1> HIDE DEF flatten
<1>7. IsFunctionOn(flatten, 1..n)
  <2>1. IsFunctionOn(Def(flatten), 1..n)
    BY DEF IsFunctionOn
  <2> HIDE DEF Def
  <2> QED
    BY <1>6, <2>1
<1>8. ASSUME NEW i \in 1..n
      PROVE  flatten[i] = IF i = 1 THEN seqs[i] ELSE Join(flatten[i - 1], seqs[i])
  <2>1. Def(flatten)[i] = IF i = 1 THEN seqs[i] ELSE Join(flatten[i - 1], seqs[i])
    OBVIOUS
  <2> HIDE DEF Def
  <2> QED
    BY <1>6, <2>1
<1>9. IsFlattening(flatten, seqs, n)
  <2>1. flatten[1] = seqs[1]
    BY <1>8
  <2>2. ASSUME NEW i \in 2..n PROVE flatten[i] = Join(flatten[i - 1], seqs[i])
    BY <1>8
  <2> QED
    BY <1>7, <2>1, <2>2 DEF IsFlattening
<1> QED
  BY <1>5, <1>9

LEMMA Flattened ==
  ASSUME NEW seqs, IsSeq(seqs), \A i \in DOMAIN seqs : IsSeq(seqs[i])
  PROVE  /\ IsSeq(FlattenSeq(seqs))
         /\ ToSet(FlattenSeq(seqs)) = UNION {ToSet(seqs[i]) : i \in DOMAIN seqs}
<1>1. DOMAIN seqs = 1..Len(seqs) /\ Len(seqs) \in Nat
  BY SeqFacts
<1>2. CASE Len(seqs) = 0
  <2>1. FlattenSeq(seqs) = seqs
    BY <1>2 DEF FlattenSeq
  <2> QED
    BY <1>1, <1>2, <2>1 DEF ToSet
<1>3. CASE Len(seqs) # 0
  <2>1. PICK f : IsFlattening(f, seqs, Len(seqs)) /\ FlattenSeq(seqs) = f[Len(seqs)]
    BY <1>1, <1>3, FlattenIsFlattening
  <2> DEFINE Upto(n) == UNION {ToSet(seqs[i]) : i \in 1..n}
             S == {n \in Nat : n + 1 <= Len(seqs) => IsSeq(f[n + 1]) /\ ToSet(f[n + 1]) = Upto(n + 1)}
  <2>2. 0 \in S
    <3>1. f[1] = seqs[1] /\ IsSeq(seqs[1])
      BY <1>1, <1>3, <2>1 DEF IsFlattening
    <3>2. 1..1 = {1}
      OBVIOUS
    <3>3. ToSet(f[1]) = Upto(1)
      BY <3>1, <3>2
    <3> QED
      BY <3>1, <3>3
  <2>3. ASSUME NEW n \in Nat, n \in S PROVE n + 1 \in S
    <3> SUFFICES ASSUME n + 2 <= Len(seqs)
                 PROVE  IsSeq(f[n + 2]) /\ ToSet(f[n + 2]) = Upto(n + 2)
      <4>1. (n + 1) + 1 = n + 2
        OBVIOUS
      <4> QED
        BY <4>1
    <3>1. IsSeq(f[n + 1]) /\ ToSet(f[n + 1]) = Upto(n + 1)
      BY <1>1, <2>3
    <3>2. f[n + 2] = f[n + 1] \o seqs[n + 2]
      <4>1. n + 2 \in 2..Len(seqs) /\ (n + 2) - 1 = n + 1
        BY <1>1
      <4> QED
        BY <2>1, <4>1 DEF IsFlattening, Join
    <3>3. IsSeq(seqs[n + 2])
      BY <1>1
    <3>4. IsSeq(f[n + 2]) /\ ToSet(f[n + 2]) = Upto(n + 1) \union ToSet(seqs[n + 2])
      BY <3>1, <3>2, <3>3, Joined
    <3>5. 1..(n + 2) = 1..(n + 1) \union {n + 2}
      OBVIOUS
    <3>6. Upto(n + 2) = Upto(n + 1) \union ToSet(seqs[n + 2])
      BY <3>5
    <3> QED
      BY <3>4, <3>6
  <2> HIDE DEF S
  <2>4. Nat \subseteq S
    BY <2>2, <2>3, Induction
  <2>5. IsSeq(f[Len(seqs)]) /\ ToSet(f[Len(seqs)]) = Upto(Len(seqs))
    <3>1. Len(seqs) - 1 \in S /\ (Len(seqs) - 1) + 1 = Len(seqs)
      BY <1>1, <1>3, <2>4
    <3> QED
      BY <1>1, <3>1 DEF S
  <2> QED
    BY <1>1, <2>1, <2>5
<1> QED
  BY <1>2, <1>3

-------------------------------------------------------------------------------
(* Values *)

LEMMA ShapeFacts ==
  ASSUME NEW v, Shaped(v)
  PROVE  /\ Is(v, "string") => v = String(v[2]) /\ v[2] \in STRING
         /\ Is(v, "boolean") => v = Boolean(v[2]) /\ v[2] \in BOOLEAN
         /\ Is(v, "array") => v = Array(v[2]) /\ IsSeq(v[2])
         /\ Is(v, "table") => v = Table(v[2]) /\ v[2] = [k \in DOMAIN v[2] |-> v[2][k]]
BY DEF Shaped, Is, String, Boolean, Integer, Array, Table, IsSeq

LEMMA ValuesDiffer ==
  \A a, b : /\ String(a) = String(b) <=> a = b
            /\ Array(a) = Array(b) <=> a = b
            /\ Table(a) = Table(b) <=> a = b
            /\ String(a) # Array(b) /\ String(a) # Table(b) /\ Array(a) # Table(b)
BY DEF String, Array, Table

(* A table of values in V. *)
IsTreeOf(m, V) == AreValues(V) /\ Table(m) \in V

LEMMA TreeValues ==
  ASSUME NEW m, NEW V, IsTreeOf(m, V), NEW k \in DOMAIN m
  PROVE  m[k] \in V /\ Shaped(m[k])
<1>1. Within(Table(m)) = {m[x] : x \in DOMAIN m}
  BY DEF Within, Table
<1> QED
  BY <1>1 DEF IsTreeOf, AreValues

LEMMA TreeTables ==
  ASSUME NEW m, NEW V, IsTreeOf(m, V), NEW k
  PROVE  /\ IsSeq(Tables(m, k))
         /\ \A i \in DOMAIN Tables(m, k) : IsTreeOf(Tables(m, k)[i], V)
<1>1. CASE ~(Has(m, k) /\ AllOf(m[k], "table"))
  <2>1. Tables(m, k) = <<>>
    BY <1>1 DEF Tables
  <2> QED
    BY <2>1 DEF IsSeq, ToSet
<1>2. CASE Has(m, k) /\ AllOf(m[k], "table")
  <2> DEFINE s == m[k][2]
  <2>1. m[k] \in V /\ Shaped(m[k]) /\ Is(m[k], "array")
    BY <1>2, TreeValues DEF Has, AllOf
  <2>2. IsSeq(s)
    BY <2>1, ShapeFacts
  <2>3. Tables(m, k) = [i \in DOMAIN s |-> s[i][2]]
    BY <1>2 DEF Tables
  <2>4. \A i \in DOMAIN s : s[i] \in Within(m[k])
    BY <2>1 DEF Within, Is
  <2>5. ASSUME NEW i \in DOMAIN s PROVE IsTreeOf(s[i][2], V)
    <3>1. s[i] \in V /\ Shaped(s[i]) /\ Is(s[i], "table")
      BY <1>2, <2>1, <2>4 DEF IsTreeOf, AreValues, AllOf
    <3> QED
      BY <3>1, ShapeFacts DEF IsTreeOf
  <2>6. DOMAIN s = 1..Len(s) /\ Len(s) \in Nat
    BY <2>2, SeqFacts
  <2> HIDE DEF s
  <2>7. Tables(m, k) \in [1..Len(s) -> {s[i][2] : i \in DOMAIN s}]
    BY <2>3, <2>6
  <2>8. IsSeq(Tables(m, k))
    BY <2>6, <2>7, Listed
  <2> QED
    BY <2>3, <2>5, <2>8
<1> QED
  BY <1>1, <1>2

-------------------------------------------------------------------------------
(* The steps of the walk *)

Kinds == {"top", "tokens", "clients", "personas"}

LEMMA SchemaFacts ==
  /\ DOMAIN Schema["top"] = {"issuer", "seed", "tokens", "clients", "personas"}
  /\ Schema["top"]["issuer"] = "string" /\ Schema["top"]["seed"] = "string"
  /\ Schema["top"]["tokens"] = "table"
  /\ Schema["top"]["clients"] = "tables" /\ Schema["top"]["personas"] = "tables"
  /\ DOMAIN Schema["tokens"] = {"algorithm", "rsa_key_file", "ttl", "issued_at"}
  /\ \A k \in DOMAIN Schema["tokens"] : Schema["tokens"][k] = "string"
  /\ DOMAIN Schema["clients"] = {"client_id", "client_secret", "redirect_uris"}
  /\ Schema["clients"]["client_id"] = "string" /\ Schema["clients"]["client_secret"] = "string"
  /\ Schema["clients"]["redirect_uris"] = "strings"
  /\ DOMAIN Schema["personas"] =
       {"name", "subject", "email", "email_verified", "groups", "claims"}
  /\ Schema["personas"]["name"] = "string" /\ Schema["personas"]["subject"] = "string"
  /\ Schema["personas"]["email"] = "string"
  /\ Schema["personas"]["email_verified"] = "boolean"
  /\ Schema["personas"]["groups"] = "strings" /\ Schema["personas"]["claims"] = "table"
  /\ Required["top"] = {"issuer", "seed", "clients", "personas"} /\ Required["tokens"] = {}
  /\ Required["clients"] = {"client_id", "redirect_uris"}
  /\ Required["personas"] = {"name", "subject"}
BY DEF Schema, Required

(* A step that complains complains of a fault. *)
Truthful(tree, x) == x.fails => x.answer \in Faults(tree)

WrongType(place, key) ==
  /\ key \in DOMAIN place.m \intersect DOMAIN Schema[place.kind]
  /\ ~Fits(place.m[key], Schema[place.kind][key])

LEMMA SchemaComplaints ==
  ASSUME NEW tree, NEW place \in Places(tree)
  PROVE  /\ \A k : WrongType(place, k) => Complaint(place.at, k, "type") \in Faults(tree)
         /\ \A k \in DOMAIN place.m \ DOMAIN Schema[place.kind] :
              Complaint(place.at, k, "unknown") \in Faults(tree)
         /\ \A k \in Required[place.kind] :
              Absent(place.m, k) => Complaint(place.at, k, "missing") \in Faults(tree)
<1>1. SchemaFaults(place) \subseteq Faults(tree)
  BY DEF Faults
<1>2. \A k : WrongType(place, k) => Complaint(place.at, k, "type") \in SchemaFaults(place)
  BY DEF SchemaFaults, WrongType
<1>3. \A k \in DOMAIN place.m \ DOMAIN Schema[place.kind] :
        Complaint(place.at, k, "unknown") \in SchemaFaults(place)
  BY DEF SchemaFaults
<1>4. \A k \in Required[place.kind] :
        Absent(place.m, k) => Complaint(place.at, k, "missing") \in SchemaFaults(place)
  BY DEF SchemaFaults
<1> QED
  BY <1>1, <1>2, <1>3, <1>4

LEMMA AllowStep ==
  ASSUME NEW tree, NEW place \in Places(tree), NEW x,
         x = Allow(place.m, place.at, DOMAIN Schema[place.kind])
  PROVE  /\ Truthful(tree, x)
         /\ ~x.fails => DOMAIN place.m \subseteq DOMAIN Schema[place.kind]
<1> DEFINE unknown == DOMAIN place.m \ DOMAIN Schema[place.kind]
           key == CHOOSE k \in unknown : TRUE
<1>1. x.fails = (unknown # {})
  BY DEF Allow, Note
<1>2. unknown # {} => x.answer = Complaint(place.at, key, "unknown") /\ key \in unknown
  BY DEF Allow, Note
<1> HIDE DEF key
<1> QED
  BY <1>1, <1>2, SchemaComplaints DEF Truthful

LEMMA NoteStep ==
  ASSUME NEW tree, NEW place \in Places(tree), NEW key \in DOMAIN Schema[place.kind],
         NEW type, Schema[place.kind][key] = type, type \notin {"strings", "tables"},
         NEW x, x = NoteUnless(type, place.m, place.at, key)
  PROVE  Truthful(tree, x) /\ (~x.fails => ~WrongType(place, key))
<1>1. Fits(place.m[key], Schema[place.kind][key]) <=> Is(place.m[key], type)
  BY DEF Fits
<1>2. x.fails = (Has(place.m, key) /\ ~Is(place.m[key], type))
      /\ x.answer = Complaint(place.at, key, "type")
  BY DEF NoteUnless, Note
<1>3. x.fails <=> WrongType(place, key)
  BY <1>1, <1>2 DEF WrongType, Has
<1> QED
  BY <1>2, <1>3, SchemaComplaints DEF Truthful

LEMMA StringsStep ==
  ASSUME NEW tree, NEW place \in Places(tree), NEW key \in DOMAIN Schema[place.kind],
         Schema[place.kind][key] = "strings",
         NEW x, x = NoteUnlessStrings(place.m, place.at, key)
  PROVE  Truthful(tree, x) /\ (~x.fails => ~WrongType(place, key))
<1>1. Fits(place.m[key], Schema[place.kind][key]) <=> AllOf(place.m[key], "string")
  BY DEF Fits
<1>2. x.fails = (Has(place.m, key) /\ ~AllOf(place.m[key], "string"))
      /\ x.answer = Complaint(place.at, key, "type")
  BY DEF NoteUnlessStrings, Note
<1>3. x.fails <=> WrongType(place, key)
  BY <1>1, <1>2 DEF WrongType, Has
<1> QED
  BY <1>2, <1>3, SchemaComplaints DEF Truthful

(* The places of a file. *)
Top(tree)        == Place(<<>>, "top", tree)
TokensPlace(tree) == Place(<<"tokens">>, "tokens", TokensOf(tree))
EntryPlace(tree, kind, i) == Place(<<kind, i>>, kind, Tables(tree, kind)[i])

LEMMA PlacesAre ==
  ASSUME NEW tree
  PROVE  /\ Top(tree) \in Places(tree) /\ TokensPlace(tree) \in Places(tree)
         /\ \A kind \in {"clients", "personas"} : \A i \in DOMAIN Tables(tree, kind) :
              EntryPlace(tree, kind, i) \in Places(tree)
         /\ \A place \in Places(tree) :
              \/ place = Top(tree) \/ place = TokensPlace(tree)
              \/ \E kind \in {"clients", "personas"} : \E i \in DOMAIN Tables(tree, kind) :
                   place = EntryPlace(tree, kind, i)
<1>1. Places(tree)
        = {Top(tree), TokensPlace(tree)}
            \union UNION {{EntryPlace(tree, kind, i) : i \in DOMAIN Tables(tree, kind)} :
                            kind \in {"clients", "personas"}}
  BY DEF Places, Top, TokensPlace, EntryPlace
<1>2. Top(tree) \in Places(tree) /\ TokensPlace(tree) \in Places(tree)
  BY <1>1
<1>3. \A kind \in {"clients", "personas"} : \A i \in DOMAIN Tables(tree, kind) :
         EntryPlace(tree, kind, i) \in Places(tree)
  BY <1>1
<1>4. ASSUME NEW place \in Places(tree)
      PROVE  \/ place = Top(tree) \/ place = TokensPlace(tree)
             \/ \E kind \in {"clients", "personas"} : \E i \in DOMAIN Tables(tree, kind) :
                  place = EntryPlace(tree, kind, i)
  BY <1>1
<1> QED
  BY <1>2, <1>3, <1>4

LEMMA PlaceParts ==
  ASSUME NEW at, NEW kind, NEW m
  PROVE  /\ Place(at, kind, m).at = at /\ Place(at, kind, m).kind = kind
         /\ Place(at, kind, m).m = m
BY DEF Place

WellTyped(place) ==
  /\ DOMAIN place.m \subseteq DOMAIN Schema[place.kind]
  /\ \A k : ~WrongType(place, k)

(* Each part of the walk complains of faults only, and if it does not      *)
(* complain the table it reads is as the schema says.                      *)
ClientSteps(tree, i) == ClientWalk(Tables(tree, "clients")[i], i)

LEMMA ClientWalked ==
  ASSUME NEW tree, NEW i \in DOMAIN Tables(tree, "clients")
  PROVE  /\ IsSeq(ClientSteps(tree, i))
         /\ \A x \in ToSet(ClientSteps(tree, i)) : Truthful(tree, x)
         /\ (\A x \in ToSet(ClientSteps(tree, i)) : ~x.fails)
              => WellTyped(EntryPlace(tree, "clients", i))
<1> DEFINE place == EntryPlace(tree, "clients", i)
           c == Tables(tree, "clients")[i]
           at == <<"clients", i>>
           x1 == Allow(c, at, {"client_id", "client_secret", "redirect_uris"})
           x2 == NoteUnless("string", c, at, "client_id")
           x3 == NoteUnless("string", c, at, "client_secret")
           x4 == NoteUnlessStrings(c, at, "redirect_uris")
<1>1. place \in Places(tree)
  BY PlacesAre
<1>2. place.at = at /\ place.kind = "clients" /\ place.m = c
  BY PlaceParts DEF EntryPlace
<1>3. ClientSteps(tree, i) = <<x1, x2, x3, x4>>
  BY DEF ClientSteps, ClientWalk
<1>4. IsSeq(ClientSteps(tree, i)) /\ ToSet(ClientSteps(tree, i)) = {x1, x2, x3, x4}
  <2> HIDE DEF x1, x2, x3, x4
  <2> QED
    BY <1>3, FourItems
<1> HIDE DEF place, c, at
<1>5. Truthful(tree, x1) /\ (~x1.fails => DOMAIN c \subseteq DOMAIN Schema["clients"])
  <2>1. x1 = Allow(place.m, place.at, DOMAIN Schema[place.kind])
    BY <1>2, SchemaFacts
  <2> HIDE DEF x1
  <2> QED
    BY <1>1, <1>2, <2>1, AllowStep
<1>6. Truthful(tree, x2) /\ (~x2.fails => ~WrongType(place, "client_id"))
  BY <1>1, <1>2, SchemaFacts, NoteStep
<1>7. Truthful(tree, x3) /\ (~x3.fails => ~WrongType(place, "client_secret"))
  BY <1>1, <1>2, SchemaFacts, NoteStep
<1>8. Truthful(tree, x4) /\ (~x4.fails => ~WrongType(place, "redirect_uris"))
  BY <1>1, <1>2, SchemaFacts, StringsStep
<1>9. ASSUME ~x1.fails, ~x2.fails, ~x3.fails, ~x4.fails PROVE WellTyped(place)
  <2> HIDE DEF x1, x2, x3, x4
  <2>1. \A k \in DOMAIN Schema["clients"] : ~WrongType(place, k)
    BY <1>6, <1>7, <1>8, <1>9, SchemaFacts
  <2>2. \A k : ~WrongType(place, k)
    BY <1>2, <2>1 DEF WrongType
  <2> QED
    BY <1>2, <1>5, <1>9, <2>2 DEF WellTyped
<1> HIDE DEF x1, x2, x3, x4
<1>10. \A x \in ToSet(ClientSteps(tree, i)) : Truthful(tree, x)
  BY <1>4, <1>5, <1>6, <1>7, <1>8
<1>11. (\A x \in ToSet(ClientSteps(tree, i)) : ~x.fails) => WellTyped(place)
  BY <1>4, <1>9
<1> QED
  BY <1>4, <1>10, <1>11 DEF place

LEMMA ReturnStep ==
  ASSUME NEW tree, NEW place \in Places(tree), NEW key \in DOMAIN Schema[place.kind],
         NEW type, Schema[place.kind][key] = type, type \notin {"strings", "tables"},
         NEW x, x = Return(Has(place.m, key) /\ ~Is(place.m[key], type),
                           Complaint(place.at, key, "type"))
  PROVE  Truthful(tree, x) /\ (~x.fails => ~WrongType(place, key))
<1>1. Fits(place.m[key], Schema[place.kind][key]) <=> Is(place.m[key], type)
  BY DEF Fits
<1>2. x.fails = (Has(place.m, key) /\ ~Is(place.m[key], type))
      /\ x.answer = Complaint(place.at, key, "type")
  BY DEF Return
<1>3. x.fails <=> WrongType(place, key)
  BY <1>1, <1>2 DEF WrongType, Has
<1> QED
  BY <1>2, <1>3, SchemaComplaints DEF Truthful

PersonaSteps(tree, i) == PersonaWalk(Tables(tree, "personas")[i], i)

LEMMA PersonaWalked ==
  ASSUME NEW tree, NEW i \in DOMAIN Tables(tree, "personas")
  PROVE  /\ IsSeq(PersonaSteps(tree, i))
         /\ \A x \in ToSet(PersonaSteps(tree, i)) : Truthful(tree, x)
         /\ (\A x \in ToSet(PersonaSteps(tree, i)) : ~x.fails)
              => WellTyped(EntryPlace(tree, "personas", i))
<1> DEFINE place == EntryPlace(tree, "personas", i)
           p == Tables(tree, "personas")[i]
           at == <<"personas", i>>
           x1 == Allow(p, at, {"name", "subject", "email", "email_verified", "groups", "claims"})
           x2 == NoteUnless("string", p, at, "name")
           x3 == NoteUnless("string", p, at, "subject")
           x4 == NoteUnless("string", p, at, "email")
           x5 == NoteUnless("boolean", p, at, "email_verified")
           x6 == NoteUnlessStrings(p, at, "groups")
           x7 == Return(Has(p, "claims") /\ ~Is(p["claims"], "table"),
                        Complaint(at, "claims", "type"))
<1>1. place \in Places(tree)
  BY PlacesAre
<1>2. place.at = at /\ place.kind = "personas" /\ place.m = p
  BY PlaceParts DEF EntryPlace
<1>3. PersonaSteps(tree, i) = <<x1, x2, x3, x4, x5, x6, x7>>
  BY DEF PersonaSteps, PersonaWalk
<1>4. /\ IsSeq(PersonaSteps(tree, i))
      /\ ToSet(PersonaSteps(tree, i)) = {x1, x2, x3, x4, x5, x6, x7}
  <2> HIDE DEF x1, x2, x3, x4, x5, x6, x7
  <2> QED
    BY <1>3, SevenItems
<1> HIDE DEF place, p, at
<1>5. Truthful(tree, x1) /\ (~x1.fails => DOMAIN p \subseteq DOMAIN Schema["personas"])
  <2>1. x1 = Allow(place.m, place.at, DOMAIN Schema[place.kind])
    BY <1>2, SchemaFacts
  <2> HIDE DEF x1
  <2> QED
    BY <1>1, <1>2, <2>1, AllowStep
<1>6. Truthful(tree, x2) /\ (~x2.fails => ~WrongType(place, "name"))
  BY <1>1, <1>2, SchemaFacts, NoteStep
<1>7. Truthful(tree, x3) /\ (~x3.fails => ~WrongType(place, "subject"))
  BY <1>1, <1>2, SchemaFacts, NoteStep
<1>8. Truthful(tree, x4) /\ (~x4.fails => ~WrongType(place, "email"))
  BY <1>1, <1>2, SchemaFacts, NoteStep
<1>9. Truthful(tree, x5) /\ (~x5.fails => ~WrongType(place, "email_verified"))
  BY <1>1, <1>2, SchemaFacts, NoteStep
<1>10. Truthful(tree, x6) /\ (~x6.fails => ~WrongType(place, "groups"))
  BY <1>1, <1>2, SchemaFacts, StringsStep
<1>11. Truthful(tree, x7) /\ (~x7.fails => ~WrongType(place, "claims"))
  BY <1>1, <1>2, SchemaFacts, ReturnStep
<1>12. ASSUME ~x1.fails, ~x2.fails, ~x3.fails, ~x4.fails, ~x5.fails, ~x6.fails, ~x7.fails
       PROVE  WellTyped(place)
  <2> HIDE DEF x1, x2, x3, x4, x5, x6, x7
  <2>1. \A k \in DOMAIN Schema["personas"] : ~WrongType(place, k)
    BY <1>6, <1>7, <1>8, <1>9, <1>10, <1>11, <1>12, SchemaFacts
  <2>2. \A k : ~WrongType(place, k)
    BY <1>2, <2>1 DEF WrongType
  <2> QED
    BY <1>2, <1>5, <1>12, <2>2 DEF WellTyped
<1> HIDE DEF x1, x2, x3, x4, x5, x6, x7
<1>13. \A x \in ToSet(PersonaSteps(tree, i)) : Truthful(tree, x)
  BY <1>4, <1>5, <1>6, <1>7, <1>8, <1>9, <1>10, <1>11
<1>14. (\A x \in ToSet(PersonaSteps(tree, i)) : ~x.fails) => WellTyped(place)
  BY <1>4, <1>12
<1> QED
  BY <1>4, <1>13, <1>14 DEF place

LEMMA FaultKinds ==
  ASSUME NEW tree
  PROVE  /\ ValueFaults(tree) \subseteq Faults(tree) /\ ClaimFaults(tree) \subseteq Faults(tree)
         /\ Repeats(tree, "clients", "client_id") \subseteq Faults(tree)
         /\ Repeats(tree, "personas", "name") \subseteq Faults(tree)
         /\ Repeats(tree, "personas", "subject") \subseteq Faults(tree)
BY DEF Faults

GoodDurations == {d \in DOMAIN DurationOf : DurationOf[d] \in Nat \ {0}}

LEMMA LifetimeIsGood == \A s : Lifetime(s) <=> s \in GoodDurations
<1>1. \A d \in DOMAIN DurationOf : DurationOf[d] \in Int
  BY FileAssumption
<1> QED
  BY <1>1 DEF Lifetime, GoodDurations

(* What [tokens] says of times is read. *)
TimesRead(tree) ==
  /\ Str(TokensOf(tree), "ttl", "") = "" \/ Lifetime(Str(TokensOf(tree), "ttl", ""))
  /\ Str(TokensOf(tree), "issued_at", "") \in DOMAIN InstantOf \union {""}

(* The string a key holds, to the schema and to the decoder. *)
LEMMA StrSays ==
  ASSUME NEW m, NEW key
  PROVE  /\ Str(m, key, "") # "" => Says(m, key) = {Str(m, key, "")}
         /\ Str(m, key, "") = "" => Says(m, key) = {}
BY DEF Says, Text, Str

LEMMA TokensWalked ==
  ASSUME NEW tree
  PROVE  /\ IsSeq(TokensWalk(tree))
         /\ \A x \in ToSet(TokensWalk(tree)) : Truthful(tree, x)
         /\ (\A x \in ToSet(TokensWalk(tree)) : ~x.fails)
              => /\ WellTyped(TokensPlace(tree)) /\ TimesRead(tree)
                 /\ ~WrongType(Top(tree), "tokens")
<1>1. /\ Top(tree).at = <<>> /\ Top(tree).kind = "top" /\ Top(tree).m = tree
      /\ TokensPlace(tree).at = <<"tokens">> /\ TokensPlace(tree).kind = "tokens"
      /\ TokensPlace(tree).m = TokensOf(tree)
  BY PlaceParts DEF Top, TokensPlace
<1>2. WrongType(Top(tree), "tokens") <=> Has(tree, "tokens") /\ ~Is(tree["tokens"], "table")
  <2>1. Fits(tree["tokens"], "table") <=> Is(tree["tokens"], "table")
    BY DEF Fits
  <2> QED
    BY <1>1, <2>1, SchemaFacts DEF WrongType, Has
<1>3. CASE ~Has(tree, "tokens")
  <2>1. TokensWalk(tree) = <<>> /\ TokensOf(tree) = EmptyTable
    BY <1>3 DEF TokensWalk, TokensOf, Holds
  <2>2. DOMAIN EmptyTable = {}
    BY DEF EmptyTable
  <2>3. IsSeq(TokensWalk(tree)) /\ ToSet(TokensWalk(tree)) = {}
    BY <2>1 DEF IsSeq, ToSet
  <2>4. WellTyped(TokensPlace(tree))
    BY <1>1, <2>1, <2>2 DEF WellTyped, WrongType
  <2>5. TimesRead(tree)
    BY <2>1, <2>2 DEF TimesRead, Str, Holds, Has
  <2> QED
    BY <1>2, <1>3, <2>3, <2>4, <2>5
<1>4. CASE Has(tree, "tokens") /\ ~Is(tree["tokens"], "table")
  <2> DEFINE x == Return(TRUE, Complaint(<<>>, "tokens", "type"))
  <2>1. TokensWalk(tree) = <<x>>
    BY <1>4 DEF TokensWalk
  <2>2. x.fails /\ x.answer = Complaint(<<>>, "tokens", "type")
    BY DEF Return
  <2>3. Complaint(<<>>, "tokens", "type") \in Faults(tree)
    BY <1>1, <1>2, <1>4, PlacesAre, SchemaComplaints
  <2> HIDE DEF x
  <2>4. IsSeq(TokensWalk(tree)) /\ ToSet(TokensWalk(tree)) = {x}
    BY <2>1, OneItem
  <2> QED
    BY <2>2, <2>3, <2>4 DEF Truthful
<1>5. CASE Has(tree, "tokens") /\ Is(tree["tokens"], "table")
  <2> DEFINE place == TokensPlace(tree)
             t == tree["tokens"][2]
             at == <<"tokens">>
             x1 == Allow(t, at, {"algorithm", "ttl", "issued_at", "rsa_key_file"})
             x2 == NoteUnless("string", t, at, "algorithm")
             x3 == NoteUnless("string", t, at, "rsa_key_file")
             x4 == NoteUnless("string", t, at, "ttl")
             x5 == Return(Str(t, "ttl", "") # "" /\ ~Lifetime(Str(t, "ttl", "")),
                          Complaint(at, "ttl", "value"))
             x6 == NoteUnless("string", t, at, "issued_at")
             x7 == Return(Str(t, "issued_at", "") \notin DOMAIN InstantOf \union {""},
                          Complaint(at, "issued_at", "value"))
  <2>1. place \in Places(tree)
    BY PlacesAre
  <2>2. TokensOf(tree) = t
    BY <1>5 DEF TokensOf, Holds
  <2>3. place.at = at /\ place.kind = "tokens" /\ place.m = t
    BY <1>1, <2>2
  <2>4. TokensWalk(tree) = <<x1, x2, x3, x4, x5, x6, x7>>
    BY <1>5 DEF TokensWalk
  <2>5. /\ IsSeq(TokensWalk(tree))
        /\ ToSet(TokensWalk(tree)) = {x1, x2, x3, x4, x5, x6, x7}
    <3> HIDE DEF x1, x2, x3, x4, x5, x6, x7
    <3> QED
      BY <2>4, SevenItems
  <2>6. Truthful(tree, x5)
        /\ (~x5.fails => Str(t, "ttl", "") = "" \/ Lifetime(Str(t, "ttl", "")))
    <3>1. /\ x5.fails = (Str(t, "ttl", "") # "" /\ ~Lifetime(Str(t, "ttl", "")))
          /\ x5.answer = Complaint(at, "ttl", "value")
      BY DEF Return
    <3>2. ASSUME Str(t, "ttl", "") # "", ~Lifetime(Str(t, "ttl", ""))
          PROVE  Complaint(at, "ttl", "value") \in Faults(tree)
      <4>1. Str(t, "ttl", "") \in Says(t, "ttl")
        BY <3>2, StrSays
      <4>2. Str(t, "ttl", "") \notin GoodDurations
        BY <3>2, LifetimeIsGood
      <4> HIDE DEF t
      <4>3. Complaint(at, "ttl", "value") \in ValueFaults(tree)
        BY <2>2, <4>1, <4>2 DEF ValueFaults, GoodDurations
      <4> QED
        BY <4>3, FaultKinds
    <3> HIDE DEF x5
    <3> QED
      BY <3>1, <3>2 DEF Truthful
  <2>7. Truthful(tree, x7)
        /\ (~x7.fails => Str(t, "issued_at", "") \in DOMAIN InstantOf \union {""})
    <3>1. /\ x7.fails = (Str(t, "issued_at", "") \notin DOMAIN InstantOf \union {""})
          /\ x7.answer = Complaint(at, "issued_at", "value")
      BY DEF Return
    <3>2. ASSUME Str(t, "issued_at", "") \notin DOMAIN InstantOf \union {""}
          PROVE  Complaint(at, "issued_at", "value") \in Faults(tree)
      <4>1. Str(t, "issued_at", "") \in Says(t, "issued_at") \ DOMAIN InstantOf
        BY <3>2, StrSays
      <4> HIDE DEF t
      <4>2. Complaint(at, "issued_at", "value") \in ValueFaults(tree)
        BY <2>2, <4>1 DEF ValueFaults
      <4> QED
        BY <4>2, FaultKinds
    <3> HIDE DEF x7
    <3> QED
      BY <3>1, <3>2 DEF Truthful
  <2> HIDE DEF place, t, at
  <2>8. Truthful(tree, x1) /\ (~x1.fails => DOMAIN t \subseteq DOMAIN Schema["tokens"])
    <3>1. x1 = Allow(place.m, place.at, DOMAIN Schema[place.kind])
      <4>1. {"algorithm", "ttl", "issued_at", "rsa_key_file"} = DOMAIN Schema["tokens"]
        BY SchemaFacts
      <4> QED
        BY <2>3, <4>1
    <3> HIDE DEF x1
    <3> QED
      BY <2>1, <2>3, <3>1, AllowStep
  <2>9. Truthful(tree, x2) /\ (~x2.fails => ~WrongType(place, "algorithm"))
    BY <2>1, <2>3, SchemaFacts, NoteStep
  <2>10. Truthful(tree, x3) /\ (~x3.fails => ~WrongType(place, "rsa_key_file"))
    BY <2>1, <2>3, SchemaFacts, NoteStep
  <2>11. Truthful(tree, x4) /\ (~x4.fails => ~WrongType(place, "ttl"))
    BY <2>1, <2>3, SchemaFacts, NoteStep
  <2>12. Truthful(tree, x6) /\ (~x6.fails => ~WrongType(place, "issued_at"))
    BY <2>1, <2>3, SchemaFacts, NoteStep
  <2>13. ASSUME ~x1.fails, ~x2.fails, ~x3.fails, ~x4.fails, ~x6.fails
         PROVE  WellTyped(place)
    <3> HIDE DEF x1, x2, x3, x4, x6
    <3>1. \A k \in DOMAIN Schema["tokens"] : ~WrongType(place, k)
      BY <2>9, <2>10, <2>11, <2>12, <2>13, SchemaFacts
    <3>2. \A k : ~WrongType(place, k)
      BY <2>3, <3>1 DEF WrongType
    <3> QED
      BY <2>3, <2>8, <2>13, <3>2 DEF WellTyped
  <2> HIDE DEF x1, x2, x3, x4, x5, x6, x7
  <2>14. \A x \in ToSet(TokensWalk(tree)) : Truthful(tree, x)
    BY <2>5, <2>6, <2>7, <2>8, <2>9, <2>10, <2>11, <2>12
  <2>15. ASSUME \A x \in ToSet(TokensWalk(tree)) : ~x.fails
         PROVE  WellTyped(place) /\ TimesRead(tree)
    BY <2>2, <2>5, <2>6, <2>7, <2>13, <2>15 DEF TimesRead
  <2> QED
    BY <1>2, <1>5, <2>5, <2>14, <2>15 DEF place
<1> QED
  BY <1>3, <1>4, <1>5

LEMMA ClientsWalked ==
  ASSUME NEW tree, IsSeq(Tables(tree, "clients"))
  PROVE  LET steps == Each(Tables(tree, "clients"), ClientWalk) IN
         /\ IsSeq(steps) /\ \A x \in ToSet(steps) : Truthful(tree, x)
         /\ (\A x \in ToSet(steps) : ~x.fails)
              => \A i \in DOMAIN Tables(tree, "clients") :
                   WellTyped(EntryPlace(tree, "clients", i))
<1> DEFINE entries == Tables(tree, "clients")
           lists == [i \in DOMAIN entries |-> ClientSteps(tree, i)]
           steps == FlattenSeq(lists)
<1>1. Each(entries, ClientWalk) = steps
  BY DEF Each, ClientSteps
<1>2. DOMAIN entries = 1..Len(entries) /\ Len(entries) \in Nat
  BY SeqFacts
<1>3. DOMAIN lists = DOMAIN entries /\ \A i \in DOMAIN entries : lists[i] = ClientSteps(tree, i)
  OBVIOUS
<1>4. IsSeq(lists)
  <2>1. lists \in [1..Len(entries) -> {ClientSteps(tree, i) : i \in DOMAIN entries}]
    BY <1>2
  <2> HIDE DEF lists, entries
  <2> QED
    BY <1>2, <2>1, Listed
<1> HIDE DEF lists
<1>5. \A i \in DOMAIN lists : IsSeq(lists[i])
  BY <1>3, ClientWalked
<1>6. IsSeq(steps) /\ ToSet(steps) = UNION {ToSet(lists[i]) : i \in DOMAIN lists}
  BY <1>4, <1>5, Flattened
<1> HIDE DEF steps
<1>7. ASSUME NEW x \in ToSet(steps) PROVE Truthful(tree, x)
  <2>1. PICK i \in DOMAIN lists : x \in ToSet(lists[i])
    BY <1>6
  <2> QED
    BY <1>3, <2>1, ClientWalked
<1>8. ASSUME \A x \in ToSet(steps) : ~x.fails, NEW i \in DOMAIN entries
      PROVE  WellTyped(EntryPlace(tree, "clients", i))
  <2>1. \A x \in ToSet(ClientSteps(tree, i)) : ~x.fails
    BY <1>3, <1>6, <1>8
  <2> QED
    BY <2>1, ClientWalked
<1> QED
  BY <1>1, <1>6, <1>7, <1>8

LEMMA PersonasWalked ==
  ASSUME NEW tree, IsSeq(Tables(tree, "personas"))
  PROVE  LET steps == Each(Tables(tree, "personas"), PersonaWalk) IN
         /\ IsSeq(steps) /\ \A x \in ToSet(steps) : Truthful(tree, x)
         /\ (\A x \in ToSet(steps) : ~x.fails)
              => \A i \in DOMAIN Tables(tree, "personas") :
                   WellTyped(EntryPlace(tree, "personas", i))
<1> DEFINE entries == Tables(tree, "personas")
           lists == [i \in DOMAIN entries |-> PersonaSteps(tree, i)]
           steps == FlattenSeq(lists)
<1>1. Each(entries, PersonaWalk) = steps
  BY DEF Each, PersonaSteps
<1>2. DOMAIN entries = 1..Len(entries) /\ Len(entries) \in Nat
  BY SeqFacts
<1>3. DOMAIN lists = DOMAIN entries /\ \A i \in DOMAIN entries : lists[i] = PersonaSteps(tree, i)
  OBVIOUS
<1>4. IsSeq(lists)
  <2>1. lists \in [1..Len(entries) -> {PersonaSteps(tree, i) : i \in DOMAIN entries}]
    BY <1>2
  <2> HIDE DEF lists, entries
  <2> QED
    BY <1>2, <2>1, Listed
<1> HIDE DEF lists
<1>5. \A i \in DOMAIN lists : IsSeq(lists[i])
  BY <1>3, PersonaWalked
<1>6. IsSeq(steps) /\ ToSet(steps) = UNION {ToSet(lists[i]) : i \in DOMAIN lists}
  BY <1>4, <1>5, Flattened
<1> HIDE DEF steps
<1>7. ASSUME NEW x \in ToSet(steps) PROVE Truthful(tree, x)
  <2>1. PICK i \in DOMAIN lists : x \in ToSet(lists[i])
    BY <1>6
  <2> QED
    BY <1>3, <2>1, PersonaWalked
<1>8. ASSUME \A x \in ToSet(steps) : ~x.fails, NEW i \in DOMAIN entries
      PROVE  WellTyped(EntryPlace(tree, "personas", i))
  <2>1. \A x \in ToSet(PersonaSteps(tree, i)) : ~x.fails
    BY <1>3, <1>6, <1>8
  <2> QED
    BY <2>1, PersonaWalked
<1> QED
  BY <1>1, <1>6, <1>7, <1>8

LEMMA TablesStep ==
  ASSUME NEW tree, NEW key \in {"clients", "personas"}, NEW x,
         x = ReturnUnlessTables(tree, key)
  PROVE  Truthful(tree, x) /\ (~x.fails => ~WrongType(Top(tree), key))
<1>1. Top(tree).at = <<>> /\ Top(tree).kind = "top" /\ Top(tree).m = tree
  BY PlaceParts DEF Top
<1>2. Schema["top"][key] = "tables" /\ key \in DOMAIN Schema["top"]
  BY SchemaFacts
<1>3. Fits(tree[key], "tables") <=> AllOf(tree[key], "table")
  BY DEF Fits
<1>4. x.fails = (Has(tree, key) /\ ~AllOf(tree[key], "table"))
      /\ x.answer = Complaint(<<>>, key, "type")
  BY DEF ReturnUnlessTables, Return
<1>5. x.fails <=> WrongType(Top(tree), key)
  BY <1>1, <1>2, <1>3, <1>4 DEF WrongType, Has
<1> QED
  BY <1>1, <1>4, <1>5, PlacesAre, SchemaComplaints DEF Truthful

LEMMA Walked ==
  ASSUME NEW tree, NEW V, IsTreeOf(tree, V)
  PROVE  /\ IsSeq(Walk(tree)) /\ \A x \in ToSet(Walk(tree)) : Truthful(tree, x)
         /\ Passes(Walk(tree)) =>
              (\A place \in Places(tree) : WellTyped(place)) /\ TimesRead(tree)
<1> DEFINE x1 == Allow(tree, <<>>, {"issuer", "seed", "tokens", "clients", "personas"})
           x2 == NoteUnless("string", tree, <<>>, "issuer")
           x3 == NoteUnless("string", tree, <<>>, "seed")
           x4 == ReturnUnlessTables(tree, "clients")
           x5 == ReturnUnlessTables(tree, "personas")
           tokens == TokensWalk(tree)
           clients == Each(Tables(tree, "clients"), ClientWalk)
           personas == Each(Tables(tree, "personas"), PersonaWalk)
           top == Top(tree)
<1>1. Walk(tree) = <<x1, x2, x3>> \o tokens \o <<x4>> \o clients \o <<x5>> \o personas
  BY DEF Walk
<1>2. top \in Places(tree) /\ top.at = <<>> /\ top.kind = "top" /\ top.m = tree
  BY PlaceParts, PlacesAre DEF Top
<1>3. IsSeq(Tables(tree, "clients")) /\ IsSeq(Tables(tree, "personas"))
  BY TreeTables
<1>4. IsSeq(tokens) /\ (\A x \in ToSet(tokens) : Truthful(tree, x))
      /\ ((\A x \in ToSet(tokens) : ~x.fails)
           => WellTyped(TokensPlace(tree)) /\ TimesRead(tree) /\ ~WrongType(top, "tokens"))
  BY TokensWalked
<1>5. IsSeq(clients) /\ (\A x \in ToSet(clients) : Truthful(tree, x))
      /\ ((\A x \in ToSet(clients) : ~x.fails)
           => \A i \in DOMAIN Tables(tree, "clients") : WellTyped(EntryPlace(tree, "clients", i)))
  BY <1>3, ClientsWalked
<1>6. IsSeq(personas) /\ (\A x \in ToSet(personas) : Truthful(tree, x))
      /\ ((\A x \in ToSet(personas) : ~x.fails)
           => \A i \in DOMAIN Tables(tree, "personas") : WellTyped(EntryPlace(tree, "personas", i)))
  BY <1>3, PersonasWalked
<1>7. Truthful(tree, x1) /\ (~x1.fails => DOMAIN tree \subseteq DOMAIN Schema["top"])
  <2>1. x1 = Allow(top.m, top.at, DOMAIN Schema[top.kind])
    BY <1>2, SchemaFacts
  <2> HIDE DEF x1, top
  <2> QED
    BY <1>2, <2>1, AllowStep
<1> HIDE DEF top
<1>8. Truthful(tree, x2) /\ (~x2.fails => ~WrongType(top, "issuer"))
  <2>1. x2 = NoteUnless("string", top.m, top.at, "issuer")
    BY <1>2
  <2>2. "issuer" \in DOMAIN Schema[top.kind] /\ Schema[top.kind]["issuer"] = "string"
    BY <1>2, SchemaFacts
  <2> QED
    BY <1>2, <2>1, <2>2, NoteStep
<1>9. Truthful(tree, x3) /\ (~x3.fails => ~WrongType(top, "seed"))
  BY <1>2, SchemaFacts, NoteStep, SMTT(30), ZenonT(30)
<1>10. Truthful(tree, x4) /\ (~x4.fails => ~WrongType(top, "clients"))
       /\ Truthful(tree, x5) /\ (~x5.fails => ~WrongType(top, "personas"))
  BY TablesStep DEF top
<1> HIDE DEF x1, x2, x3, x4, x5, tokens, clients, personas
<1>11. IsSeq(Walk(tree))
       /\ ToSet(Walk(tree)) = {x1, x2, x3, x4, x5} \union ToSet(tokens) \union ToSet(clients)
                                \union ToSet(personas)
  <2> DEFINE s1 == <<x1, x2, x3>>
             s2 == s1 \o tokens
             s3 == s2 \o <<x4>>
             s4 == s3 \o clients
             s5 == s4 \o <<x5>>
             s6 == s5 \o personas
  <2>1. IsSeq(s1) /\ ToSet(s1) = {x1, x2, x3}
    BY ThreeItems
  <2> HIDE DEF s1
  <2>2. IsSeq(s2) /\ ToSet(s2) = ToSet(s1) \union ToSet(tokens)
    BY <1>4, <2>1, Joined
  <2> HIDE DEF s2
  <2>3. IsSeq(s3) /\ ToSet(s3) = ToSet(s2) \union {x4}
    BY <2>2, ItemAdded
  <2> HIDE DEF s3
  <2>4. IsSeq(s4) /\ ToSet(s4) = ToSet(s3) \union ToSet(clients)
    BY <1>5, <2>3, Joined
  <2> HIDE DEF s4
  <2>5. IsSeq(s5) /\ ToSet(s5) = ToSet(s4) \union {x5}
    BY <2>4, ItemAdded
  <2> HIDE DEF s5
  <2>6. IsSeq(s6) /\ ToSet(s6) = ToSet(s5) \union ToSet(personas)
    BY <1>6, <2>5, Joined
  <2>7. Walk(tree) = s6
    BY <1>1 DEF s1, s2, s3, s4, s5
  <2> HIDE DEF s6
  <2> QED
    BY <2>1, <2>2, <2>3, <2>4, <2>5, <2>6, <2>7
<1>12. \A x \in ToSet(Walk(tree)) : Truthful(tree, x)
  BY <1>4, <1>5, <1>6, <1>7, <1>8, <1>9, <1>10, <1>11
<1>13. ASSUME Passes(Walk(tree))
       PROVE  (\A place \in Places(tree) : WellTyped(place)) /\ TimesRead(tree)
  <2>1. \A x \in ToSet(Walk(tree)) : ~x.fails
    BY <1>13, PassingItems
  <2>2. /\ ~x1.fails /\ ~x2.fails /\ ~x3.fails /\ ~x4.fails /\ ~x5.fails
        /\ \A x \in ToSet(tokens) : ~x.fails
        /\ \A x \in ToSet(clients) : ~x.fails
        /\ \A x \in ToSet(personas) : ~x.fails
    BY <1>11, <2>1
  <2>3. WellTyped(top)
    <3>1. \A k \in DOMAIN Schema["top"] : ~WrongType(top, k)
      BY <1>4, <1>8, <1>9, <1>10, <2>2, SchemaFacts
    <3>2. \A k : ~WrongType(top, k)
      BY <1>2, <3>1 DEF WrongType
    <3> QED
      BY <1>2, <1>7, <2>2, <3>2 DEF WellTyped
  <2>4. \A kind \in {"clients", "personas"} : \A i \in DOMAIN Tables(tree, kind) :
          WellTyped(EntryPlace(tree, kind, i))
    BY <1>5, <1>6, <2>2
  <2> QED
    BY <1>4, <2>2, <2>3, <2>4, PlacesAre DEF top
<1> QED
  BY <1>11, <1>12, <1>13

-------------------------------------------------------------------------------
(* validate.  A check may rely on the ones before it, so what counts is    *)
(* the first that fails.                                                   *)

Honest(s, F) ==
  \A i \in DOMAIN s :
    s[i].fails /\ (\A j \in DOMAIN s : j < i => ~s[j].fails) => s[i].answer \in F

LEMMA HonestAnswer ==
  ASSUME NEW s, NEW F, IsSeq(s), Honest(s, F), ~Passes(s)
  PROVE  FirstFailure(s) \in F
<1>1. DOMAIN s = 1..Len(s) /\ Len(s) \in Nat
  BY SeqFacts
<1>2. PICK i \in Failing(s) : /\ \A j \in Failing(s) : i <= j
                              /\ FirstFailure(s) = s[i].answer
  BY <1>1, FirstFailing
<1>3. i \in DOMAIN s /\ s[i].fails /\ \A j \in DOMAIN s : j < i => ~s[j].fails
  <2>1. i \in Nat /\ \A j \in DOMAIN s : j \in Nat
    BY <1>1, <1>2 DEF Failing
  <2> QED
    BY <1>2, <2>1 DEF Failing
<1> QED
  BY <1>2, <1>3 DEF Honest

LEMMA HonestJoined ==
  ASSUME NEW s, NEW t, NEW F, IsSeq(s), IsSeq(t), Honest(s, F), Honest(t, F)
  PROVE  Honest(s \o t, F)
<1> DEFINE C == ToSet(s) \union ToSet(t)
           j == s \o t
<1>1. s \in Seq(C) /\ t \in Seq(C)
  BY DEF IsSeq
<1>2. /\ j \in Seq(C) /\ Len(j) = Len(s) + Len(t)
      /\ \A i \in 1..Len(s) : j[i] = s[i]
      /\ \A i \in 1..Len(t) : j[Len(s) + i] = t[i]
  BY <1>1, ConcatProperties
<1>3. Len(s) \in Nat /\ DOMAIN s = 1..Len(s) /\ Len(t) \in Nat /\ DOMAIN t = 1..Len(t)
  BY <1>1
<1>4. DOMAIN j = 1..(Len(s) + Len(t))
  BY <1>2
<1> HIDE DEF j, C
<1> SUFFICES ASSUME NEW i \in DOMAIN j, j[i].fails,
                    \A k \in DOMAIN j : k < i => ~j[k].fails
             PROVE  j[i].answer \in F
  BY DEF Honest, j
<1>5. CASE i <= Len(s)
  <2>1. i \in DOMAIN s /\ j[i] = s[i]
    BY <1>2, <1>3, <1>4, <1>5
  <2>2. ASSUME NEW k \in DOMAIN s, k < i PROVE ~s[k].fails
    <3>1. k \in DOMAIN j /\ j[k] = s[k]
      BY <1>2, <1>3, <1>4
    <3> QED
      BY <2>2, <3>1
  <2> QED
    BY <2>1, <2>2 DEF Honest
<1>6. CASE i > Len(s)
  <2> DEFINE m == i - Len(s)
  <2>1. m \in DOMAIN t /\ Len(s) + m = i
    BY <1>3, <1>4, <1>6
  <2>2. j[i] = t[m]
    BY <1>2, <1>3, <2>1
  <2>3. ASSUME NEW k \in DOMAIN t, k < m PROVE ~t[k].fails
    <3>1. Len(s) + k \in DOMAIN j /\ j[Len(s) + k] = t[k] /\ Len(s) + k < i
      BY <1>2, <1>3, <1>4, <2>1, <2>3
    <3> QED
      BY <3>1
  <2> HIDE DEF m
  <2> QED
    BY <2>1, <2>2, <2>3 DEF Honest
<1> QED
  BY <1>3, <1>4, <1>5, <1>6

LEMMA HonestFlattened ==
  ASSUME NEW seqs, NEW F, IsSeq(seqs),
         \A i \in DOMAIN seqs : IsSeq(seqs[i]) /\ Honest(seqs[i], F)
  PROVE  Honest(FlattenSeq(seqs), F)
<1>1. DOMAIN seqs = 1..Len(seqs) /\ Len(seqs) \in Nat
  BY SeqFacts
<1>2. CASE Len(seqs) = 0
  <2>1. FlattenSeq(seqs) = seqs
    BY <1>2 DEF FlattenSeq
  <2> QED
    BY <1>1, <1>2, <2>1 DEF Honest
<1>3. CASE Len(seqs) # 0
  <2>1. PICK f : IsFlattening(f, seqs, Len(seqs)) /\ FlattenSeq(seqs) = f[Len(seqs)]
    BY <1>1, <1>3, FlattenIsFlattening
  <2> DEFINE S == {n \in Nat : n + 1 <= Len(seqs) => IsSeq(f[n + 1]) /\ Honest(f[n + 1], F)}
  <2>2. 0 \in S
    <3>1. f[1] = seqs[1] /\ 1 \in DOMAIN seqs
      BY <1>1, <1>3, <2>1 DEF IsFlattening
    <3> QED
      BY <3>1
  <2>3. ASSUME NEW n \in Nat, n \in S PROVE n + 1 \in S
    <3> SUFFICES ASSUME n + 2 <= Len(seqs) PROVE IsSeq(f[n + 2]) /\ Honest(f[n + 2], F)
      <4>1. (n + 1) + 1 = n + 2
        OBVIOUS
      <4> QED
        BY <4>1
    <3>1. IsSeq(f[n + 1]) /\ Honest(f[n + 1], F)
      BY <1>1, <2>3
    <3>2. f[n + 2] = f[n + 1] \o seqs[n + 2]
      <4>1. n + 2 \in 2..Len(seqs) /\ (n + 2) - 1 = n + 1
        BY <1>1
      <4> QED
        BY <2>1, <4>1 DEF IsFlattening, Join
    <3>3. IsSeq(seqs[n + 2]) /\ Honest(seqs[n + 2], F)
      BY <1>1
    <3> QED
      BY <3>1, <3>2, <3>3, Joined, HonestJoined
  <2> HIDE DEF S
  <2>4. Nat \subseteq S
    BY <2>2, <2>3, Induction
  <2>5. Honest(f[Len(seqs)], F)
    <3>1. Len(seqs) - 1 \in S /\ (Len(seqs) - 1) + 1 = Len(seqs)
      BY <1>1, <1>3, <2>4
    <3> QED
      BY <1>1, <3>1 DEF S
  <2> QED
    BY <2>1, <2>5
<1> QED
  BY <1>2, <1>3

LEMMA HonestOne ==
  ASSUME NEW F, NEW a, a.fails => a.answer \in F
  PROVE  Honest(<<a>>, F)
BY DEF Honest

LEMMA HonestFour ==
  ASSUME NEW F, NEW a, NEW b, NEW c, NEW d,
         a.fails => a.answer \in F, ~a.fails /\ b.fails => b.answer \in F,
         ~a.fails /\ ~b.fails /\ c.fails => c.answer \in F,
         ~a.fails /\ ~b.fails /\ ~c.fails /\ d.fails => d.answer \in F
  PROVE  Honest(<<a, b, c, d>>, F)
<1> DEFINE s == <<a, b, c, d>>
<1>1. DOMAIN s = 1..4 /\ s[1] = a /\ s[2] = b /\ s[3] = c /\ s[4] = d
  OBVIOUS
<1> HIDE DEF s
<1>2. Honest(s, F)
  <2> SUFFICES ASSUME NEW i \in 1..4, s[i].fails, \A j \in 1..4 : j < i => ~s[j].fails
               PROVE  s[i].answer \in F
    BY <1>1 DEF Honest
  <2>1. CASE i = 1
    BY <1>1, <2>1
  <2>2. CASE i = 2
    BY <1>1, <2>2
  <2>3. CASE i = 3
    BY <1>1, <2>3
  <2>4. CASE i = 4
    BY <1>1, <2>4
  <2> QED
    BY <2>1, <2>2, <2>3, <2>4
<1> QED
  BY <1>2 DEF s

LEMMA HonestAll ==
  ASSUME NEW s, NEW F, \A x \in ToSet(s) : x.fails => x.answer \in F
  PROVE  Honest(s, F)
BY DEF Honest, ToSet

(* A file that passed the walk. *)
Readable(tree, V) ==
  /\ IsTreeOf(tree, V) /\ (\A place \in Places(tree) : WellTyped(place)) /\ TimesRead(tree)

LEMMA KeyFits ==
  ASSUME NEW place, WellTyped(place), NEW key \in DOMAIN Schema[place.kind], Has(place.m, key)
  PROVE  Fits(place.m[key], Schema[place.kind][key])
BY DEF WellTyped, WrongType, Has

LEMMA FitsString == \A v : /\ Fits(v, "string") <=> Is(v, "string")
                           /\ Fits(v, "strings") <=> AllOf(v, "string")
                           /\ Fits(v, "tables") <=> AllOf(v, "table")
                           /\ Fits(v, "table") <=> Is(v, "table")
                           /\ Fits(v, "boolean") <=> Is(v, "boolean")
BY DEF Fits

LEMMA StrAbsent ==
  ASSUME NEW m, NEW V, IsTreeOf(m, V), NEW key, Has(m, key) => Is(m[key], "string")
  PROVE  Str(m, key, "") = "" <=> Absent(m, key)
<1>1. CASE ~Has(m, key)
  BY <1>1 DEF Str, Holds, Absent
<1>2. CASE Has(m, key)
  <2> DEFINE s == m[key][2]
  <2>1. m[key] = String(s)
    <3>1. key \in DOMAIN m /\ Is(m[key], "string")
      BY <1>2 DEF Has
    <3>2. Shaped(m[key])
      BY <3>1, TreeValues
    <3> QED
      BY <3>1, <3>2, ShapeFacts
  <2>2. Str(m, key, "") = s
    BY <1>2 DEF Str, Holds
  <2> HIDE DEF s
  <2>3. m[key] # Array(<<>>) /\ (m[key] = String("") <=> s = "")
    <3>1. String(s) # Array(<<>>)
      BY ValuesDiffer
    <3>2. String(s) = String("") <=> s = ""
      BY ValuesDiffer
    <3> QED
      BY <2>1, <3>1, <3>2
  <2> QED
    BY <1>2, <2>2, <2>3 DEF Absent
<1> QED
  BY <1>1, <1>2

LEMMA StrsAbsent ==
  ASSUME NEW m, NEW V, IsTreeOf(m, V), NEW key, Has(m, key) => AllOf(m[key], "string")
  PROVE  IsSeq(Strs(m, key)) /\ (Strs(m, key) = <<>> <=> Absent(m, key))
         /\ \A i \in DOMAIN Strs(m, key) : Strs(m, key)[i] \in STRING
<1>1. CASE ~Has(m, key)
  <2>1. Strs(m, key) = <<>>
    BY <1>1 DEF Strs
  <2> QED
    BY <1>1, <2>1, EmptyList DEF Absent
<1>2. CASE Has(m, key)
  <2> DEFINE s == m[key][2]
             r == Strs(m, key)
  <2>1. m[key] \in V /\ Shaped(m[key]) /\ Is(m[key], "array")
    BY <1>2, TreeValues DEF Has, AllOf
  <2>2. m[key] = Array(s) /\ IsSeq(s)
    BY <2>1, ShapeFacts
  <2>3. DOMAIN s = 1..Len(s) /\ Len(s) \in Nat
    BY <2>2, SeqFacts
  <2>4. r = [i \in DOMAIN s |-> s[i][2]]
    BY <1>2 DEF Strs
  <2>5. ASSUME NEW i \in DOMAIN s PROVE s[i][2] \in STRING
    <3>1. s[i] \in Within(m[key])
      BY <2>1 DEF Within, Is
    <3>2. Shaped(s[i]) /\ Is(s[i], "string")
      BY <1>2, <2>1, <3>1 DEF IsTreeOf, AreValues, AllOf
    <3> QED
      BY <3>2, ShapeFacts
  <2>6. m[key] # String("")
    <3> HIDE DEF s
    <3> QED
      BY <2>2, ValuesDiffer
  <2>7. m[key] = Array(<<>>) <=> s = <<>>
    <3> HIDE DEF s
    <3> QED
      BY <2>2, ValuesDiffer
  <2>8. s = <<>> <=> Len(s) = 0
    <3>1. s \in Seq(ToSet(s))
      BY <2>2 DEF IsSeq
    <3> QED
      BY <3>1, EmptySeq
  <2> HIDE DEF s, r
  <2>9. r \in [1..Len(s) -> STRING]
    BY <2>3, <2>4, <2>5
  <2>10. IsSeq(r) /\ r \in Seq(STRING) /\ Len(r) = Len(s)
    BY <2>3, <2>9, Listed
  <2>11. r = <<>> <=> Len(r) = 0
    BY <2>10, EmptySeq
  <2>12. r = <<>> <=> Absent(m, key)
    BY <1>2, <2>6, <2>7, <2>8, <2>10, <2>11 DEF Absent
  <2>13. \A i \in DOMAIN r : r[i] \in STRING
    BY <2>3, <2>4, <2>5
  <2> QED
    BY <2>10, <2>12, <2>13 DEF r
<1> QED
  BY <1>1, <1>2

LEMMA TablesAbsent ==
  ASSUME NEW m, NEW V, IsTreeOf(m, V), NEW key, Has(m, key) => AllOf(m[key], "table")
  PROVE  Tables(m, key) = <<>> <=> Absent(m, key)
<1>1. CASE ~Has(m, key)
  BY <1>1 DEF Tables, Absent
<1>2. CASE Has(m, key)
  <2> DEFINE s == m[key][2]
             r == Tables(m, key)
  <2>1. m[key] \in V /\ Shaped(m[key]) /\ Is(m[key], "array")
    BY <1>2, TreeValues DEF Has, AllOf
  <2>2. m[key] = Array(s) /\ s \in Seq(ToSet(s))
    BY <2>1, ShapeFacts DEF IsSeq
  <2>3. r = [i \in DOMAIN s |-> s[i][2]] /\ IsSeq(r)
    BY <1>2, TreeTables DEF Tables
  <2>4. m[key] # String("") /\ (m[key] = Array(<<>>) <=> s = <<>>)
    <3> HIDE DEF s
    <3> QED
      BY <2>2, ValuesDiffer
  <2>5. s = <<>> <=> DOMAIN s = {}
    BY <2>2, NoItems DEF IsSeq
  <2>6. r = <<>> <=> DOMAIN r = {}
    <3> HIDE DEF r
    <3> QED
      BY <2>3, NoItems
  <2> HIDE DEF s
  <2> QED
    BY <1>2, <2>3, <2>4, <2>5, <2>6 DEF Absent
<1> QED
  BY <1>1, <1>2

LEMMA EntryFacts ==
  ASSUME NEW tree, NEW V, Readable(tree, V), NEW kind \in {"clients", "personas"},
         NEW i \in DOMAIN Tables(tree, kind)
  PROVE  /\ IsTreeOf(Tables(tree, kind)[i], V)
         /\ EntryPlace(tree, kind, i) \in Places(tree)
         /\ EntryPlace(tree, kind, i).at = <<kind, i>>
         /\ EntryPlace(tree, kind, i).kind = kind
         /\ EntryPlace(tree, kind, i).m = Tables(tree, kind)[i]
         /\ \A k \in DOMAIN Schema[kind] :
              Has(Tables(tree, kind)[i], k) => Fits(Tables(tree, kind)[i][k], Schema[kind][k])
<1> DEFINE place == EntryPlace(tree, kind, i)
<1>1. IsTreeOf(Tables(tree, kind)[i], V)
  BY TreeTables DEF Readable
<1>2. place \in Places(tree) /\ WellTyped(place)
  BY PlacesAre DEF Readable
<1>3. place.at = <<kind, i>> /\ place.kind = kind /\ place.m = Tables(tree, kind)[i]
  BY PlaceParts DEF EntryPlace
<1> HIDE DEF place
<1>4. \A k \in DOMAIN Schema[kind] :
        Has(Tables(tree, kind)[i], k) => Fits(Tables(tree, kind)[i][k], Schema[kind][k])
  BY <1>2, <1>3, KeyFits
<1> QED
  BY <1>1, <1>2, <1>3, <1>4 DEF place

LEMMA TopFacts ==
  ASSUME NEW tree, NEW V, Readable(tree, V)
  PROVE  /\ Top(tree) \in Places(tree) /\ Top(tree).at = <<>> /\ Top(tree).kind = "top"
         /\ Top(tree).m = tree
         /\ \A k \in DOMAIN Schema["top"] : Has(tree, k) => Fits(tree[k], Schema["top"][k])
<1> DEFINE place == Top(tree)
<1>1. place \in Places(tree) /\ WellTyped(place)
  BY PlacesAre DEF Readable
<1>2. place.at = <<>> /\ place.kind = "top" /\ place.m = tree
  BY PlaceParts DEF Top
<1> HIDE DEF place
<1>3. \A k \in DOMAIN Schema["top"] : Has(tree, k) => Fits(tree[k], Schema["top"][k])
  BY <1>1, <1>2, KeyFits
<1> QED
  BY <1>1, <1>2, <1>3 DEF place

LEMMA TokensFacts ==
  ASSUME NEW tree, NEW V, Readable(tree, V)
  PROVE  /\ \E W : IsTreeOf(TokensOf(tree), W)
         /\ TokensPlace(tree) \in Places(tree) /\ TokensPlace(tree).at = <<"tokens">>
         /\ TokensPlace(tree).kind = "tokens" /\ TokensPlace(tree).m = TokensOf(tree)
         /\ \A k \in DOMAIN Schema["tokens"] :
              Has(TokensOf(tree), k) => Is(TokensOf(tree)[k], "string")
<1> DEFINE place == TokensPlace(tree)
<1>1. place \in Places(tree) /\ WellTyped(place)
  BY PlacesAre DEF Readable
<1>2. place.at = <<"tokens">> /\ place.kind = "tokens" /\ place.m = TokensOf(tree)
  BY PlaceParts DEF TokensPlace
<1> HIDE DEF place
<1>3. \A k \in DOMAIN Schema["tokens"] :
        Has(TokensOf(tree), k) => Is(TokensOf(tree)[k], "string")
  BY <1>1, <1>2, KeyFits, SchemaFacts, FitsString
<1>4. \E W : IsTreeOf(TokensOf(tree), W)
  <2>1. CASE Holds(tree, "tokens", "table")
    <3>1. Shaped(tree["tokens"]) /\ tree["tokens"] \in V
      BY <2>1, TreeValues DEF Readable, Holds, Has
    <3>2. TokensOf(tree) = tree["tokens"][2] /\ tree["tokens"] = Table(tree["tokens"][2])
      BY <2>1, <3>1, ShapeFacts DEF TokensOf, Holds
    <3> QED
      BY <3>1, <3>2 DEF Readable, IsTreeOf
  <2>2. CASE ~Holds(tree, "tokens", "table")
    <3>1. TokensOf(tree) = EmptyTable
      BY <2>2 DEF TokensOf
    <3>2. Within(Table(EmptyTable)) = {}
      BY DEF Within, Table, EmptyTable
    <3>3. Shaped(Table(EmptyTable))
      BY DEF Shaped, Is, Table, EmptyTable
    <3>4. IsTreeOf(EmptyTable, {Table(EmptyTable)})
      BY <3>2, <3>3 DEF IsTreeOf, AreValues
    <3> QED
      BY <3>1, <3>4
  <2> QED
    BY <2>1, <2>2
<1> QED
  BY <1>1, <1>2, <1>3, <1>4 DEF place

(* What is wrong with what a key says. *)
LEMMA ValueComplaints ==
  ASSUME NEW tree, NEW t, t = TokensOf(tree)
  PROVE  /\ \A s \in Says(tree, "issuer") :
              s \notin HttpURLs \ SlashURLs => Complaint(<<>>, "issuer", "value") \in Faults(tree)
         /\ \A s \in Text(t, "algorithm") :
              s \notin {"EdDSA", "RS256"}
                => Complaint(<<"tokens">>, "algorithm", "value") \in Faults(tree)
         /\ UsesRSA(t) /\ Absent(t, "rsa_key_file")
              => Complaint(<<"tokens">>, "rsa_key_file", "missing") \in Faults(tree)
         /\ ~UsesRSA(t) /\ Says(t, "rsa_key_file") # {}
              => Complaint(<<"tokens">>, "rsa_key_file", "value") \in Faults(tree)
         /\ \A i \in DOMAIN Tables(tree, "clients") :
              ~(ToSet(Strs(Tables(tree, "clients")[i], "redirect_uris"))
                  \subseteq AbsoluteURLs \ FragmentURLs)
                => Complaint(<<"clients", i>>, "redirect_uris", "value") \in Faults(tree)
<1>1. ValueFaults(tree) \subseteq Faults(tree)
  BY FaultKinds
<1>2. \A s \in Says(tree, "issuer") : s \notin HttpURLs \ SlashURLs
        => Complaint(<<>>, "issuer", "value") \in ValueFaults(tree)
  BY DEF ValueFaults
<1>3. \A s \in Text(t, "algorithm") : s \notin {"EdDSA", "RS256"}
        => Complaint(<<"tokens">>, "algorithm", "value") \in ValueFaults(tree)
  BY DEF ValueFaults
<1>4. UsesRSA(t) /\ Absent(t, "rsa_key_file")
        => Complaint(<<"tokens">>, "rsa_key_file", "missing") \in ValueFaults(tree)
  BY DEF ValueFaults
<1>5. ~UsesRSA(t) /\ Says(t, "rsa_key_file") # {}
        => Complaint(<<"tokens">>, "rsa_key_file", "value") \in ValueFaults(tree)
  BY DEF ValueFaults
<1>6. \A i \in DOMAIN Tables(tree, "clients") :
        ~(ToSet(Strs(Tables(tree, "clients")[i], "redirect_uris"))
            \subseteq AbsoluteURLs \ FragmentURLs)
          => Complaint(<<"clients", i>>, "redirect_uris", "value") \in ValueFaults(tree)
  BY DEF ValueFaults
<1> QED
  BY <1>1, <1>2, <1>3, <1>4, <1>5, <1>6

LEMMA ConfigFields ==
  ASSUME NEW tree
  PROVE  /\ Config(tree).Issuer = Str(tree, "issuer", "")
         /\ Config(tree).Seed = Str(tree, "seed", "")
         /\ Config(tree).Algorithm = Str(TokensOf(tree), "algorithm", "EdDSA")
         /\ Config(tree).RSAKeyFile = Str(TokensOf(tree), "rsa_key_file", "")
         /\ Config(tree).Clients = [i \in DOMAIN Tables(tree, "clients") |->
                                      ClientOf(Tables(tree, "clients")[i])]
         /\ Config(tree).Personas = [i \in DOMAIN Tables(tree, "personas") |->
                                       PersonaOf(Tables(tree, "personas")[i])]
BY DEF Config

LEMMA EntryFields ==
  ASSUME NEW m
  PROVE  /\ ClientOf(m).ID = Str(m, "client_id", "")
         /\ ClientOf(m).RedirectURIs = Strs(m, "redirect_uris")
         /\ PersonaOf(m).Name = Str(m, "name", "")
         /\ PersonaOf(m).Subject = Str(m, "subject", "")
         /\ PersonaOf(m)["Name"] = Str(m, "name", "")
         /\ PersonaOf(m)["Subject"] = Str(m, "subject", "")
BY DEF ClientOf, PersonaOf

LEMMA ConfigClients ==
  ASSUME NEW tree
  PROVE  LET clients == Config(tree).Clients
         IN /\ DOMAIN clients = DOMAIN Tables(tree, "clients")
            /\ \A i \in DOMAIN Tables(tree, "clients") :
                /\ clients[i] = ClientOf(Tables(tree, "clients")[i])
                /\ clients[i].ID = Str(Tables(tree, "clients")[i], "client_id", "")
                /\ clients[i].RedirectURIs = Strs(Tables(tree, "clients")[i], "redirect_uris")
<1> DEFINE clients == Config(tree).Clients
<1>1. clients = [i \in DOMAIN Tables(tree, "clients") |-> ClientOf(Tables(tree, "clients")[i])]
  BY ConfigFields
<1> HIDE DEF clients
<1>2. /\ DOMAIN clients = DOMAIN Tables(tree, "clients")
      /\ \A i \in DOMAIN Tables(tree, "clients") :
           /\ clients[i] = ClientOf(Tables(tree, "clients")[i])
           /\ clients[i].ID = Str(Tables(tree, "clients")[i], "client_id", "")
           /\ clients[i].RedirectURIs = Strs(Tables(tree, "clients")[i], "redirect_uris")
  BY <1>1, EntryFields DEF ClaimsOf
<1> QED
  BY <1>2 DEF clients

LEMMA ConfigPersonas ==
  ASSUME NEW tree
  PROVE  LET personas == Config(tree).Personas
         IN /\ DOMAIN personas = DOMAIN Tables(tree, "personas")
            /\ \A i \in DOMAIN Tables(tree, "personas") :
                /\ personas[i] = PersonaOf(Tables(tree, "personas")[i])
                /\ personas[i].Name = Str(Tables(tree, "personas")[i], "name", "")
                /\ personas[i].Subject = Str(Tables(tree, "personas")[i], "subject", "")
                /\ personas[i].Claims = ClaimsOf(tree, i)
<1> DEFINE personas == Config(tree).Personas
<1>1. personas = [i \in DOMAIN Tables(tree, "personas") |-> PersonaOf(Tables(tree, "personas")[i])]
  BY ConfigFields
<1> HIDE DEF personas
<1>2. /\ DOMAIN personas = DOMAIN Tables(tree, "personas")
      /\ \A i \in DOMAIN Tables(tree, "personas") :
           /\ personas[i] = PersonaOf(Tables(tree, "personas")[i])
           /\ personas[i].Name = Str(Tables(tree, "personas")[i], "name", "")
           /\ personas[i].Subject = Str(Tables(tree, "personas")[i], "subject", "")
           /\ personas[i].Claims = ClaimsOf(tree, i)
  BY <1>1, EntryFields DEF ClaimsOf
<1> QED
  BY <1>2 DEF personas

(* What validate has found of a file that passes it. *)
GoodTop(tree) ==
  /\ Config(tree).Issuer \in (HttpURLs \ SlashURLs) \ {""} /\ Config(tree).Seed # ""
  /\ \/ Config(tree).Algorithm = "EdDSA" /\ Config(tree).RSAKeyFile = ""
     \/ Config(tree).Algorithm = "RS256" /\ Config(tree).RSAKeyFile # ""

GoodClient(clients, i) ==
  /\ clients[i].ID # "" /\ \A j \in 1..(i - 1) : clients[j].ID # clients[i].ID
  /\ clients[i].RedirectURIs # <<>>
  /\ ToSet(clients[i].RedirectURIs) \subseteq AbsoluteURLs \ FragmentURLs

GoodPersona(personas, i) ==
  /\ personas[i].Name # "" /\ personas[i].Subject # ""
  /\ ~Seen(personas, i, "Name") /\ ~Seen(personas, i, "Subject")
  /\ \A k \in DOMAIN personas[i].Claims :
       k \notin ReservedClaims /\ ValidClaimValue(personas[i].Claims[k])

LEMMA MissingTop ==
  ASSUME NEW tree, NEW key \in Required["top"], Absent(tree, key)
  PROVE  Complaint(<<>>, key, "missing") \in Faults(tree)
<1>1. Top(tree) \in Places(tree) /\ Top(tree).at = <<>> /\ Top(tree).kind = "top"
      /\ Top(tree).m = tree
  BY PlacesAre, PlaceParts DEF Top
<1>2. Complaint(Top(tree).at, key, "missing") \in Faults(tree)
  BY <1>1, SchemaComplaints
<1> QED
  BY <1>1, <1>2

LEMMA MissingInEntry ==
  ASSUME NEW tree, NEW kind \in {"clients", "personas"}, NEW i \in DOMAIN Tables(tree, kind),
         NEW key \in Required[kind], Absent(Tables(tree, kind)[i], key)
  PROVE  Complaint(<<kind, i>>, key, "missing") \in Faults(tree)
<1> DEFINE place == EntryPlace(tree, kind, i)
<1>1. place \in Places(tree) /\ place.at = <<kind, i>> /\ place.kind = kind
      /\ place.m = Tables(tree, kind)[i]
  BY PlacesAre, PlaceParts DEF EntryPlace
<1> HIDE DEF place
<1>2. Complaint(place.at, key, "missing") \in Faults(tree)
  BY <1>1, SchemaComplaints
<1> QED
  BY <1>1, <1>2

LEMMA IssuerValidated ==
  ASSUME NEW tree, NEW V, Readable(tree, V)
  PROVE  LET s == ValidateIssuer(Config(tree)) IN
         /\ IsSeq(s) /\ Honest(s, Faults(tree))
         /\ (\A x \in ToSet(s) : ~x.fails) =>
              Config(tree).Issuer \in (HttpURLs \ SlashURLs) \ {""} /\ Config(tree).Seed # ""
<1> DEFINE s == ValidateIssuer(Config(tree))
           issuer == Str(tree, "issuer", "")
           seed == Str(tree, "seed", "")
           missing == Complaint(<<>>, "issuer", "missing")
           value == Complaint(<<>>, "issuer", "value")
           unseeded == Complaint(<<>>, "seed", "missing")
           x1 == Check(issuer = "", missing)
           x2 == Check(issuer \notin HttpURLs, value)
           x3 == Check(issuer \in SlashURLs, value)
           x4 == Check(seed = "", unseeded)
<1>1. s = <<x1, x2, x3, x4>>
  BY ConfigFields DEF ValidateIssuer
<1>2. issuer = "" <=> Absent(tree, "issuer")
  <2>1. Has(tree, "issuer") => Is(tree["issuer"], "string")
    BY TopFacts, SchemaFacts, FitsString
  <2> QED
    BY <2>1, StrAbsent DEF Readable
<1>3. seed = "" <=> Absent(tree, "seed")
  <2>1. Has(tree, "seed") => Is(tree["seed"], "string")
    BY TopFacts, SchemaFacts, FitsString
  <2> QED
    BY <2>1, StrAbsent DEF Readable
<1>4. /\ (x1.fails <=> issuer = "") /\ x1.answer = missing
      /\ (x2.fails <=> issuer \notin HttpURLs) /\ x2.answer = value
      /\ (x3.fails <=> issuer \in SlashURLs) /\ x3.answer = value
      /\ (x4.fails <=> seed = "") /\ x4.answer = unseeded
  BY DEF Check
<1>5. issuer = "" => missing \in Faults(tree)
  BY <1>2, MissingTop, SchemaFacts
<1>6. seed = "" => unseeded \in Faults(tree)
  BY <1>3, MissingTop, SchemaFacts
<1>7. issuer # "" /\ (issuer \notin HttpURLs \/ issuer \in SlashURLs) => value \in Faults(tree)
  BY StrSays, ValueComplaints
<1> HIDE DEF x1, x2, x3, x4, missing, value, unseeded
<1>8. IsSeq(s) /\ ToSet(s) = {x1, x2, x3, x4}
  BY <1>1, FourItems
<1>9. Honest(s, Faults(tree))
  <2>1. /\ x1.fails => x1.answer \in Faults(tree)
        /\ ~x1.fails /\ x2.fails => x2.answer \in Faults(tree)
        /\ ~x1.fails /\ ~x2.fails /\ x3.fails => x3.answer \in Faults(tree)
        /\ ~x1.fails /\ ~x2.fails /\ ~x3.fails /\ x4.fails => x4.answer \in Faults(tree)
    BY <1>4, <1>5, <1>6, <1>7
  <2>2. Honest(<<x1, x2, x3, x4>>, Faults(tree))
    BY <2>1, HonestFour
  <2> QED
    BY <1>1, <2>2
<1>10. ASSUME \A x \in ToSet(s) : ~x.fails
       PROVE  issuer \in (HttpURLs \ SlashURLs) \ {""} /\ seed # ""
  BY <1>4, <1>8, <1>10
<1> QED
  BY <1>8, <1>9, <1>10, ConfigFields

(* What [tokens] says of keys, to the schema and to the decoder. *)
LEMMA AlgorithmSays ==
  ASSUME NEW tree, NEW V, Readable(tree, V)
  PROVE  LET t   == TokensOf(tree)
             alg == Str(t, "algorithm", "EdDSA")
         IN /\ Str(t, "rsa_key_file", "") = "" <=> Absent(t, "rsa_key_file")
            /\ alg # "EdDSA" => Text(t, "algorithm") = {alg}
            /\ Text(t, "algorithm") \subseteq {alg}
            /\ alg = "RS256" <=> UsesRSA(t)
<1> DEFINE t == TokensOf(tree)
           alg == Str(t, "algorithm", "EdDSA")
           keyfile == Str(t, "rsa_key_file", "")
<1>1. keyfile = "" <=> Absent(t, "rsa_key_file")
  <2>1. PICK W : IsTreeOf(t, W)
    BY TokensFacts
  <2>2. Has(t, "rsa_key_file") => Is(t["rsa_key_file"], "string")
    BY TokensFacts, SchemaFacts
  <2> HIDE DEF t
  <2>3. Str(t, "rsa_key_file", "") = "" <=> Absent(t, "rsa_key_file")
    BY <2>1, <2>2, StrAbsent
  <2> QED
    BY <2>3
<1>2. /\ alg # "EdDSA" => Text(t, "algorithm") = {alg}
      /\ Text(t, "algorithm") \subseteq {alg}
      /\ alg = "RS256" <=> UsesRSA(t)
  <2>1. \/ Text(t, "algorithm") = {alg}
        \/ alg = "EdDSA" /\ Text(t, "algorithm") = {}
    <3>1. CASE Holds(t, "algorithm", "string")
      BY <3>1 DEF Text, Str
    <3>2. CASE ~Holds(t, "algorithm", "string")
      BY <3>2 DEF Text, Str
    <3> QED
      BY <3>1, <3>2
  <2>2. alg = "RS256" => Says(t, "algorithm") = {"RS256"}
    BY <2>1 DEF Says
  <2>3. Says(t, "algorithm") = {"RS256"} => alg = "RS256"
    <3>1. Says(t, "algorithm") \subseteq {alg}
      BY <2>1 DEF Says
    <3> HIDE DEF alg
    <3> QED
      BY <3>1
  <2> QED
    BY <2>1, <2>2, <2>3 DEF UsesRSA
<1> QED
  BY <1>1, <1>2

LEMMA AlgorithmValidated ==
  ASSUME NEW tree, NEW V, Readable(tree, V)
  PROVE  LET s == ValidateAlgorithm(Config(tree)) IN
         /\ IsSeq(s) /\ Honest(s, Faults(tree))
         /\ (\A x \in ToSet(s) : ~x.fails) =>
              \/ Config(tree).Algorithm = "EdDSA" /\ Config(tree).RSAKeyFile = ""
              \/ Config(tree).Algorithm = "RS256" /\ Config(tree).RSAKeyFile # ""
<1> DEFINE s == ValidateAlgorithm(Config(tree))
           t == TokensOf(tree)
           alg == Str(t, "algorithm", "EdDSA")
           keyfile == Str(t, "rsa_key_file", "")
           useless == Complaint(<<"tokens">>, "rsa_key_file", "value")
           missing == Complaint(<<"tokens">>, "rsa_key_file", "missing")
           unknown == Complaint(<<"tokens">>, "algorithm", "value")
           x1 == Check(alg = "EdDSA" /\ keyfile # "", useless)
           x2 == Check(alg = "RS256" /\ keyfile = "", missing)
           x3 == Check(alg \notin {"EdDSA", "RS256"}, unknown)
<1>1. s = <<x1, x2, x3>>
  BY ConfigFields DEF ValidateAlgorithm
<1>2. keyfile = "" <=> Absent(t, "rsa_key_file")
  BY AlgorithmSays
<1>3. /\ alg # "EdDSA" => Text(t, "algorithm") = {alg}
      /\ alg = "RS256" <=> UsesRSA(t)
  BY AlgorithmSays
<1>4. /\ (x1.fails <=> alg = "EdDSA" /\ keyfile # "") /\ x1.answer = useless
      /\ (x2.fails <=> alg = "RS256" /\ keyfile = "") /\ x2.answer = missing
      /\ (x3.fails <=> alg \notin {"EdDSA", "RS256"}) /\ x3.answer = unknown
  BY DEF Check
<1>5. alg = "EdDSA" /\ keyfile # "" => useless \in Faults(tree)
  <2>1. keyfile # "" => Says(t, "rsa_key_file") # {}
    BY StrSays
  <2>2. alg = "EdDSA" => ~UsesRSA(t)
    BY <1>3
  <2> QED
    BY <2>1, <2>2, ValueComplaints
<1>6. alg = "RS256" /\ keyfile = "" => missing \in Faults(tree)
  BY <1>2, <1>3, ValueComplaints
<1>7. alg \notin {"EdDSA", "RS256"} => unknown \in Faults(tree)
  <2>1. alg \notin {"EdDSA", "RS256"} => alg \in Text(t, "algorithm")
    BY <1>3
  <2> HIDE DEF alg
  <2> QED
    BY <2>1, ValueComplaints
<1> HIDE DEF x1, x2, x3, useless, missing, unknown
<1>8. IsSeq(s) /\ ToSet(s) = {x1, x2, x3}
  BY <1>1, ThreeItems
<1>9. Honest(s, Faults(tree))
  <2>1. \A x \in ToSet(s) : x.fails => x.answer \in Faults(tree)
    BY <1>4, <1>5, <1>6, <1>7, <1>8
  <2> QED
    BY <2>1, HonestAll
<1>10. ASSUME \A x \in ToSet(s) : ~x.fails
       PROVE  \/ alg = "EdDSA" /\ keyfile = ""
              \/ alg = "RS256" /\ keyfile # ""
  <2>1. ~x1.fails /\ ~x2.fails /\ ~x3.fails
    BY <1>8, <1>10
  <2> QED
    BY <1>4, <2>1
<1> QED
  BY <1>8, <1>9, <1>10, ConfigFields

LEMMA Earlier == \A n \in Nat : \A i \in 1..n : \A j \in 1..(i - 1) : j \in 1..n
OBVIOUS

(* What an entry that repeats another is told. *)
LEMMA RepeatComplaint ==
  ASSUME NEW tree, NEW kind, NEW key, NEW i \in DOMAIN Tables(tree, kind), NEW j \in 1..(i - 1),
         Str(Tables(tree, kind)[j], key, "") = Str(Tables(tree, kind)[i], key, ""),
         Str(Tables(tree, kind)[i], key, "") # ""
  PROVE  Complaint(<<kind, i>>, key, "twice") \in Repeats(tree, kind, key)
<1>1. Says(Tables(tree, kind)[j], key) \intersect Says(Tables(tree, kind)[i], key) # {}
  BY StrSays
<1> QED
  BY <1>1 DEF Repeats

LEMMA ClientValidated ==
  ASSUME NEW tree, NEW V, Readable(tree, V), NEW i \in DOMAIN Tables(tree, "clients")
  PROVE  LET s == ValidateClient(Config(tree).Clients, i) IN
         /\ IsSeq(s) /\ Honest(s, Faults(tree))
         /\ (\A x \in ToSet(s) : ~x.fails) => GoodClient(Config(tree).Clients, i)
<1> DEFINE clients == Config(tree).Clients
           s == ValidateClient(clients, i)
           m == Tables(tree, "clients")[i]
           id == Str(m, "client_id", "")
           uris == Strs(m, "redirect_uris")
           twice == \E j \in 1..(i - 1) : clients[j].ID = id
           at == <<"clients", i>>
           bad == \E r \in ToSet(uris) : r \notin AbsoluteURLs \/ r \in FragmentURLs
           a1 == Complaint(at, "client_id", "missing")
           a2 == Complaint(at, "client_id", "twice")
           a3 == Complaint(at, "redirect_uris", "missing")
           a4 == Complaint(at, "redirect_uris", "value")
           x1 == Check(id = "", a1)
           x2 == Check(twice, a2)
           x3 == Check(uris = <<>>, a3)
           x4 == Check(bad, a4)
<1>1. /\ DOMAIN clients = DOMAIN Tables(tree, "clients")
      /\ \A j \in DOMAIN clients :
           /\ clients[j].ID = Str(Tables(tree, "clients")[j], "client_id", "")
           /\ clients[j].RedirectURIs = Strs(Tables(tree, "clients")[j], "redirect_uris")
  <2>1. clients = [j \in DOMAIN Tables(tree, "clients") |->
                     ClientOf(Tables(tree, "clients")[j])]
    BY ConfigFields
  <2> HIDE DEF clients
  <2> QED
    BY <2>1, EntryFields
<1>2. clients[i].ID = id /\ clients[i].RedirectURIs = uris
  BY <1>1
<1> HIDE DEF clients
<1>3. s = <<x1, x2, x3, x4>>
  BY <1>2 DEF ValidateClient
<1>4. id = "" <=> Absent(m, "client_id")
  <2>1. Has(m, "client_id") => Is(m["client_id"], "string")
    BY EntryFacts, SchemaFacts, FitsString
  <2>2. IsTreeOf(m, V)
    BY EntryFacts
  <2> QED
    BY <2>1, <2>2, StrAbsent
<1>5. uris = <<>> <=> Absent(m, "redirect_uris")
  <2>1. Has(m, "redirect_uris") => AllOf(m["redirect_uris"], "string")
    BY EntryFacts, SchemaFacts, FitsString
  <2>2. IsTreeOf(m, V)
    BY EntryFacts
  <2> QED
    BY <2>1, <2>2, StrsAbsent
<1>6. /\ (x1.fails <=> id = "") /\ x1.answer = a1
      /\ (x2.fails <=> twice) /\ x2.answer = a2
      /\ (x3.fails <=> uris = <<>>) /\ x3.answer = a3
      /\ (x4.fails <=> bad) /\ x4.answer = a4
  BY DEF Check
<1>7. id = "" => a1 \in Faults(tree)
  BY <1>4, MissingInEntry, SchemaFacts
<1>8. id # "" /\ twice => a2 \in Faults(tree)
  <2> SUFFICES ASSUME id # "", NEW j \in 1..(i - 1), clients[j].ID = id
               PROVE  a2 \in Faults(tree)
    OBVIOUS
  <2>1. j \in DOMAIN clients
    <3>1. IsSeq(Tables(tree, "clients"))
      BY TreeTables DEF Readable
    <3>2. PICK n \in Nat : DOMAIN clients = 1..n
      BY <1>1, <3>1, SeqFacts
    <3>3. i \in 1..n
      BY <1>1, <3>2
    <3>4. j \in 1..n
      BY <3>3, Earlier
    <3> QED
      BY <3>2, <3>4
  <2>2. Str(Tables(tree, "clients")[j], "client_id", "") = id
    BY <1>1, <2>1
  <2> QED
    BY <2>2, RepeatComplaint, FaultKinds
<1>9. uris = <<>> => a3 \in Faults(tree)
  BY <1>5, MissingInEntry, SchemaFacts
<1>10. bad => a4 \in Faults(tree)
  <2>1. bad => ~(ToSet(uris) \subseteq AbsoluteURLs \ FragmentURLs)
    OBVIOUS
  <2> QED
    BY <2>1, ValueComplaints
<1> HIDE DEF x1, x2, x3, x4, a1, a2, a3, a4
<1>11. IsSeq(s) /\ ToSet(s) = {x1, x2, x3, x4}
  BY <1>3, FourItems
<1>12. Honest(s, Faults(tree))
  <2>1. /\ x1.fails => x1.answer \in Faults(tree)
        /\ ~x1.fails /\ x2.fails => x2.answer \in Faults(tree)
        /\ ~x1.fails /\ ~x2.fails /\ x3.fails => x3.answer \in Faults(tree)
        /\ ~x1.fails /\ ~x2.fails /\ ~x3.fails /\ x4.fails => x4.answer \in Faults(tree)
    BY <1>6, <1>7, <1>8, <1>9, <1>10
  <2>2. Honest(<<x1, x2, x3, x4>>, Faults(tree))
    BY <2>1, HonestFour
  <2> QED
    BY <1>3, <2>2
<1>13. ASSUME \A x \in ToSet(s) : ~x.fails PROVE GoodClient(clients, i)
  <2>1. id # "" /\ ~twice /\ uris # <<>> /\ ~bad
    BY <1>6, <1>11, <1>13
  <2> QED
    BY <1>2, <2>1 DEF GoodClient
<1> QED
  BY <1>11, <1>12, <1>13 DEF clients

(* The claims of a persona, in whatever order they come. *)
LEMMA ClaimComplaints ==
  ASSUME NEW tree, NEW i \in DOMAIN Tables(tree, "personas"), NEW k \in DOMAIN ClaimsOf(tree, i)
  PROVE  /\ k \in ReservedClaims
              => Complaint(<<"personas", i, "claims">>, k, "reserved") \in Faults(tree)
         /\ ~ValidClaimValue(ClaimsOf(tree, i)[k])
              => Complaint(<<"personas", i, "claims">>, k, "value") \in Faults(tree)
<1> DEFINE claims == UNION {{<<j, key>> : key \in DOMAIN ClaimsOf(tree, j)} :
                             j \in DOMAIN Tables(tree, "personas")}
           reserved == {Complaint(<<"personas", c[1], "claims">>, c[2], "reserved") :
                          c \in {d \in claims : d[2] \in ReservedClaims}}
           values == {Complaint(<<"personas", c[1], "claims">>, c[2], "value") :
                        c \in {d \in claims : ~ValidClaimValue(ClaimsOf(tree, d[1])[d[2]])}}
           c == <<i, k>>
<1>1. ClaimFaults(tree) = reserved \union values
  BY DEF ClaimFaults
<1>2. c \in claims /\ c[1] = i /\ c[2] = k
  OBVIOUS
<1> HIDE DEF claims, c
<1>3. k \in ReservedClaims => Complaint(<<"personas", i, "claims">>, k, "reserved") \in reserved
  BY <1>2
<1>4. ~ValidClaimValue(ClaimsOf(tree, i)[k])
        => Complaint(<<"personas", i, "claims">>, k, "value") \in values
  BY <1>2
<1> HIDE DEF reserved, values
<1> QED
  BY <1>1, <1>3, <1>4, FaultKinds

ClaimsList(tree, i, order) ==
  FlattenSeq([n \in DOMAIN order |-> ValidateClaim(ClaimsOf(tree, i), i, order[n])])

LEMMA ClaimsValidated ==
  ASSUME NEW tree, NEW i \in DOMAIN Tables(tree, "personas"), NEW order, IsSeq(order)
  PROVE  /\ IsSeq(ClaimsList(tree, i, order)) /\ Honest(ClaimsList(tree, i, order), Faults(tree))
         /\ (\A x \in ToSet(ClaimsList(tree, i, order)) : ~x.fails)
              => \A k \in DOMAIN ClaimsOf(tree, i) \intersect ToSet(order) :
                   k \notin ReservedClaims /\ ValidClaimValue(ClaimsOf(tree, i)[k])
<1> DEFINE claims == ClaimsOf(tree, i)
           at == <<"personas", i, "claims">>
           X(k) == Check(Has(claims, k) /\ k \in ReservedClaims, Complaint(at, k, "reserved"))
           Y(k) == Check(Has(claims, k) /\ ~ValidClaimValue(claims[k]), Complaint(at, k, "value"))
           lists == [n \in DOMAIN order |-> ValidateClaim(claims, i, order[n])]
           s == FlattenSeq(lists)
<1>1. \A k : ValidateClaim(claims, i, k) = <<X(k), Y(k)>>
  BY DEF ValidateClaim
<1>2. \A k : /\ (X(k).fails <=> k \in DOMAIN claims /\ k \in ReservedClaims)
             /\ X(k).answer = Complaint(at, k, "reserved")
             /\ (Y(k).fails <=> k \in DOMAIN claims /\ ~ValidClaimValue(claims[k]))
             /\ Y(k).answer = Complaint(at, k, "value")
  BY DEF Check, Has
<1>3. \A k \in DOMAIN claims :
        /\ k \in ReservedClaims => Complaint(at, k, "reserved") \in Faults(tree)
        /\ ~ValidClaimValue(claims[k]) => Complaint(at, k, "value") \in Faults(tree)
  BY ClaimComplaints
<1> HIDE DEF claims, at, X, Y
<1>4. ASSUME NEW k
      PROVE  /\ IsSeq(ValidateClaim(claims, i, k))
             /\ ToSet(ValidateClaim(claims, i, k)) = {X(k), Y(k)}
             /\ Honest(ValidateClaim(claims, i, k), Faults(tree))
  <2>1. ValidateClaim(claims, i, k) = <<X(k), Y(k)>>
    BY <1>1
  <2>2. X(k).fails => X(k).answer \in Faults(tree)
    BY <1>2, <1>3
  <2>3. Y(k).fails => Y(k).answer \in Faults(tree)
    BY <1>2, <1>3
  <2>4. ToSet(ValidateClaim(claims, i, k)) = {X(k), Y(k)} /\ IsSeq(ValidateClaim(claims, i, k))
    BY <2>1, TwoItems
  <2>5. \A x \in ToSet(ValidateClaim(claims, i, k)) : x.fails => x.answer \in Faults(tree)
    BY <2>2, <2>3, <2>4
  <2> QED
    BY <2>4, <2>5, HonestAll
<1>5. PICK m \in Nat : DOMAIN order = 1..m
  BY SeqFacts
<1>6. DOMAIN lists = DOMAIN order
      /\ \A n \in DOMAIN order : lists[n] = ValidateClaim(claims, i, order[n])
  OBVIOUS
<1>7. IsSeq(lists)
  <2>1. lists \in [1..m -> {ValidateClaim(claims, i, order[n]) : n \in 1..m}]
    BY <1>5
  <2> HIDE DEF lists
  <2> QED
    BY <1>5, <2>1, Listed
<1>8. ClaimsList(tree, i, order) = s
  BY DEF ClaimsList, claims
<1> HIDE DEF lists
<1>9. \A n \in DOMAIN lists : IsSeq(lists[n]) /\ Honest(lists[n], Faults(tree))
  BY <1>4, <1>6
<1>10. IsSeq(s) /\ ToSet(s) = UNION {ToSet(lists[n]) : n \in DOMAIN lists}
  BY <1>7, <1>9, Flattened
<1>11. Honest(s, Faults(tree))
  BY <1>7, <1>9, HonestFlattened
<1> HIDE DEF s
<1>12. ASSUME \A x \in ToSet(s) : ~x.fails, NEW k \in DOMAIN claims \intersect ToSet(order)
       PROVE  k \notin ReservedClaims /\ ValidClaimValue(claims[k])
  <2>1. PICK n \in DOMAIN order : order[n] = k
    BY DEF ToSet
  <2>2. X(k) \in ToSet(lists[n]) /\ Y(k) \in ToSet(lists[n]) /\ n \in DOMAIN lists
    BY <1>4, <1>6, <2>1
  <2>3. X(k) \in ToSet(s) /\ Y(k) \in ToSet(s)
    BY <1>10, <2>2
  <2>4. ~X(k).fails /\ ~Y(k).fails
    BY <1>12, <2>3
  <2> QED
    BY <1>2, <2>4
<1> QED
  BY <1>8, <1>10, <1>11, <1>12 DEF claims

LEMMA PersonaValidated ==
  ASSUME NEW tree, NEW V, Readable(tree, V), NEW i \in DOMAIN Tables(tree, "personas"),
         NEW order, IsSeq(order)
  PROVE  LET s == ValidatePersona(Config(tree).Personas, i, order) IN
         /\ IsSeq(s) /\ Honest(s, Faults(tree))
         /\ (\A x \in ToSet(s) : ~x.fails) /\ DOMAIN ClaimsOf(tree, i) \subseteq ToSet(order)
              => GoodPersona(Config(tree).Personas, i)
<1> DEFINE personas == Config(tree).Personas
           s == ValidatePersona(personas, i, order)
           m == Tables(tree, "personas")[i]
           name == Str(m, "name", "")
           sub == Str(m, "subject", "")
           at == <<"personas", i>>
           a1 == Complaint(at, "name", "missing")
           a2 == Complaint(at, "subject", "missing")
           a3 == Complaint(at, "name", "twice")
           a4 == Complaint(at, "subject", "twice")
           x1 == Check(name = "", a1)
           x2 == Check(sub = "", a2)
           x3 == Check(Seen(personas, i, "Name"), a3)
           x4 == Check(Seen(personas, i, "Subject"), a4)
           head == <<x1, x2, x3, x4>>
           claims == ClaimsList(tree, i, order)
<1>1. /\ DOMAIN personas = DOMAIN Tables(tree, "personas")
      /\ \A j \in DOMAIN personas :
           /\ personas[j] = PersonaOf(Tables(tree, "personas")[j])
           /\ personas[j].Name = Str(Tables(tree, "personas")[j], "name", "")
           /\ personas[j].Subject = Str(Tables(tree, "personas")[j], "subject", "")
  <2>1. personas = [j \in DOMAIN Tables(tree, "personas") |->
                      PersonaOf(Tables(tree, "personas")[j])]
    BY ConfigFields
  <2> HIDE DEF personas
  <2> QED
    BY <2>1, EntryFields
<1>2. personas[i].Name = name /\ personas[i].Subject = sub
      /\ personas[i].Claims = ClaimsOf(tree, i)
  BY <1>1 DEF ClaimsOf
<1> HIDE DEF personas
<1>3. s = head \o claims
  BY <1>2 DEF ValidatePersona, ClaimsList
<1>4. IsTreeOf(m, V)
  BY EntryFacts
<1>5. name = "" <=> Absent(m, "name")
  <2>1. Has(m, "name") => Is(m["name"], "string")
    BY EntryFacts, SchemaFacts, FitsString
  <2> QED
    BY <1>4, <2>1, StrAbsent
<1>6. sub = "" <=> Absent(m, "subject")
  <2>1. Has(m, "subject") => Is(m["subject"], "string")
    BY EntryFacts, SchemaFacts, FitsString
  <2> QED
    BY <1>4, <2>1, StrAbsent
<1>7. /\ (x1.fails <=> name = "") /\ x1.answer = a1
      /\ (x2.fails <=> sub = "") /\ x2.answer = a2
      /\ (x3.fails <=> Seen(personas, i, "Name")) /\ x3.answer = a3
      /\ (x4.fails <=> Seen(personas, i, "Subject")) /\ x4.answer = a4
  BY DEF Check, Seen
<1>8. name = "" => a1 \in Faults(tree)
  BY <1>5, MissingInEntry, SchemaFacts
<1>9. sub = "" => a2 \in Faults(tree)
  BY <1>6, MissingInEntry, SchemaFacts
<1>10. \A j \in 1..(i - 1) : j \in DOMAIN personas
  <2>1. IsSeq(Tables(tree, "personas"))
    BY TreeTables DEF Readable
  <2>2. PICK n \in Nat : DOMAIN personas = 1..n
    BY <1>1, <2>1, SeqFacts
  <2>3. i \in 1..n
    BY <1>1, <2>2
  <2> QED
    BY <2>2, <2>3, Earlier
<1>11. name # "" /\ Seen(personas, i, "Name") => a3 \in Faults(tree)
  <2> SUFFICES ASSUME name # "", NEW j \in 1..(i - 1), personas[j]["Name"] = personas[i]["Name"]
               PROVE  a3 \in Faults(tree)
    BY DEF Seen
  <2>1. Str(Tables(tree, "personas")[j], "name", "") = name
    BY <1>1, <1>2, <1>10
  <2> QED
    BY <2>1, RepeatComplaint, FaultKinds
<1>12. sub # "" /\ Seen(personas, i, "Subject") => a4 \in Faults(tree)
  <2> SUFFICES ASSUME sub # "", NEW j \in 1..(i - 1),
                      personas[j]["Subject"] = personas[i]["Subject"]
               PROVE  a4 \in Faults(tree)
    BY DEF Seen
  <2>1. Str(Tables(tree, "personas")[j], "subject", "") = sub
    BY <1>1, <1>2, <1>10
  <2> QED
    BY <2>1, RepeatComplaint, FaultKinds
<1> HIDE DEF x1, x2, x3, x4, a1, a2, a3, a4, claims
<1>13. IsSeq(head) /\ ToSet(head) = {x1, x2, x3, x4}
  BY FourItems
<1>14. Honest(head, Faults(tree))
  <2>1. /\ x1.fails => x1.answer \in Faults(tree)
        /\ ~x1.fails /\ x2.fails => x2.answer \in Faults(tree)
        /\ ~x1.fails /\ ~x2.fails /\ x3.fails => x3.answer \in Faults(tree)
        /\ ~x1.fails /\ ~x2.fails /\ ~x3.fails /\ x4.fails => x4.answer \in Faults(tree)
    BY <1>7, <1>8, <1>9, <1>11, <1>12
  <2> QED
    BY <2>1, HonestFour
<1>15. /\ IsSeq(claims) /\ Honest(claims, Faults(tree))
       /\ (\A x \in ToSet(claims) : ~x.fails)
            => \A k \in DOMAIN ClaimsOf(tree, i) \intersect ToSet(order) :
                 k \notin ReservedClaims /\ ValidClaimValue(ClaimsOf(tree, i)[k])
  BY ClaimsValidated DEF claims
<1> HIDE DEF head
<1>16. IsSeq(s) /\ ToSet(s) = ToSet(head) \union ToSet(claims) /\ Honest(s, Faults(tree))
  BY <1>3, <1>13, <1>14, <1>15, Joined, HonestJoined
<1>17. ASSUME \A x \in ToSet(s) : ~x.fails, DOMAIN ClaimsOf(tree, i) \subseteq ToSet(order)
       PROVE  GoodPersona(personas, i)
  <2>1. name # "" /\ sub # "" /\ ~Seen(personas, i, "Name") /\ ~Seen(personas, i, "Subject")
    BY <1>7, <1>13, <1>16, <1>17
  <2>2. \A k \in DOMAIN ClaimsOf(tree, i) :
          k \notin ReservedClaims /\ ValidClaimValue(ClaimsOf(tree, i)[k])
    BY <1>15, <1>16, <1>17
  <2> QED
    BY <1>2, <2>1, <2>2 DEF GoodPersona
<1> QED
  BY <1>16, <1>17 DEF personas

(* All of it: a file that passes validate is this good. *)
Accepted(tree) ==
  /\ GoodTop(tree)
  /\ Tables(tree, "clients") # <<>> /\ Tables(tree, "personas") # <<>>
  /\ \A i \in DOMAIN Tables(tree, "clients") : GoodClient(Config(tree).Clients, i)
  /\ \A i \in DOMAIN Tables(tree, "personas") : GoodPersona(Config(tree).Personas, i)

(* The lists of the entries of a kind, one after the other. *)
LEMMA EntriesValidated ==
  ASSUME NEW F, NEW n \in Nat, NEW lists, IsFunctionOn(lists, 1..n),
         \A i \in 1..n : IsSeq(lists[i]) /\ Honest(lists[i], F)
  PROVE  /\ IsSeq(FlattenSeq(lists)) /\ Honest(FlattenSeq(lists), F)
         /\ \A i \in 1..n : ToSet(lists[i]) \subseteq ToSet(FlattenSeq(lists))
<1>1. DOMAIN lists = 1..n /\ lists \in [1..n -> {lists[i] : i \in 1..n}]
  BY DEF IsFunctionOn
<1>2. IsSeq(lists)
  BY <1>1, Listed
<1>3. ToSet(FlattenSeq(lists)) = UNION {ToSet(lists[i]) : i \in 1..n} /\ IsSeq(FlattenSeq(lists))
  BY <1>1, <1>2, Flattened
<1>4. Honest(FlattenSeq(lists), F)
  BY <1>1, <1>2, HonestFlattened
<1> QED
  BY <1>3, <1>4

LEMMA ClientsValidated ==
  ASSUME NEW tree, NEW V, Readable(tree, V)
  PROVE  LET clients == Config(tree).Clients
             s == FlattenSeq([i \in DOMAIN clients |-> ValidateClient(clients, i)])
         IN /\ IsSeq(s) /\ Honest(s, Faults(tree))
            /\ (\A x \in ToSet(s) : ~x.fails)
                 => \A i \in DOMAIN Tables(tree, "clients") : GoodClient(clients, i)
<1> DEFINE clients == Config(tree).Clients
           lists == [i \in DOMAIN clients |-> ValidateClient(clients, i)]
           s == FlattenSeq(lists)
<1>1. DOMAIN clients = DOMAIN Tables(tree, "clients")
  BY ConfigFields
<1>2. IsSeq(Tables(tree, "clients"))
  BY TreeTables DEF Readable
<1>3. PICK n \in Nat : DOMAIN clients = 1..n
  BY <1>1, <1>2, SeqFacts
<1>4. IsFunctionOn(lists, 1..n) /\ \A i \in 1..n : lists[i] = ValidateClient(clients, i)
  BY <1>3 DEF IsFunctionOn
<1> HIDE DEF clients, lists
<1>5. \A i \in 1..n : IsSeq(lists[i]) /\ Honest(lists[i], Faults(tree))
  BY <1>1, <1>3, <1>4, ClientValidated DEF clients
<1>6. IsSeq(s) /\ Honest(s, Faults(tree)) /\ \A i \in 1..n : ToSet(lists[i]) \subseteq ToSet(s)
  BY <1>4, <1>5, EntriesValidated
<1>7. ASSUME \A x \in ToSet(s) : ~x.fails, NEW i \in DOMAIN Tables(tree, "clients")
      PROVE  GoodClient(clients, i)
  <2>1. \A x \in ToSet(ValidateClient(clients, i)) : ~x.fails
    BY <1>1, <1>3, <1>4, <1>6, <1>7
  <2> QED
    BY <2>1, ClientValidated DEF clients
<1> QED
  BY <1>6, <1>7 DEF clients, lists

LEMMA PersonasValidated ==
  ASSUME NEW tree, NEW V, Readable(tree, V), NEW order, IsSeq(order)
  PROVE  LET personas == Config(tree).Personas
             s == FlattenSeq([i \in DOMAIN personas |-> ValidatePersona(personas, i, order)])
         IN /\ IsSeq(s) /\ Honest(s, Faults(tree))
            /\ (\A x \in ToSet(s) : ~x.fails) /\ Meets(order, tree)
                 => \A i \in DOMAIN Tables(tree, "personas") : GoodPersona(personas, i)
<1> DEFINE personas == Config(tree).Personas
           lists == [i \in DOMAIN personas |-> ValidatePersona(personas, i, order)]
           s == FlattenSeq(lists)
<1>1. DOMAIN personas = DOMAIN Tables(tree, "personas")
  BY ConfigFields
<1>2. IsSeq(Tables(tree, "personas"))
  BY TreeTables DEF Readable
<1>3. PICK n \in Nat : DOMAIN personas = 1..n
  BY <1>1, <1>2, SeqFacts
<1>4. IsFunctionOn(lists, 1..n) /\ \A i \in 1..n : lists[i] = ValidatePersona(personas, i, order)
  BY <1>3 DEF IsFunctionOn
<1> HIDE DEF personas, lists
<1>5. \A i \in 1..n : IsSeq(lists[i]) /\ Honest(lists[i], Faults(tree))
  BY <1>1, <1>3, <1>4, PersonaValidated DEF personas
<1>6. IsSeq(s) /\ Honest(s, Faults(tree)) /\ \A i \in 1..n : ToSet(lists[i]) \subseteq ToSet(s)
  BY <1>4, <1>5, EntriesValidated
<1>7. ASSUME \A x \in ToSet(s) : ~x.fails, Meets(order, tree),
             NEW i \in DOMAIN Tables(tree, "personas")
      PROVE  GoodPersona(personas, i)
  <2>1. \A x \in ToSet(ValidatePersona(personas, i, order)) : ~x.fails
    BY <1>1, <1>3, <1>4, <1>6, <1>7
  <2>2. DOMAIN ClaimsOf(tree, i) \subseteq ToSet(order)
    BY <1>7 DEF Meets, ClaimsOf, ToSet
  <2> QED
    BY <2>1, <2>2, PersonaValidated DEF personas
<1> QED
  BY <1>6, <1>7 DEF personas, lists

(* A kind of which there must be an entry. *)
LEMMA SomeEntry ==
  ASSUME NEW tree, NEW V, Readable(tree, V), NEW kind \in {"clients", "personas"}
  PROVE  Tables(tree, kind) = <<>> => Complaint(<<>>, kind, "missing") \in Faults(tree)
<1>1. Has(tree, kind) => AllOf(tree[kind], "table")
  BY TopFacts, SchemaFacts, FitsString
<1>2. kind \in Required["top"]
  BY SchemaFacts
<1>3. Tables(tree, kind) = <<>> => Absent(tree, kind)
  BY <1>1, TablesAbsent DEF Readable
<1> QED
  BY <1>2, <1>3, MissingTop

LEMMA NoEntries ==
  ASSUME NEW tree, NEW V, IsTreeOf(tree, V)
  PROVE  /\ Config(tree).Clients = <<>> <=> Tables(tree, "clients") = <<>>
         /\ Config(tree).Personas = <<>> <=> Tables(tree, "personas") = <<>>
         /\ IsSeq(Config(tree).Clients) /\ IsSeq(Config(tree).Personas)
<1> DEFINE clients == Config(tree).Clients
           personas == Config(tree).Personas
<1>1. IsSeq(Tables(tree, "clients")) /\ IsSeq(Tables(tree, "personas"))
  BY TreeTables
<1>2. PICK m \in Nat : DOMAIN Tables(tree, "clients") = 1..m
  BY <1>1, SeqFacts
<1>3. PICK n \in Nat : DOMAIN Tables(tree, "personas") = 1..n
  BY <1>1, SeqFacts
<1>4. clients \in [1..m -> {ClientOf(Tables(tree, "clients")[i]) : i \in 1..m}]
  <2>1. clients = [i \in 1..m |-> ClientOf(Tables(tree, "clients")[i])]
    BY <1>2, ConfigFields
  <2> HIDE DEF clients
  <2> QED
    BY <2>1
<1>5. personas \in [1..n -> {PersonaOf(Tables(tree, "personas")[i]) : i \in 1..n}]
  <2>1. personas = [i \in 1..n |-> PersonaOf(Tables(tree, "personas")[i])]
    BY <1>3, ConfigFields
  <2> HIDE DEF personas
  <2> QED
    BY <2>1
<1> HIDE DEF clients, personas
<1>6. IsSeq(clients) /\ IsSeq(personas)
  BY <1>4, <1>5, Listed
<1>7. DOMAIN clients = 1..m /\ DOMAIN personas = 1..n
  BY <1>4, <1>5
<1>8. clients = <<>> <=> Tables(tree, "clients") = <<>>
  <2>1. clients = <<>> <=> DOMAIN clients = {}
    BY <1>6, NoItems
  <2>2. Tables(tree, "clients") = <<>> <=> DOMAIN Tables(tree, "clients") = {}
    BY <1>1, NoItems
  <2> QED
    BY <1>2, <1>7, <2>1, <2>2
<1>9. personas = <<>> <=> Tables(tree, "personas") = <<>>
  <2>1. personas = <<>> <=> DOMAIN personas = {}
    BY <1>6, NoItems
  <2>2. Tables(tree, "personas") = <<>> <=> DOMAIN Tables(tree, "personas") = {}
    BY <1>1, NoItems
  <2> QED
    BY <1>3, <1>7, <2>1, <2>2
<1> QED
  BY <1>6, <1>8, <1>9 DEF clients, personas

LEMMA Validated ==
  ASSUME NEW tree, NEW V, Readable(tree, V), NEW order, IsSeq(order)
  PROVE  LET s == Validate(Config(tree), order) IN
         /\ IsSeq(s) /\ Honest(s, Faults(tree))
         /\ Passes(s) /\ Meets(order, tree) => Accepted(tree)
<1> DEFINE cfg == Config(tree)
           F == Faults(tree)
           p1 == ValidateIssuer(cfg)
           p2 == ValidateAlgorithm(cfg)
           x3 == Check(cfg.Clients = <<>>, Complaint(<<>>, "clients", "missing"))
           p3 == <<x3>>
           p4 == FlattenSeq([i \in DOMAIN cfg.Clients |-> ValidateClient(cfg.Clients, i)])
           x5 == Check(cfg.Personas = <<>>, Complaint(<<>>, "personas", "missing"))
           p5 == <<x5>>
           p6 == FlattenSeq([i \in DOMAIN cfg.Personas |->
                               ValidatePersona(cfg.Personas, i, order)])
           s == Validate(cfg, order)
<1>1. s = p1 \o p2 \o p3 \o p4 \o p5 \o p6
  BY DEF Validate
<1>2. IsSeq(p1) /\ Honest(p1, F)
      /\ ((\A x \in ToSet(p1) : ~x.fails) =>
            cfg.Issuer \in (HttpURLs \ SlashURLs) \ {""} /\ cfg.Seed # "")
  BY IssuerValidated
<1>3. IsSeq(p2) /\ Honest(p2, F)
      /\ ((\A x \in ToSet(p2) : ~x.fails) =>
            \/ cfg.Algorithm = "EdDSA" /\ cfg.RSAKeyFile = ""
            \/ cfg.Algorithm = "RS256" /\ cfg.RSAKeyFile # "")
  BY AlgorithmValidated
<1>4. IsSeq(p4) /\ Honest(p4, F)
      /\ ((\A x \in ToSet(p4) : ~x.fails)
            => \A i \in DOMAIN Tables(tree, "clients") : GoodClient(cfg.Clients, i))
  BY ClientsValidated
<1>5. IsSeq(p6) /\ Honest(p6, F)
      /\ ((\A x \in ToSet(p6) : ~x.fails) /\ Meets(order, tree)
            => \A i \in DOMAIN Tables(tree, "personas") : GoodPersona(cfg.Personas, i))
  BY PersonasValidated
<1>6. /\ x3.fails <=> Tables(tree, "clients") = <<>>
      /\ x5.fails <=> Tables(tree, "personas") = <<>>
      /\ x3.answer = Complaint(<<>>, "clients", "missing")
      /\ x5.answer = Complaint(<<>>, "personas", "missing")
  BY NoEntries DEF Check, Readable
<1>7. (x3.fails => x3.answer \in F) /\ (x5.fails => x5.answer \in F)
  BY <1>6, SomeEntry
<1> HIDE DEF p1, p2, x3, p4, x5, p6, cfg
<1>8. /\ IsSeq(p3) /\ ToSet(p3) = {x3} /\ Honest(p3, F)
      /\ IsSeq(p5) /\ ToSet(p5) = {x5} /\ Honest(p5, F)
  BY <1>7, OneItem, HonestOne
<1> DEFINE s2 == p1 \o p2
           s3 == s2 \o p3
           s4 == s3 \o p4
           s5 == s4 \o p5
           s6 == s5 \o p6
<1>9. s = s6
  BY <1>1
<1> HIDE DEF p3, p5, F
<1>10. IsSeq(s2) /\ Honest(s2, F) /\ ToSet(s2) = ToSet(p1) \union ToSet(p2)
  BY <1>2, <1>3, Joined, HonestJoined
<1> HIDE DEF s2
<1>11. IsSeq(s3) /\ Honest(s3, F) /\ ToSet(s3) = ToSet(s2) \union ToSet(p3)
  BY <1>8, <1>10, Joined, HonestJoined
<1> HIDE DEF s3
<1>12. IsSeq(s4) /\ Honest(s4, F) /\ ToSet(s4) = ToSet(s3) \union ToSet(p4)
  BY <1>4, <1>11, Joined, HonestJoined
<1> HIDE DEF s4
<1>13. IsSeq(s5) /\ Honest(s5, F) /\ ToSet(s5) = ToSet(s4) \union ToSet(p5)
  BY <1>8, <1>12, Joined, HonestJoined
<1> HIDE DEF s5
<1>14. IsSeq(s6) /\ Honest(s6, F) /\ ToSet(s6) = ToSet(s5) \union ToSet(p6)
  BY <1>5, <1>13, Joined, HonestJoined
<1> HIDE DEF s6, s
<1>15. ASSUME Passes(s), Meets(order, tree) PROVE Accepted(tree)
  <2>1. \A x \in ToSet(s6) : ~x.fails
    BY <1>9, <1>15, PassingItems
  <2>2. /\ \A x \in ToSet(p1) : ~x.fails
        /\ \A x \in ToSet(p2) : ~x.fails
        /\ \A x \in ToSet(p4) : ~x.fails
        /\ \A x \in ToSet(p6) : ~x.fails
        /\ ~x3.fails /\ ~x5.fails
    BY <1>8, <1>10, <1>11, <1>12, <1>13, <1>14, <2>1
  <2>3. GoodTop(tree)
    BY <1>2, <1>3, <2>2 DEF GoodTop, cfg
  <2> QED
    BY <1>4, <1>5, <1>6, <1>15, <2>2, <2>3 DEF Accepted, cfg
<1> QED
  BY <1>9, <1>14, <1>15 DEF s, F, cfg

-------------------------------------------------------------------------------
(* What a load says *)

Good(tree) == Accepted(tree) /\ \E V : Readable(tree, V)

LEMMA FaultsSay ==
  ASSUME NEW tree
  PROVE  \A f \in Faults(tree) :
           f.why \in {"unknown", "type", "missing", "value", "twice", "reserved"}
<1> DEFINE Whys == {"unknown", "type", "missing", "value", "twice", "reserved"}
<1>1. \A at, key, why : Complaint(at, key, why).why = why
  BY DEF Complaint
<1>2. ASSUME NEW place \in Places(tree), NEW f \in SchemaFaults(place) PROVE f.why \in Whys
  BY <1>1, <1>2 DEF SchemaFaults
<1>3. ASSUME NEW f \in ValueFaults(tree) PROVE f.why \in Whys
  <2>1. \E at, key, why : f = Complaint(at, key, why) /\ why \in {"missing", "value"}
    BY <1>3, Zenon DEF ValueFaults
  <2> QED
    BY <1>1, <2>1
<1>4. ASSUME NEW kind, NEW key, NEW f \in Repeats(tree, kind, key) PROVE f.why \in Whys
  <2>1. \E at : f = Complaint(at, key, "twice")
    BY <1>4, Zenon DEF Repeats
  <2> QED
    BY <1>1, <2>1
<1>5. ASSUME NEW f \in ClaimFaults(tree) PROVE f.why \in Whys
  <2>1. \E at, key, why : f = Complaint(at, key, why) /\ why \in {"reserved", "value"}
    BY <1>5, Zenon DEF ClaimFaults
  <2> QED
    BY <1>1, <2>1
<1> QED
  BY <1>2, <1>3, <1>4, <1>5 DEF Faults

LEMMA NotAFault ==
  ASSUME NEW tree
  PROVE  Loaded \notin Faults(tree) /\ NoReport \notin Faults(tree) /\ Loaded # NoReport
<1>1. Loaded.why = "loaded" /\ NoReport.why = ""
  BY DEF Loaded, NoReport, Complaint
<1> QED
  BY <1>1, FaultsSay

LEMMA EndingWalk ==
  ASSUME NEW tree, NEW walk, IsSeq(walk), \A x \in ToSet(walk) : Truthful(tree, x)
  PROVE  IsSeq(Ending(walk)) /\ \A x \in ToSet(Ending(walk)) : Truthful(tree, x)
<1> DEFINE ending == Ending(walk)
<1>1. PICK n \in Nat : DOMAIN walk = 1..n
  BY SeqFacts
<1>2. /\ DOMAIN ending = 1..n
      /\ \A i \in 1..n : ending[i].fails = (walk[i].fails /\ walk[i].ends)
                         /\ ending[i].answer = walk[i].answer
  BY <1>1 DEF Ending, Check
<1>3. ending = [i \in 1..n |-> Check(walk[i].fails /\ walk[i].ends, walk[i].answer)]
  BY <1>1 DEF Ending
<1> HIDE DEF ending
<1>4. ending \in [1..n -> ToSet(ending)]
  BY <1>2, <1>3 DEF ToSet
<1>5. IsSeq(ending)
  BY <1>4, Listed
<1>6. ASSUME NEW i \in 1..n PROVE Truthful(tree, ending[i])
  <2>1. Truthful(tree, walk[i])
    BY <1>1 DEF ToSet
  <2> QED
    BY <1>2, <2>1 DEF Truthful
<1>7. \A x \in ToSet(ending) : Truthful(tree, x)
  BY <1>2, <1>6 DEF ToSet
<1> QED
  BY <1>5, <1>7 DEF ending

LEMMA FirstTruth ==
  ASSUME NEW tree, NEW s, IsSeq(s), \A x \in ToSet(s) : Truthful(tree, x), ~Passes(s)
  PROVE  FirstFailure(s) \in Faults(tree)
BY FailingItem DEF Truthful

LEMMA VerdictFacts ==
  ASSUME NEW tree, NEW V, IsTreeOf(tree, V), NEW order, IsSeq(order), Meets(order, tree)
  PROVE  \/ Verdict(tree, order) \in Faults(tree)
         \/ Verdict(tree, order) = Loaded /\ Good(tree)
<1> DEFINE walk == Walk(tree)
           returns == Ending(walk)
           faults == Validate(Config(tree), order)
<1>1. /\ IsSeq(walk) /\ \A x \in ToSet(walk) : Truthful(tree, x)
      /\ Passes(walk) => Readable(tree, V)
  BY Walked DEF Readable
<1>2. IsSeq(returns) /\ \A x \in ToSet(returns) : Truthful(tree, x)
  BY <1>1, EndingWalk
<1>3. Passes(walk) => /\ IsSeq(faults) /\ Honest(faults, Faults(tree))
                      /\ Passes(faults) => Accepted(tree)
  BY <1>1, Validated
<1>4. Verdict(tree, order) =
        IF ~Passes(returns) THEN FirstFailure(returns)
        ELSE IF ~Passes(walk) THEN FirstFailure(walk)
        ELSE IF Passes(faults) THEN Loaded ELSE FirstFailure(faults)
  BY DEF Verdict
<1> HIDE DEF walk, returns, faults
<1>5. CASE ~Passes(returns)
  BY <1>2, <1>4, <1>5, FirstTruth
<1>6. CASE Passes(returns) /\ ~Passes(walk)
  BY <1>1, <1>4, <1>6, FirstTruth
<1>7. CASE Passes(returns) /\ Passes(walk) /\ ~Passes(faults)
  BY <1>3, <1>4, <1>7, HonestAnswer
<1>8. CASE Passes(returns) /\ Passes(walk) /\ Passes(faults)
  BY <1>1, <1>3, <1>4, <1>8 DEF Good
<1> QED
  BY <1>5, <1>6, <1>7, <1>8

-------------------------------------------------------------------------------
(* An edited file is made of values again. *)

LEMMA MoreValues ==
  ASSUME NEW V, AreValues(V), NEW v, Shaped(v), Within(v) \subseteq V
  PROVE  AreValues(V \union {v})
BY DEF AreValues

LEMMA MadeTable ==
  ASSUME NEW V, AreValues(V), NEW f, IsFunctionOn(f, DOMAIN f), \A k \in DOMAIN f : f[k] \in V
  PROVE  IsTreeOf(f, V \union {Table(f)})
<1>1. Shaped(Table(f))
  <2>1. Table(f)[1] = "table" /\ Table(f)[2] = f
    BY DEF Table
  <2> QED
    BY <2>1 DEF Shaped, Is, IsFunctionOn
<1>2. Within(Table(f)) \subseteq V
  BY DEF Within, Table
<1> QED
  BY <1>1, <1>2, MoreValues DEF IsTreeOf

(* Some values, with those of the edits. *)
Made(m) == \E V : Values \subseteq V /\ IsTreeOf(m, V)

LEMMA EditedTable ==
  ASSUME NEW m, NEW V, IsTreeOf(m, V), NEW key, NEW v, v \in V \/ v = Removed
  PROVE  \E W : V \subseteq W /\ IsTreeOf(With(m, key, v), W)
<1> DEFINE f == With(m, key, v)
<1>1. \A k \in DOMAIN m : m[k] \in V
  BY TreeValues
<1>2. IsFunctionOn(f, DOMAIN f) /\ \A k \in DOMAIN f : f[k] \in V
  <2>1. CASE v = Removed
    <3>1. f = [k \in DOMAIN m \ {key} |-> m[k]]
      BY <2>1 DEF With
    <3> HIDE DEF f
    <3> QED
      BY <1>1, <3>1 DEF IsFunctionOn
  <2>2. CASE v # Removed
    <3>1. f = [k \in DOMAIN m \union {key} |-> IF k = key THEN v ELSE m[k]]
      BY <2>2 DEF With
    <3> HIDE DEF f
    <3> QED
      BY <1>1, <2>2, <3>1 DEF IsFunctionOn
  <2> QED
    BY <2>1, <2>2
<1> HIDE DEF f
<1>3. IsTreeOf(f, V \union {Table(f)})
  BY <1>2, MadeTable DEF IsTreeOf
<1> QED
  BY <1>3 DEF f

LEMMA TableSet ==
  ASSUME NEW m, NEW V, IsTreeOf(m, V), NEW t, IsTreeOf(t, V), NEW key
  PROVE  \E W : V \subseteq W /\ IsTreeOf(SetTable(m, key, t), W)
<1> DEFINE f == SetTable(m, key, t)
<1>1. \A k \in DOMAIN m : m[k] \in V
  BY TreeValues
<1>2. Table(t) \in V
  BY DEF IsTreeOf
<1>3. f = [m EXCEPT ![key] = Table(t)]
  BY DEF SetTable
<1> HIDE DEF f
<1>4. IsFunctionOn(f, DOMAIN f) /\ \A k \in DOMAIN f : f[k] \in V
  BY <1>1, <1>2, <1>3 DEF IsFunctionOn
<1>5. IsTreeOf(f, V \union {Table(f)})
  BY <1>4, MadeTable DEF IsTreeOf
<1> QED
  BY <1>5 DEF f

LEMMA EntrySet ==
  ASSUME NEW m, NEW V, IsTreeOf(m, V), NEW kind, NEW i \in DOMAIN Tables(m, kind),
         NEW t, IsTreeOf(t, V)
  PROVE  \E W : V \subseteq W /\ IsTreeOf(SetEntry(m, kind, i, t), W)
<1> DEFINE s == m[kind][2]
           r == [s EXCEPT ![i] = Table(t)]
           a == Array(r)
           f == SetEntry(m, kind, i, t)
<1>1. Has(m, kind) /\ AllOf(m[kind], "table") /\ i \in DOMAIN s
  BY EmptyList DEF Tables
<1>2. m[kind] \in V /\ Shaped(m[kind]) /\ Is(m[kind], "array")
  BY <1>1, TreeValues DEF Has, AllOf
<1>3. PICK n \in Nat : DOMAIN s = 1..n
  BY <1>2, ShapeFacts, SeqFacts
<1>4. \A j \in DOMAIN s : s[j] \in V
  BY <1>2 DEF Within, Is, IsTreeOf, AreValues
<1>5. Table(t) \in V
  BY DEF IsTreeOf
<1>6. f = [m EXCEPT ![kind] = a]
  BY DEF SetEntry
<1> HIDE DEF s
<1>7. r \in [1..n -> V]
  BY <1>3, <1>4, <1>5
<1>8. \A j \in DOMAIN r : r[j] \in V
  BY <1>7
<1> HIDE DEF r
<1>9. IsSeq(r)
  BY <1>7, Listed
<1>10. Shaped(a) /\ Within(a) \subseteq V
  <2>1. a[1] = "array" /\ a[2] = r
    BY DEF Array
  <2> QED
    BY <1>8, <1>9, <2>1 DEF Shaped, Is, IsSeq, Within
<1> HIDE DEF a, f
<1> DEFINE W == V \union {a}
<1>11. AreValues(W)
  BY <1>10, MoreValues DEF IsTreeOf
<1>12. \A k \in DOMAIN m : m[k] \in V
  BY TreeValues
<1>13. IsFunctionOn(f, DOMAIN f) /\ \A k \in DOMAIN f : f[k] \in W
  BY <1>6, <1>12 DEF IsFunctionOn
<1>14. IsTreeOf(f, W \union {Table(f)})
  BY <1>11, <1>13, MadeTable
<1> QED
  BY <1>14 DEF f

LEMMA EditPlace ==
  ASSUME NEW tree, NEW e \in Edits
  PROVE  \/ /\ e.at = <<>>
            /\ Edited(tree, e) = With(tree, e.key, e.value)
         \/ /\ e.at = <<"tokens">>
            /\ Reaches(tree, e.at) => Holds(tree, "tokens", "table")
            /\ Edited(tree, e) =
                 SetTable(tree, "tokens", With(tree["tokens"][2], e.key, e.value))
         \/ /\ e.at \in EntryPlaces
            /\ Reaches(tree, e.at) => e.at[2] \in DOMAIN Tables(tree, e.at[1])
            /\ Edited(tree, e) =
                 SetEntry(tree, e.at[1], e.at[2],
                          With(Tables(tree, e.at[1])[e.at[2]], e.key, e.value))
         \/ /\ e.at \in ClaimPlaces
            /\ Reaches(tree, e.at)
                 => /\ e.at[2] \in DOMAIN Tables(tree, "personas")
                    /\ Holds(Tables(tree, "personas")[e.at[2]], "claims", "table")
            /\ Edited(tree, e) =
                 LET persona == Tables(tree, "personas")[e.at[2]]
                 IN SetEntry(tree, "personas", e.at[2],
                      SetTable(persona, "claims", With(persona["claims"][2], e.key, e.value)))
<1>1. e.at \in {<<>>, <<"tokens">>} \union EntryPlaces \union ClaimPlaces
  BY FileAssumption
<1>2. <<>> # <<"tokens">> /\ \A p \in EntryPlaces : p # <<>> /\ p # <<"tokens">>
  BY SMTT(30), ZenonT(30) DEF EntryPlaces
<1>3. \A p \in ClaimPlaces : p # <<>> /\ p # <<"tokens">> /\ p \notin EntryPlaces
  BY DEF EntryPlaces, ClaimPlaces
<1>4. CASE e.at = <<>>
  <2>1. e.at # <<"tokens">> /\ e.at \notin EntryPlaces /\ e.at \notin ClaimPlaces
    BY <1>2, <1>3, <1>4
  <2>2. Edited(tree, e) = With(tree, e.key, e.value)
    BY <1>4, <2>1 DEF Edited
  <2> QED
    BY <1>4, <2>2
<1>5. CASE e.at = <<"tokens">>
  <2>1. e.at # <<>> /\ e.at \notin EntryPlaces /\ e.at \notin ClaimPlaces
    BY <1>2, <1>3, <1>5
  <2>2. Reaches(tree, e.at) => Holds(tree, "tokens", "table")
    BY <1>5, <2>1 DEF Reaches
  <2>3. Edited(tree, e) = SetTable(tree, "tokens", With(tree["tokens"][2], e.key, e.value))
    BY <1>5, <2>1 DEF Edited
  <2> QED
    BY <1>5, <2>2, <2>3
<1>6. CASE e.at \in EntryPlaces
  <2>1. e.at # <<>> /\ e.at # <<"tokens">> /\ e.at \notin ClaimPlaces
    BY <1>2, <1>3, <1>6
  <2>2. Reaches(tree, e.at) => e.at[2] \in DOMAIN Tables(tree, e.at[1])
    BY <1>6, <2>1 DEF Reaches
  <2>3. Edited(tree, e) =
          SetEntry(tree, e.at[1], e.at[2],
                   With(Tables(tree, e.at[1])[e.at[2]], e.key, e.value))
    BY <1>6, <2>1 DEF Edited
  <2> QED
    BY <1>6, <2>2, <2>3
<1>7. CASE e.at \in ClaimPlaces
  BY <1>2, <1>3, <1>7 DEF Edited, Reaches
<1> QED
  BY <1>1, <1>4, <1>5, <1>6, <1>7

LEMMA HeldTable ==
  ASSUME NEW m, NEW V, IsTreeOf(m, V), NEW key, Holds(m, key, "table")
  PROVE  IsTreeOf(m[key][2], V)
<1>1. m[key] \in V /\ Shaped(m[key]) /\ Is(m[key], "table")
  BY TreeValues DEF Holds, Has
<1>2. m[key] = Table(m[key][2])
  BY <1>1, ShapeFacts
<1> QED
  BY <1>1, <1>2 DEF IsTreeOf

LEMMA WiderTree ==
  ASSUME NEW m, NEW V, IsTreeOf(m, V), NEW W, AreValues(W), V \subseteq W
  PROVE  IsTreeOf(m, W)
BY DEF IsTreeOf

LEMMA EditedMade ==
  ASSUME NEW tree, Made(tree), NEW e \in Edits, Reaches(tree, e.at)
  PROVE  Made(Edited(tree, e))
<1>1. PICK V : Values \subseteq V /\ IsTreeOf(tree, V)
  BY DEF Made
<1>2. e.value \in V \/ e.value = Removed
  <2>1. e.value \in Values \union {Removed}
    BY FileAssumption
  <2> QED
    BY <1>1, <2>1
<1>3. CASE e.at = <<>> /\ Edited(tree, e) = With(tree, e.key, e.value)
  BY <1>1, <1>2, <1>3, EditedTable DEF Made
<1>4. CASE /\ Holds(tree, "tokens", "table")
           /\ Edited(tree, e) = SetTable(tree, "tokens", With(tree["tokens"][2], e.key, e.value))
  <2> DEFINE t == With(tree["tokens"][2], e.key, e.value)
  <2>1. IsTreeOf(tree["tokens"][2], V)
    BY <1>1, <1>4, HeldTable
  <2>2. PICK W : V \subseteq W /\ IsTreeOf(t, W)
    BY <1>2, <2>1, EditedTable
  <2> HIDE DEF t
  <2>3. IsTreeOf(tree, W)
    BY <1>1, <2>2, WiderTree DEF IsTreeOf
  <2>4. PICK X : W \subseteq X /\ IsTreeOf(SetTable(tree, "tokens", t), X)
    BY <2>2, <2>3, TableSet
  <2> QED
    BY <1>1, <1>4, <2>2, <2>4 DEF Made, t
<1>5. CASE /\ e.at[2] \in DOMAIN Tables(tree, e.at[1])
           /\ Edited(tree, e) =
                SetEntry(tree, e.at[1], e.at[2],
                         With(Tables(tree, e.at[1])[e.at[2]], e.key, e.value))
  <2> DEFINE kind == e.at[1]
             i == e.at[2]
             m == Tables(tree, kind)[i]
             t == With(m, e.key, e.value)
  <2>1. IsTreeOf(m, V)
    BY <1>1, <1>5, TreeTables
  <2>2. PICK W : V \subseteq W /\ IsTreeOf(t, W)
    BY <1>2, <2>1, EditedTable
  <2>3. IsTreeOf(tree, W)
    BY <1>1, <2>2, WiderTree DEF IsTreeOf
  <2>4. i \in DOMAIN Tables(tree, kind) /\ Edited(tree, e) = SetEntry(tree, kind, i, t)
    BY <1>5
  <2> HIDE DEF t, m, kind, i
  <2>5. PICK X : W \subseteq X /\ IsTreeOf(SetEntry(tree, kind, i, t), X)
    BY <2>2, <2>3, <2>4, EntrySet
  <2> QED
    BY <1>1, <2>2, <2>4, <2>5 DEF Made
<1>6. CASE /\ e.at[2] \in DOMAIN Tables(tree, "personas")
           /\ Holds(Tables(tree, "personas")[e.at[2]], "claims", "table")
           /\ Edited(tree, e) =
                LET persona == Tables(tree, "personas")[e.at[2]]
                IN SetEntry(tree, "personas", e.at[2],
                     SetTable(persona, "claims", With(persona["claims"][2], e.key, e.value)))
  <2> DEFINE i == e.at[2]
             p == Tables(tree, "personas")[i]
             c == With(p["claims"][2], e.key, e.value)
             t == SetTable(p, "claims", c)
  <2>1. i \in DOMAIN Tables(tree, "personas") /\ Edited(tree, e) = SetEntry(tree, "personas", i, t)
    BY <1>6
  <2>2. IsTreeOf(p, V)
    BY <1>1, <1>6, TreeTables
  <2>3. IsTreeOf(p["claims"][2], V)
    BY <1>6, <2>2, HeldTable
  <2>4. PICK W : V \subseteq W /\ IsTreeOf(c, W)
    BY <1>2, <2>3, EditedTable
  <2>5. IsTreeOf(p, W) /\ IsTreeOf(tree, W)
    BY <1>1, <2>2, <2>4, WiderTree DEF IsTreeOf
  <2> HIDE DEF c, p, i
  <2>6. PICK X : W \subseteq X /\ IsTreeOf(t, X)
    BY <2>4, <2>5, TableSet
  <2>7. IsTreeOf(tree, X)
    BY <2>5, <2>6, WiderTree DEF IsTreeOf
  <2> HIDE DEF t
  <2>8. PICK Y : X \subseteq Y /\ IsTreeOf(SetEntry(tree, "personas", i, t), Y)
    BY <2>1, <2>6, <2>7, EntrySet
  <2> QED
    BY <1>1, <2>1, <2>4, <2>6, <2>8 DEF Made
<1> QED
  BY <1>3, <1>4, <1>5, <1>6, EditPlace

-------------------------------------------------------------------------------
(* The inductive invariant: the file is made of values, what was said of   *)
(* it last is one of its faults, and it loaded only if it is good.         *)
FileInv ==
  /\ Made(file)
  /\ report \in {Loaded, NoReport} \union Faults(file)
  /\ report = Loaded => Good(file)
  /\ Good(before)
  /\ edits \in 0..MaxEdits

(* The invariant holds: an edit forgets the report, a load replaces it.    *)
THEOREM FileInvariant == Spec => []FileInv
<1>1. Init => FileInv
  <2> SUFFICES ASSUME Init PROVE FileInv
    OBVIOUS
  <2>1. Made(file)
    BY FileAssumption DEF Init, Made, IsTreeOf
  <2>2. edits \in 0..MaxEdits
    <3>1. MaxEdits \in Nat
      BY FileAssumption
    <3> QED
      BY <3>1 DEF Init
  <2>3. Good(before)
    <3>1. PICK order \in ClaimOrders : Meets(order, FirstFile) /\ Verdict(FirstFile, order) = Loaded
      BY FirstAssumption
    <3>2. IsSeq(order)
      BY FileAssumption DEF IsSeq
    <3>3. PICK V : IsTreeOf(FirstFile, V)
      BY <2>1 DEF Init, Made
    <3>4. Good(FirstFile)
      BY <3>1, <3>2, <3>3, VerdictFacts, NotAFault
    <3> QED
      BY <3>4 DEF Init
  <2> QED
    BY <2>1, <2>2, <2>3, NotAFault DEF Init, FileInv
<1>2. FileInv /\ [Next]_fileVars => FileInv'
  <2> SUFFICES ASSUME FileInv, [Next]_fileVars PROVE FileInv'
    OBVIOUS
  <2>1. CASE UNCHANGED fileVars
    BY <2>1 DEF FileInv, fileVars
  <2>2. ASSUME NEW e \in Edits, Edit(e) PROVE FileInv'
    <3>1. Made(file')
      BY <2>2, EditedMade DEF Edit, FileInv
    <3>2. edits' \in 0..MaxEdits
      <4>1. MaxEdits \in Nat
        BY FileAssumption
      <4> QED
        BY <2>2, <4>1 DEF Edit, FileInv
    <3>3. report' = NoReport /\ before' = before
      BY <2>2 DEF Edit
    <3> QED
      BY <3>1, <3>2, <3>3, NotAFault DEF FileInv
  <2>3. ASSUME NEW order \in ClaimOrders, LoadFile(order) PROVE FileInv'
    <3>1. file' = file /\ edits' = edits /\ report' = Verdict(file, order) /\ Meets(order, file)
      BY <2>3 DEF LoadFile
    <3>2. IsSeq(order)
      BY FileAssumption DEF IsSeq
    <3>3. PICK V : IsTreeOf(file, V)
      BY DEF FileInv, Made
    <3>4. \/ report' \in Faults(file)
          \/ report' = Loaded /\ Good(file)
      BY <3>1, <3>2, <3>3, VerdictFacts
    <3>5. report' \in {Loaded, NoReport} \union Faults(file)
      BY <3>4
    <3>6. report' = Loaded => Good(file)
      BY <3>4, NotAFault
    <3>7. Good(before')
      <4>1. before' = IF report' = Loaded THEN file ELSE before
        BY <2>3 DEF LoadFile
      <4> QED
        BY <3>1, <3>6, <4>1 DEF FileInv
    <3> QED
      BY <3>1, <3>5, <3>6, <3>7 DEF FileInv
  <2> QED
    BY <2>1, <2>2, <2>3 DEF Next
<1> QED
  BY <1>1, <1>2, PTL DEF Spec

(* What Load reports of a file is always wrong with it: never a           *)
(* consequence of a default that took the place of a key of the wrong type.*)
THEOREM ReportsAreFaults == Spec => []ReportsAreTrue
<1>1. FileInv => ReportsAreTrue
  BY DEF FileInv, ReportsAreTrue
<1> QED
  BY <1>1, FileInvariant, PTL

-------------------------------------------------------------------------------
(* A good file has no fault. *)

LEMMA NoSchemaFaults ==
  ASSUME NEW tree, NEW V, Readable(tree, V), Accepted(tree), NEW place \in Places(tree)
  PROVE  SchemaFaults(place) = {}
<1> DEFINE keys == Schema[place.kind]
<1>1. WellTyped(place)
  BY DEF Readable
<1>2. DOMAIN place.m \ DOMAIN keys = {}
  BY <1>1 DEF WellTyped
<1>3. {k \in DOMAIN place.m \intersect DOMAIN keys : ~Fits(place.m[k], keys[k])} = {}
  BY <1>1 DEF WellTyped, WrongType
<1>4. ASSUME NEW k \in Required[place.kind], Absent(place.m, k) PROVE FALSE
  <2>1. CASE place = Top(tree)
    <3>1. place.m = tree /\ place.kind = "top"
      BY <2>1, PlaceParts DEF Top
    <3>2. Config(tree).Issuer # "" /\ Config(tree).Seed # ""
          /\ Tables(tree, "clients") # <<>> /\ Tables(tree, "personas") # <<>>
      BY DEF Accepted, GoodTop
    <3>3. Str(tree, "issuer", "") # "" /\ Str(tree, "seed", "") # ""
      BY <3>2, ConfigFields
    <3>4. Has(tree, "issuer") => Is(tree["issuer"], "string")
      BY TopFacts, SchemaFacts, FitsString
    <3>5. Has(tree, "seed") => Is(tree["seed"], "string")
      BY TopFacts, SchemaFacts, FitsString
    <3>6. Has(tree, "clients") => AllOf(tree["clients"], "table")
      BY TopFacts, SchemaFacts, FitsString
    <3>7. Has(tree, "personas") => AllOf(tree["personas"], "table")
      BY TopFacts, SchemaFacts, FitsString
    <3>8. IsTreeOf(tree, V)
      BY DEF Readable
    <3>9. ~Absent(tree, "issuer") /\ ~Absent(tree, "seed")
      BY <3>3, <3>4, <3>5, <3>8, StrAbsent
    <3>10. ~Absent(tree, "clients") /\ ~Absent(tree, "personas")
      BY <3>2, <3>6, <3>7, <3>8, TablesAbsent
    <3> QED
      BY <1>4, <3>1, <3>9, <3>10, SchemaFacts
  <2>2. CASE place = TokensPlace(tree)
    <3>1. place.kind = "tokens"
      BY <2>2, PlaceParts DEF TokensPlace
    <3> QED
      BY <1>4, <3>1, SchemaFacts
  <2>3. ASSUME NEW i \in DOMAIN Tables(tree, "clients"), place = EntryPlace(tree, "clients", i)
        PROVE  FALSE
    <3> DEFINE m == Tables(tree, "clients")[i]
    <3>1. place.m = m /\ place.kind = "clients" /\ IsTreeOf(m, V)
      BY <2>3, EntryFacts
    <3>2. Config(tree).Clients[i].ID = Str(m, "client_id", "")
          /\ Config(tree).Clients[i].RedirectURIs = Strs(m, "redirect_uris")
      BY ConfigClients
    <3>3. Str(m, "client_id", "") # "" /\ Strs(m, "redirect_uris") # <<>>
      BY <3>2 DEF Accepted, GoodClient
    <3>4. Has(m, "client_id") => Is(m["client_id"], "string")
      BY EntryFacts, SchemaFacts, FitsString
    <3>5. Has(m, "redirect_uris") => AllOf(m["redirect_uris"], "string")
      BY EntryFacts, SchemaFacts, FitsString
    <3>6. ~Absent(m, "client_id")
      BY <3>1, <3>3, <3>4, StrAbsent
    <3>7. ~Absent(m, "redirect_uris")
      BY <3>1, <3>3, <3>5, StrsAbsent
    <3> QED
      BY <1>4, <3>1, <3>6, <3>7, SchemaFacts
  <2>4. ASSUME NEW i \in DOMAIN Tables(tree, "personas"),
               place = EntryPlace(tree, "personas", i)
        PROVE  FALSE
    <3> DEFINE m == Tables(tree, "personas")[i]
    <3>1. place.m = m /\ place.kind = "personas" /\ IsTreeOf(m, V)
      BY <2>4, EntryFacts
    <3>2. Config(tree).Personas[i].Name = Str(m, "name", "")
          /\ Config(tree).Personas[i].Subject = Str(m, "subject", "")
      BY ConfigPersonas
    <3>3. Str(m, "name", "") # "" /\ Str(m, "subject", "") # ""
      BY <3>2 DEF Accepted, GoodPersona
    <3>4. Has(m, "name") => Is(m["name"], "string")
      BY EntryFacts, SchemaFacts, FitsString
    <3>5. Has(m, "subject") => Is(m["subject"], "string")
      BY EntryFacts, SchemaFacts, FitsString
    <3>6. ~Absent(m, "name") /\ ~Absent(m, "subject")
      BY <3>1, <3>3, <3>4, <3>5, StrAbsent
    <3> QED
      BY <1>4, <3>1, <3>6, SchemaFacts
  <2>5. \/ place = Top(tree) \/ place = TokensPlace(tree)
        \/ \E kind \in {"clients", "personas"} : \E i \in DOMAIN Tables(tree, kind) :
             place = EntryPlace(tree, kind, i)
    BY PlacesAre
  <2> QED
    BY <2>1, <2>2, <2>3, <2>4, <2>5
<1> QED
  BY <1>2, <1>3, <1>4 DEF SchemaFaults

LEMMA NoValueFaults ==
  ASSUME NEW tree, NEW V, Readable(tree, V), Accepted(tree)
  PROVE  ValueFaults(tree) = {}
<1> DEFINE t == TokensOf(tree)
           alg == Str(t, "algorithm", "EdDSA")
           keyfile == Str(t, "rsa_key_file", "")
<1>1. Says(tree, "issuer") \subseteq HttpURLs \ SlashURLs
  <2>1. Str(tree, "issuer", "") \in (HttpURLs \ SlashURLs) \ {""}
    BY ConfigFields DEF Accepted, GoodTop
  <2> QED
    BY <2>1, StrSays
<1>2. Says(t, "ttl") \subseteq GoodDurations
  BY StrSays, LifetimeIsGood DEF Readable, TimesRead
<1>3. Says(t, "issued_at") \subseteq DOMAIN InstantOf
  BY StrSays DEF Readable, TimesRead
<1>4. \/ alg = "EdDSA" /\ keyfile = ""
      \/ alg = "RS256" /\ keyfile # ""
  BY ConfigFields DEF Accepted, GoodTop
<1>5. /\ keyfile = "" <=> Absent(t, "rsa_key_file")
      /\ Text(t, "algorithm") \subseteq {alg}
      /\ alg = "RS256" <=> UsesRSA(t)
  BY AlgorithmSays
<1>6. Text(t, "algorithm") \subseteq {"EdDSA", "RS256"}
  BY <1>4, <1>5
<1>7. UsesRSA(t) => ~Absent(t, "rsa_key_file")
  BY <1>4, <1>5
<1>8. ~UsesRSA(t) => Says(t, "rsa_key_file") = {}
  BY <1>4, <1>5, StrSays
<1>9. ASSUME NEW i \in DOMAIN Tables(tree, "clients")
      PROVE  ToSet(Strs(Tables(tree, "clients")[i], "redirect_uris"))
               \subseteq AbsoluteURLs \ FragmentURLs
  <2>1. Config(tree).Clients[i].RedirectURIs = Strs(Tables(tree, "clients")[i], "redirect_uris")
    BY ConfigClients
  <2> QED
    BY <2>1 DEF Accepted, GoodClient
<1> HIDE DEF t
<1>10. /\ {u \in Says(tree, "issuer") : u \notin HttpURLs \ SlashURLs} = {}
       /\ Says(t, "ttl") \ GoodDurations = {}
       /\ Says(t, "issued_at") \ DOMAIN InstantOf = {}
       /\ Text(t, "algorithm") \ {"EdDSA", "RS256"} = {}
       /\ (IF UsesRSA(t) /\ Absent(t, "rsa_key_file") THEN {1} ELSE {}) = {}
       /\ (IF UsesRSA(t) THEN {} ELSE Says(t, "rsa_key_file")) = {}
       /\ {j \in DOMAIN Tables(tree, "clients") :
             ~(ToSet(Strs(Tables(tree, "clients")[j], "redirect_uris"))
                 \subseteq AbsoluteURLs \ FragmentURLs)} = {}
  BY <1>1, <1>2, <1>3, <1>6, <1>7, <1>8, <1>9
<1> QED
  BY <1>10 DEF ValueFaults, GoodDurations, t

LEMMA NoRepeats ==
  ASSUME NEW tree, NEW V, Readable(tree, V), Accepted(tree)
  PROVE  /\ Repeats(tree, "clients", "client_id") = {}
         /\ Repeats(tree, "personas", "name") = {}
         /\ Repeats(tree, "personas", "subject") = {}
<1>1. \A m, n, key : Says(m, key) \intersect Says(n, key) # {}
                       => Str(m, key, "") = Str(n, key, "")
  <2> SUFFICES ASSUME NEW m, NEW n, NEW key, Says(m, key) \intersect Says(n, key) # {}
               PROVE  Str(m, key, "") = Str(n, key, "")
    OBVIOUS
  <2>1. Says(m, key) \subseteq {Str(m, key, "")}
    BY StrSays
  <2>2. Says(n, key) \subseteq {Str(n, key, "")}
    BY StrSays
  <2> QED
    BY <2>1, <2>2
<1>2. \A kind \in {"clients", "personas"} : \A i \in DOMAIN Tables(tree, kind) :
        \A j \in 1..(i - 1) : j \in DOMAIN Tables(tree, kind)
  <2> SUFFICES ASSUME NEW kind \in {"clients", "personas"}, NEW i \in DOMAIN Tables(tree, kind)
               PROVE  \A j \in 1..(i - 1) : j \in DOMAIN Tables(tree, kind)
    OBVIOUS
  <2>1. IsSeq(Tables(tree, kind))
    BY TreeTables DEF Readable
  <2>2. PICK n \in Nat : DOMAIN Tables(tree, kind) = 1..n
    BY <2>1, SeqFacts
  <2> QED
    BY <2>2, Earlier
<1>3. ASSUME NEW i \in DOMAIN Tables(tree, "clients"), NEW j \in 1..(i - 1),
             Says(Tables(tree, "clients")[j], "client_id")
               \intersect Says(Tables(tree, "clients")[i], "client_id") # {}
      PROVE  FALSE
  <2>1. j \in DOMAIN Tables(tree, "clients")
    BY <1>2
  <2>2. Str(Tables(tree, "clients")[j], "client_id", "") = Str(Tables(tree, "clients")[i], "client_id", "")
    BY <1>1, <1>3
  <2>3. Config(tree).Clients[j].ID = Config(tree).Clients[i].ID
    BY <2>1, <2>2, ConfigClients
  <2> QED
    BY <2>3 DEF Accepted, GoodClient
<1>4. ASSUME NEW i \in DOMAIN Tables(tree, "personas"), NEW j \in 1..(i - 1),
             Says(Tables(tree, "personas")[j], "name")
               \intersect Says(Tables(tree, "personas")[i], "name") # {}
      PROVE  FALSE
  <2>1. j \in DOMAIN Tables(tree, "personas")
    BY <1>2
  <2>2. Str(Tables(tree, "personas")[j], "name", "") = Str(Tables(tree, "personas")[i], "name", "")
    BY <1>1, <1>4
  <2>3. Config(tree).Personas[j]["Name"] = Config(tree).Personas[i]["Name"]
    BY <2>1, <2>2, ConfigPersonas
  <2> QED
    BY <2>3 DEF Accepted, GoodPersona, Seen
<1>5. ASSUME NEW i \in DOMAIN Tables(tree, "personas"), NEW j \in 1..(i - 1),
             Says(Tables(tree, "personas")[j], "subject")
               \intersect Says(Tables(tree, "personas")[i], "subject") # {}
      PROVE  FALSE
  <2>1. j \in DOMAIN Tables(tree, "personas")
    BY <1>2
  <2>2. Str(Tables(tree, "personas")[j], "subject", "") = Str(Tables(tree, "personas")[i], "subject", "")
    BY <1>1, <1>5
  <2>3. Config(tree).Personas[j]["Subject"] = Config(tree).Personas[i]["Subject"]
    BY <2>1, <2>2, ConfigPersonas
  <2> QED
    BY <2>3 DEF Accepted, GoodPersona, Seen
<1> QED
  BY <1>3, <1>4, <1>5 DEF Repeats

LEMMA NoClaimFaults ==
  ASSUME NEW tree, NEW V, Readable(tree, V), Accepted(tree)
  PROVE  ClaimFaults(tree) = {}
<1>1. ASSUME NEW i \in DOMAIN Tables(tree, "personas"), NEW k \in DOMAIN ClaimsOf(tree, i)
      PROVE  k \notin ReservedClaims /\ ValidClaimValue(ClaimsOf(tree, i)[k])
  <2>1. Config(tree).Personas[i].Claims = ClaimsOf(tree, i)
    BY ConfigPersonas
  <2>2. GoodPersona(Config(tree).Personas, i)
    BY DEF Accepted
  <2> QED
    BY <2>1, <2>2 DEF GoodPersona
<1> DEFINE claims == UNION {{<<j, key>> : key \in DOMAIN ClaimsOf(tree, j)} :
                             j \in DOMAIN Tables(tree, "personas")}
<1>2. \A c \in claims : c[1] \in DOMAIN Tables(tree, "personas") /\ c[2] \in DOMAIN ClaimsOf(tree, c[1])
  OBVIOUS
<1>3. {d \in claims : d[2] \in ReservedClaims} = {}
      /\ {d \in claims : ~ValidClaimValue(ClaimsOf(tree, d[1])[d[2]])} = {}
  <2> HIDE DEF claims
  <2> QED
    BY <1>1, <1>2
<1> QED
  BY <1>3 DEF ClaimFaults

LEMMA GoodIsFaultless ==
  ASSUME NEW tree, Good(tree)
  PROVE  Faults(tree) = {}
<1>1. PICK V : Readable(tree, V)
  BY DEF Good
<1>2. Accepted(tree)
  BY DEF Good
<1>3. \A place \in Places(tree) : SchemaFaults(place) = {}
  BY <1>1, <1>2, NoSchemaFaults
<1> QED
  BY <1>1, <1>2, <1>3, NoValueFaults, NoRepeats, NoClaimFaults DEF Faults

(* No file with a fault loads: a mistake in a persona file stops the       *)
(* program, whatever hides it.                                             *)
THEOREM OnlyFaultlessLoad == Spec => []LoadsOnlyFaultless
<1>1. FileInv => LoadsOnlyFaultless
  BY GoodIsFaultless DEF FileInv, LoadsOnlyFaultless
<1> QED
  BY <1>1, FileInvariant, PTL

-------------------------------------------------------------------------------
(* What the server is given *)

LEMMA LeastIsMin ==
  ASSUME NEW n \in Nat, NEW I \in SUBSET (1..n), NEW i \in I, \A j \in 1..(i - 1) : j \notin I
  PROVE  Min(I) = i
<1>1. i \in 1..n /\ \A j \in I : i <= j
  <2>1. \A j \in I : j \in 1..n
    OBVIOUS
  <2>2. ASSUME NEW j \in I, ~(i <= j) PROVE FALSE
    <3>1. j \in 1..(i - 1)
      BY <2>1, <2>2
    <3> QED
      BY <3>1
  <2> QED
    BY <2>1, <2>2
<1> DEFINE m == CHOOSE x \in I : \A y \in I : x <= y
<1>2. m \in I /\ \A y \in I : m <= y
  BY <1>1
<1>3. Min(I) = m
  BY DEF Min
<1> HIDE DEF m
<1>4. m \in 1..n /\ m <= i /\ i <= m
  BY <1>1, <1>2
<1> QED
  BY <1>1, <1>3, <1>4

LEMMA GoodEntries ==
  ASSUME NEW tree, Good(tree)
  PROVE  \E m, n \in Nat :
           /\ IsSeq(Config(tree).Clients) /\ Len(Config(tree).Clients) = m
           /\ DOMAIN Config(tree).Clients = 1..m
           /\ IsSeq(Config(tree).Personas) /\ Len(Config(tree).Personas) = n
           /\ DOMAIN Config(tree).Personas = 1..n
           /\ m > 0 /\ n > 0
           /\ \A i \in 1..m : GoodClient(Config(tree).Clients, i)
           /\ \A i \in 1..n : GoodPersona(Config(tree).Personas, i)
<1> DEFINE clients == Config(tree).Clients
           personas == Config(tree).Personas
<1>1. PICK V : Readable(tree, V)
  BY DEF Good
<1>2. Accepted(tree)
  BY DEF Good
<1>3. /\ IsSeq(clients) /\ IsSeq(personas)
      /\ clients = <<>> <=> Tables(tree, "clients") = <<>>
      /\ personas = <<>> <=> Tables(tree, "personas") = <<>>
  BY <1>1, NoEntries DEF Readable
<1>4. clients # <<>> /\ personas # <<>>
  BY <1>2, <1>3 DEF Accepted
<1>5. DOMAIN clients = DOMAIN Tables(tree, "clients")
      /\ DOMAIN personas = DOMAIN Tables(tree, "personas")
  BY ConfigClients, ConfigPersonas
<1>6. (\A i \in DOMAIN clients : GoodClient(clients, i))
      /\ \A i \in DOMAIN personas : GoodPersona(personas, i)
  BY <1>2, <1>5 DEF Accepted
<1> HIDE DEF clients, personas
<1>7. DOMAIN clients = 1..Len(clients) /\ Len(clients) \in Nat
      /\ DOMAIN personas = 1..Len(personas) /\ Len(personas) \in Nat
  BY <1>3, SeqFacts
<1>8. Len(clients) > 0 /\ Len(personas) > 0
  <2>1. DOMAIN clients # {} /\ DOMAIN personas # {}
    BY <1>3, <1>4, NoItems
  <2> QED
    BY <1>7, <2>1
<1> QED
  BY <1>3, <1>6, <1>7, <1>8 DEF clients, personas

LEMMA ClientFound ==
  ASSUME NEW tree, Good(tree), NEW i \in DOMAIN Config(tree).Clients
  PROVE  ClientWithId(Config(tree), Config(tree).Clients[i].ID) = i
<1> DEFINE clients == Config(tree).Clients
           I == {j \in 1..Len(clients) : clients[j].ID = clients[i].ID}
<1>1. PICK n \in Nat : Len(clients) = n /\ DOMAIN clients = 1..n
                       /\ \A j \in 1..n : GoodClient(clients, j)
  BY GoodEntries
<1>2. ClientWithId(Config(tree), clients[i].ID) = IF I # {} THEN Min(I) ELSE 0
  BY DEF ClientWithId, SelectInSeq
<1> HIDE DEF clients
<1>3. i \in I /\ I \subseteq 1..n
  BY <1>1 DEF clients
<1>4. \A j \in 1..(i - 1) : j \notin I
  BY <1>1 DEF GoodClient, clients
<1> HIDE DEF I
<1>5. Min(I) = i
  BY <1>3, <1>4, LeastIsMin
<1> QED
  BY <1>2, <1>3, <1>5 DEF clients

LEMMA PersonaFound ==
  ASSUME NEW tree, Good(tree), NEW i \in DOMAIN Config(tree).Personas
  PROVE  /\ PersonaNamed(Config(tree), Config(tree).Personas[i].Name) = i
         /\ PersonaOfSubject(Config(tree), Config(tree).Personas[i].Subject) = i
<1> DEFINE personas == Config(tree).Personas
           I == {j \in 1..Len(personas) : personas[j].Name = personas[i].Name}
           J == {j \in 1..Len(personas) : personas[j].Subject = personas[i].Subject}
<1>1. PICK n \in Nat : Len(personas) = n /\ DOMAIN personas = 1..n
                       /\ \A j \in 1..n : GoodPersona(personas, j)
  BY GoodEntries
<1>2. PersonaNamed(Config(tree), personas[i].Name) = IF I # {} THEN Min(I) ELSE 0
  BY DEF PersonaNamed, SelectInSeq
<1>3. PersonaOfSubject(Config(tree), personas[i].Subject) = IF J # {} THEN Min(J) ELSE 0
  BY DEF PersonaOfSubject, SelectInSeq
<1>4. i \in 1..n /\ ~Seen(personas, i, "Name") /\ ~Seen(personas, i, "Subject")
  BY <1>1 DEF GoodPersona
<1>5. i \in I /\ I \subseteq 1..n /\ i \in J /\ J \subseteq 1..n
  BY <1>1, <1>4
<1> HIDE DEF personas
<1>6. (\A j \in 1..(i - 1) : j \notin I) /\ \A j \in 1..(i - 1) : j \notin J
  BY <1>4 DEF Seen
<1> HIDE DEF I, J
<1>7. Min(I) = i /\ Min(J) = i
  BY <1>5, <1>6, LeastIsMin
<1> QED
  BY <1>2, <1>3, <1>5, <1>7 DEF personas

(* In a file that loads no client or persona hides behind another.         *)
THEOREM EntriesAreFound == Spec => []EveryEntryIsFound
<1>1. FileInv => EveryEntryIsFound
  BY ClientFound, PersonaFound DEF FileInv, EveryEntryIsFound
<1> QED
  BY <1>1, FileInvariant, PTL

LEMMA GoodTimes ==
  ASSUME NEW tree, Good(tree)
  PROVE  Config(tree).TTL \in Nat \ {0} /\ Config(tree).IssuedAt \in Nat \union {LiveClock}
<1> DEFINE t == TokensOf(tree)
           ttl == Str(t, "ttl", "")
           at == Str(t, "issued_at", "")
<1>1. /\ ttl = "" \/ Lifetime(ttl)
      /\ at \in DOMAIN InstantOf \union {""}
  BY DEF Good, Readable, TimesRead
<1>2. Config(tree).TTL = DurationOf[IF ttl = "" THEN DefaultTTL ELSE ttl]
      /\ Config(tree).IssuedAt = IssuedAt(t)
  BY DEF Config
<1>3. IssuedAt(t) = IF at = "" THEN LiveClock ELSE InstantOf[at]
  BY DEF IssuedAt
<1> HIDE DEF t, ttl, at
<1>4. (\A d \in DOMAIN DurationOf : DurationOf[d] \in Int)
      /\ (\A s \in DOMAIN InstantOf : InstantOf[s] \in Nat)
      /\ DefaultTTL \in DOMAIN DurationOf /\ DurationOf[DefaultTTL] > 0
  BY FileAssumption
<1>5. Config(tree).TTL \in Nat \ {0}
  <2>1. CASE ttl = ""
    <3>1. DurationOf[DefaultTTL] \in Int
      BY <1>4
    <3>2. Config(tree).TTL = DurationOf[DefaultTTL]
      BY <1>2, <2>1
    <3> QED
      BY <1>4, <3>1, <3>2
  <2>2. CASE ttl # ""
    <3>1. ttl \in DOMAIN DurationOf /\ DurationOf[ttl] > 0
      BY <1>1, <2>2 DEF Lifetime
    <3>2. DurationOf[ttl] \in Int
      BY <1>4, <3>1
    <3>3. Config(tree).TTL = DurationOf[ttl]
      BY <1>2, <2>2
    <3> QED
      BY <3>1, <3>2, <3>3
  <2> QED
    BY <2>1, <2>2
<1>6. Config(tree).IssuedAt \in Nat \union {LiveClock}
  BY <1>1, <1>2, <1>3, <1>4
<1> QED
  BY <1>5, <1>6

LEMMA BoolRead ==
  ASSUME NEW m, NEW V, IsTreeOf(m, V), NEW key
  PROVE  Bool(m, key) \in BOOLEAN
<1>1. CASE Holds(m, key, "boolean")
  <2>1. Shaped(m[key]) /\ Is(m[key], "boolean")
    BY <1>1, TreeValues DEF Holds, Has
  <2> QED
    BY <1>1, <2>1, ShapeFacts DEF Bool
<1>2. CASE ~Holds(m, key, "boolean")
  BY <1>2 DEF Bool
<1> QED
  BY <1>1, <1>2

LEMMA StrsRead ==
  ASSUME NEW m, NEW V, IsTreeOf(m, V), NEW key, Has(m, key) => AllOf(m[key], "string")
  PROVE  Strs(m, key) \in Seq(STRING)
<1> DEFINE r == Strs(m, key)
<1>1. IsSeq(r) /\ \A i \in DOMAIN r : r[i] \in STRING
  BY StrsAbsent
<1> HIDE DEF r
<1>2. DOMAIN r = 1..Len(r) /\ Len(r) \in Nat /\ r \in Seq(ToSet(r))
  BY <1>1, SeqFacts DEF IsSeq
<1>3. r \in [1..Len(r) -> STRING]
  BY <1>1, <1>2
<1>4. r \in Seq(STRING)
  BY <1>2, <1>3, Listed
<1> QED
  BY <1>4 DEF r

LEMMA GoodPersonaTypes ==
  ASSUME NEW tree, Good(tree), NEW i \in DOMAIN Config(tree).Personas
  PROVE  /\ Config(tree).Personas[i].EmailVerified \in BOOLEAN
         /\ Config(tree).Personas[i].Groups \in Seq(STRING)
<1> DEFINE m == Tables(tree, "personas")[i]
<1>1. PICK V : Readable(tree, V)
  BY DEF Good
<1>2. i \in DOMAIN Tables(tree, "personas") /\ Config(tree).Personas[i] = PersonaOf(m)
  BY ConfigPersonas
<1>3. PersonaOf(m).EmailVerified = Bool(m, "email_verified")
      /\ PersonaOf(m).Groups = Strs(m, "groups")
  BY DEF PersonaOf
<1>4. IsTreeOf(m, V)
  BY <1>1, <1>2, EntryFacts
<1>5. Has(m, "groups") => AllOf(m["groups"], "string")
  BY <1>1, <1>2, EntryFacts, SchemaFacts, FitsString
<1> HIDE DEF m
<1> QED
  BY <1>2, <1>3, <1>4, <1>5, BoolRead, StrsRead

(* A file that loads gives the server values of the types it reads.        *)
THEOREM FileIsTyped == Spec => []FileTypeOK
<1>1. FileInv => FileTypeOK
  <2> SUFFICES ASSUME FileInv PROVE FileTypeOK
    OBVIOUS
  <2>1. edits \in 0..MaxEdits
    BY DEF FileInv
  <2>2. ASSUME report = Loaded, NEW p \in ToSet(Config(file).Personas)
        PROVE  p.EmailVerified \in BOOLEAN /\ p.Groups \in Seq(STRING)
    <3>1. PICK i \in DOMAIN Config(file).Personas : p = Config(file).Personas[i]
      BY DEF ToSet
    <3> QED
      BY <2>2, <3>1, GoodPersonaTypes DEF FileInv
  <2>3. report = Loaded => /\ Config(file).TTL \in Nat \ {0}
                           /\ Config(file).IssuedAt \in Nat \union {LiveClock}
    BY GoodTimes DEF FileInv
  <2> QED
    BY <2>1, <2>2, <2>3 DEF FileTypeOK
<1> QED
  BY <1>1, FileInvariant, PTL

LEMMA StrRead ==
  ASSUME NEW m, NEW V, IsTreeOf(m, V), NEW key
  PROVE  Str(m, key, "") \in STRING
<1>1. CASE Holds(m, key, "string")
  <2>1. Shaped(m[key]) /\ Is(m[key], "string")
    BY <1>1, TreeValues DEF Holds, Has
  <2> QED
    BY <1>1, <2>1, ShapeFacts DEF Str
<1>2. CASE ~Holds(m, key, "string")
  <2>1. Str(m, key, "") = ""
    BY <1>2 DEF Str
  <2>2. "" \in STRING
    BY FileAssumption
  <2> QED
    BY <2>1, <2>2
<1> QED
  BY <1>1, <1>2

GoodEntry(c) ==
  /\ c.ID \in STRING \ {""} /\ c.Secret \in STRING
  /\ ToSet(c.RedirectURIs) # {} /\ ToSet(c.RedirectURIs) \subseteq STRING \ {""}

LEMMA GoodClientTypes ==
  ASSUME NEW tree, Good(tree), NEW i \in DOMAIN Config(tree).Clients
  PROVE  GoodEntry(Config(tree).Clients[i])
<1> DEFINE m == Tables(tree, "clients")[i]
           c == Config(tree).Clients[i]
           uris == Strs(m, "redirect_uris")
<1>1. PICK V : Readable(tree, V)
  BY DEF Good
<1>2. i \in DOMAIN Tables(tree, "clients") /\ c = ClientOf(m)
  BY ConfigClients
<1>3. c.ID = Str(m, "client_id", "") /\ c.Secret = Str(m, "client_secret", "")
      /\ c.RedirectURIs = uris
  <2>1. /\ ClientOf(m).ID = Str(m, "client_id", "")
        /\ ClientOf(m).Secret = Str(m, "client_secret", "")
        /\ ClientOf(m).RedirectURIs = Strs(m, "redirect_uris")
    BY DEF ClientOf
  <2> HIDE DEF c
  <2> QED
    BY <1>2, <2>1
<1>4. IsTreeOf(m, V)
  BY <1>1, <1>2, EntryFacts
<1>5. Has(m, "redirect_uris") => AllOf(m["redirect_uris"], "string")
  BY <1>1, <1>2, EntryFacts, SchemaFacts, FitsString
<1>6. c.ID # "" /\ uris # <<>> /\ ToSet(uris) \subseteq AbsoluteURLs \ FragmentURLs
  BY <1>2, <1>3 DEF Good, Accepted, GoodClient
<1> HIDE DEF m, c
<1>7. c.ID \in STRING /\ c.Secret \in STRING
  BY <1>3, <1>4, StrRead
<1>8. IsSeq(uris) /\ \A n \in DOMAIN uris : uris[n] \in STRING
  BY <1>4, <1>5, StrsAbsent
<1> HIDE DEF uris
<1>9. ToSet(uris) # {}
  <2>1. DOMAIN uris # {}
    BY <1>6, <1>8, NoItems
  <2> QED
    BY <2>1 DEF ToSet
<1>10. ToSet(uris) \subseteq STRING
  BY <1>8 DEF ToSet
<1>11. "" \notin ToSet(uris)
  BY <1>6, FileAssumption
<1> QED
  BY <1>3, <1>6, <1>7, <1>9, <1>10, <1>11 DEF GoodEntry, c

LEMMA GoodDeployment ==
  ASSUME NEW tree, Good(tree)
  PROVE  Served(Config(tree))!ValidatedConfig
<1> DEFINE cfg == Config(tree)
           Ids == {c.ID : c \in ToSet(cfg.Clients)}
           Names == {p.Name : p \in ToSet(cfg.Personas)}
           Secrets == [id \in Ids |-> cfg.Clients[ClientWithId(cfg, id)].Secret]
           URIs == [id \in Ids |-> ToSet(cfg.Clients[ClientWithId(cfg, id)].RedirectURIs)]
<1>1. PICK m, n \in Nat : /\ DOMAIN cfg.Clients = 1..m /\ m > 0
                          /\ DOMAIN cfg.Personas = 1..n /\ n > 0
                          /\ \A i \in 1..n : GoodPersona(cfg.Personas, i)
  BY GoodEntries
<1>2. ASSUME NEW id \in Ids
      PROVE  \E i \in DOMAIN cfg.Clients : /\ id = cfg.Clients[i].ID
                                           /\ ClientWithId(cfg, id) = i
                                           /\ GoodEntry(cfg.Clients[i])
  <2>1. PICK i \in DOMAIN cfg.Clients : id = cfg.Clients[i].ID
    BY DEF ToSet
  <2> QED
    BY <2>1, ClientFound, GoodClientTypes
<1>3. Ids # {} /\ Names # {}
  <2>1. 1 \in DOMAIN cfg.Clients /\ 1 \in DOMAIN cfg.Personas
    BY <1>1
  <2> QED
    BY <2>1 DEF ToSet
<1>4. \A p \in Names : p \in STRING /\ p # ""
  <2> SUFFICES ASSUME NEW p \in Names PROVE p \in STRING /\ p # ""
    OBVIOUS
  <2>1. PICK i \in DOMAIN cfg.Personas : p = cfg.Personas[i].Name
    BY DEF ToSet
  <2>2. p # ""
    BY <1>1, <2>1 DEF GoodPersona
  <2>3. i \in DOMAIN Tables(tree, "personas")
        /\ cfg.Personas[i].Name = Str(Tables(tree, "personas")[i], "name", "")
    BY ConfigPersonas
  <2>4. PICK V : Readable(tree, V)
    BY DEF Good
  <2>5. IsTreeOf(Tables(tree, "personas")[i], V)
    BY <2>3, <2>4, EntryFacts
  <2> QED
    BY <2>1, <2>2, <2>3, <2>5, StrRead
<1> HIDE DEF cfg, Ids, Names
<1>5. \A id \in Ids : /\ id \in STRING /\ id # "" /\ Secrets[id] \in STRING
                      /\ URIs[id] # {} /\ \A uri \in URIs[id] : uri \in STRING /\ uri # ""
  BY <1>2 DEF GoodEntry
<1>6. Secrets \in [Ids -> STRING] /\ DOMAIN URIs = Ids
  BY <1>5
<1> HIDE DEF Secrets, URIs
<1>7. /\ Ids # {} /\ \A id \in Ids : id \in STRING /\ id # ""
      /\ Secrets \in [Ids -> STRING]
      /\ DOMAIN URIs = Ids
      /\ \A id \in Ids : URIs[id] # {} /\ \A uri \in URIs[id] : uri \in STRING /\ uri # ""
      /\ Names # {} /\ \A p \in Names : p \in STRING /\ p # ""
  BY <1>3, <1>4, <1>5, <1>6
<1> QED
  BY <1>7, Zenon DEF Served!ValidatedConfig, cfg, Ids, Names, Secrets, URIs

(* What the endpoints are proved about is what a file that loads gives:    *)
(* the assumption of their constants holds of its configuration.           *)
THEOREM LoadedFilesDeploy == Spec => []LoadedIsDeployable
<1>1. FileInv => LoadedIsDeployable
  BY GoodDeployment DEF FileInv, LoadedIsDeployable
<1> QED
  BY <1>1, FileInvariant, PTL

-------------------------------------------------------------------------------
(* What a file says in effect is what its configuration says.  For each    *)
(* key: whether it speaks, and what it says.                               *)
Speaks(place, k) ==
  /\ k \in DOMAIN place.m \ {"tokens", "clients", "personas"}
  /\ InEffect(place, k) \notin Defaults(k)

Means(place, k, spoken, value) ==
  (Speaks(place, k) <=> spoken) /\ (spoken => InEffect(place, k) = value)

LEMMA SameEffect ==
  ASSUME NEW p, NEW q, \A k : Speaks(p, k) <=> Speaks(q, k),
         \A k : Speaks(p, k) => InEffect(p, k) = InEffect(q, k)
  PROVE  Effect(p) = Effect(q)
<1> DEFINE P == {k \in DOMAIN p.m \ {"tokens", "clients", "personas"} :
                   InEffect(p, k) \notin Defaults(k)}
           Q == {k \in DOMAIN q.m \ {"tokens", "clients", "personas"} :
                   InEffect(q, k) \notin Defaults(k)}
<1>1. P = Q
  BY DEF Speaks
<1>2. \A k \in P : InEffect(p, k) = InEffect(q, k)
  BY DEF Speaks
<1>3. Effect(p) = [k \in P |-> InEffect(p, k)] /\ Effect(q) = [k \in Q |-> InEffect(q, k)]
  BY DEF Effect
<1> HIDE DEF P, Q
<1> QED
  BY <1>1, <1>2, <1>3

SpecialKeys ==
  {"ttl", "issued_at", "algorithm", "email_verified", "tokens", "clients", "personas"}

(* An empty text, array or table says nothing, under any key.              *)
Empties == {String(""), Array(<<>>), Table(EmptyTable)}

LEMMA InEmpties ==
  \A a : /\ String(a) \in Empties <=> a = ""
         /\ Array(a) \in Empties <=> a = <<>>
         /\ Table(a) \in Empties <=> a = EmptyTable
<1> TAKE a
<1>1. String(a) # Array(<<>>) /\ String(a) # Table(EmptyTable) /\ Array(a) # String("")
      /\ Array(a) # Table(EmptyTable) /\ Table(a) # String("") /\ Table(a) # Array(<<>>)
  BY DEF String, Array, Table
<1>2. /\ String(a) = String("") <=> a = ""
      /\ Array(a) = Array(<<>>) <=> a = <<>>
      /\ Table(a) = Table(EmptyTable) <=> a = EmptyTable
  BY ValuesDiffer
<1> QED
  BY <1>1, <1>2 DEF Empties

LEMMA PlainKey ==
  ASSUME NEW place, NEW k, k \notin SpecialKeys
  PROVE  /\ InEffect(place, k) = place.m[k]
         /\ Defaults(k) = Empties
         /\ Speaks(place, k) <=> /\ Has(place.m, k)
                                 /\ place.m[k] \notin Empties
<1>1. InEffect(place, k) = place.m[k]
  BY DEF InEffect, SpecialKeys
<1>2. Defaults(k) = Empties
  BY DEF Defaults, SpecialKeys, Empties
<1> QED
  BY <1>1, <1>2 DEF Speaks, Has, SpecialKeys

LEMMA StringMeans ==
  ASSUME NEW place, NEW V, IsTreeOf(place.m, V), NEW k, k \notin SpecialKeys,
         Has(place.m, k) => Is(place.m[k], "string")
  PROVE  Means(place, k, Str(place.m, k, "") # "", String(Str(place.m, k, "")))
<1> DEFINE m == place.m
<1>1. CASE ~Has(m, k)
  <2>1. Str(m, k, "") = ""
    BY <1>1 DEF Str, Holds
  <2>2. ~Speaks(place, k)
    BY <1>1, PlainKey
  <2> QED
    BY <2>1, <2>2 DEF Means
<1>2. CASE Has(m, k)
  <2> DEFINE s == m[k][2]
  <2>1. m[k] = String(s) /\ Str(m, k, "") = s
    <3>1. Shaped(m[k]) /\ Is(m[k], "string")
      BY <1>2, TreeValues DEF Has
    <3> QED
      BY <1>2, <3>1, ShapeFacts DEF Str, Holds
  <2>2. InEffect(place, k) = m[k]
        /\ (Speaks(place, k) <=> m[k] \notin Empties)
    BY <1>2, PlainKey
  <2> HIDE DEF s
  <2>3. Speaks(place, k) <=> s # ""
    BY <2>1, <2>2, InEmpties
  <2> QED
    BY <2>1, <2>2, <2>3 DEF Means
<1> QED
  BY <1>1, <1>2

(* Arrays of strings that give the same list are the same.                 *)
Quoted(r) == Array([i \in DOMAIN r |-> String(r[i])])

LEMMA StringsMean ==
  ASSUME NEW place, NEW V, IsTreeOf(place.m, V), NEW k, k \notin SpecialKeys,
         Has(place.m, k) => AllOf(place.m[k], "string")
  PROVE  Means(place, k, Strs(place.m, k) # <<>>, Quoted(Strs(place.m, k)))
<1> DEFINE m == place.m
<1>1. CASE ~Has(m, k)
  <2>1. Strs(m, k) = <<>>
    BY <1>1 DEF Strs
  <2>2. ~Speaks(place, k)
    BY <1>1, PlainKey
  <2> QED
    BY <2>1, <2>2 DEF Means
<1>2. CASE Has(m, k)
  <2> DEFINE s == m[k][2]
             r == Strs(m, k)
  <2>1. m[k] \in V /\ Shaped(m[k]) /\ Is(m[k], "array")
    BY <1>2, TreeValues DEF Has, AllOf
  <2>2. m[k] = Array(s) /\ IsSeq(s)
    BY <2>1, ShapeFacts
  <2>3. r = [i \in DOMAIN s |-> s[i][2]]
    BY <1>2 DEF Strs
  <2>4. \A i \in DOMAIN s : s[i] \in Within(m[k])
    BY <2>1 DEF Within, Is
  <2>5. \A i \in DOMAIN s : s[i] = String(s[i][2])
    <3> SUFFICES ASSUME NEW i \in DOMAIN s PROVE s[i] = String(s[i][2])
      OBVIOUS
    <3>1. Shaped(s[i]) /\ Is(s[i], "string")
      BY <1>2, <2>1, <2>4 DEF IsTreeOf, AreValues, AllOf
    <3> QED
      BY <3>1, ShapeFacts
  <2>6. InEffect(place, k) = m[k]
        /\ (Speaks(place, k) <=> m[k] \notin Empties)
    BY <1>2, PlainKey
  <2>7. r = <<>> <=> s = <<>>
    <3>1. IsSeq(r)
      BY StrsAbsent
    <3>2. DOMAIN r = DOMAIN s
      BY <2>3
    <3> HIDE DEF r, s
    <3> QED
      BY <2>2, <3>1, <3>2, NoItems
  <2>8. s = [i \in DOMAIN r |-> String(r[i])]
    <3>1. s = [i \in DOMAIN s |-> s[i]]
      <4>1. s \in Seq(ToSet(s)) /\ DOMAIN s = 1..Len(s)
        BY <2>2, SeqFacts DEF IsSeq
      <4> HIDE DEF s
      <4> QED
        BY <4>1
    <3>2. DOMAIN r = DOMAIN s /\ \A i \in DOMAIN s : r[i] = s[i][2]
      BY <2>3
    <3> HIDE DEF r, s
    <3>3. \A i \in DOMAIN s : s[i] = String(r[i])
      BY <2>5, <3>2
    <3> QED
      BY <3>1, <3>2, <3>3
  <2> HIDE DEF r, s
  <2>9. Speaks(place, k) <=> r # <<>>
    BY <2>2, <2>6, <2>7, InEmpties
  <2>10. m[k] = Quoted(r)
    BY <2>2, <2>8 DEF Quoted
  <2> QED
    BY <2>6, <2>9, <2>10 DEF Means, r
<1> QED
  BY <1>1, <1>2

LEMMA UnknownSilent ==
  ASSUME NEW place, WellTyped(place), NEW k, k \notin DOMAIN Schema[place.kind]
  PROVE  ~Speaks(place, k)
BY DEF WellTyped, Speaks

TopMeans(tree, cfg) ==
  LET place == Top(tree) IN
  /\ Means(place, "issuer", cfg.Issuer # "", String(cfg.Issuer))
  /\ Means(place, "seed", cfg.Seed # "", String(cfg.Seed))
  /\ \A k : k \notin {"issuer", "seed"} => ~Speaks(place, k)

LEMMA TopEffect ==
  ASSUME NEW tree, Good(tree)
  PROVE  TopMeans(tree, Config(tree))
<1> DEFINE place == Top(tree)
<1>1. PICK V : Readable(tree, V)
  BY DEF Good
<1>2. /\ place \in Places(tree) /\ place.m = tree /\ place.kind = "top"
      /\ \A k \in DOMAIN Schema["top"] : Has(tree, k) => Fits(tree[k], Schema["top"][k])
  BY <1>1, TopFacts
<1>3. IsTreeOf(tree, V) /\ WellTyped(place)
  BY <1>1, <1>2 DEF Readable
<1> HIDE DEF place
<1>4. /\ Has(tree, "issuer") => Is(tree["issuer"], "string")
      /\ Has(tree, "seed") => Is(tree["seed"], "string")
  BY <1>2, SchemaFacts, FitsString
<1>5. "issuer" \notin SpecialKeys /\ "seed" \notin SpecialKeys
  BY DEF SpecialKeys
<1>6. Means(place, "issuer", Str(tree, "issuer", "") # "", String(Str(tree, "issuer", "")))
      /\ Means(place, "seed", Str(tree, "seed", "") # "", String(Str(tree, "seed", "")))
  BY <1>2, <1>3, <1>4, <1>5, StringMeans
<1>7. ASSUME NEW k, k \notin {"issuer", "seed"} PROVE ~Speaks(place, k)
  <2>1. CASE k \in {"tokens", "clients", "personas"}
    BY <2>1 DEF Speaks
  <2>2. CASE k \notin {"tokens", "clients", "personas"}
    <3>1. k \notin DOMAIN Schema[place.kind]
      BY <1>2, <1>7, <2>2, SchemaFacts
    <3> QED
      BY <1>3, <3>1, UnknownSilent
  <2> QED
    BY <2>1, <2>2
<1> QED
  BY <1>6, <1>7, ConfigFields DEF TopMeans, place

TokensMean(tree, cfg) ==
  LET place == TokensPlace(tree) IN
  /\ Means(place, "algorithm", cfg.Algorithm # "EdDSA", String(cfg.Algorithm))
  /\ Means(place, "rsa_key_file", cfg.RSAKeyFile # "", String(cfg.RSAKeyFile))
  /\ Means(place, "ttl", cfg.TTL # DurationOf[DefaultTTL], <<"duration", cfg.TTL>>)
  /\ Means(place, "issued_at", cfg.IssuedAt # LiveClock, <<"instant", cfg.IssuedAt>>)
  /\ \A k : k \notin {"algorithm", "rsa_key_file", "ttl", "issued_at"} => ~Speaks(place, k)

LEMMA StringHeld ==
  ASSUME NEW m, NEW V, IsTreeOf(m, V), NEW k, Has(m, k), Is(m[k], "string")
  PROVE  m[k] = String(m[k][2]) /\ \A def : Str(m, k, def) = m[k][2]
<1>1. Shaped(m[k])
  BY TreeValues DEF Has
<1> QED
  BY <1>1, ShapeFacts DEF Str, Holds

LEMMA AlgorithmMeans ==
  ASSUME NEW place, NEW V, IsTreeOf(place.m, V),
         Has(place.m, "algorithm") => Is(place.m["algorithm"], "string"),
         Str(place.m, "algorithm", "EdDSA") # ""
  PROVE  Means(place, "algorithm", Str(place.m, "algorithm", "EdDSA") # "EdDSA",
               String(Str(place.m, "algorithm", "EdDSA")))
<1> DEFINE m == place.m
           k == "algorithm"
<1>1. CASE ~Has(m, k)
  BY <1>1 DEF Means, Speaks, Has, Str, Holds
<1>2. CASE Has(m, k)
  <2> DEFINE s == m[k][2]
  <2>1. m[k] = String(s) /\ Str(m, k, "EdDSA") = s
    BY <1>2, StringHeld
  <2>2. InEffect(place, k) = m[k]
    BY DEF InEffect
  <2>3. Defaults(k) = Empties \union {String("EdDSA")}
    BY DEF Defaults, Empties
  <2> HIDE DEF s
  <2>4. Speaks(place, k) <=> s # "EdDSA"
    <3>1. s # ""
      BY <2>1
    <3> HIDE DEF k
    <3>2. m[k] \in Defaults(k) <=> s = "EdDSA"
      <4>1. String(s) \notin Empties
        BY <3>1, InEmpties
      <4>2. String(s) = String("EdDSA") <=> s = "EdDSA"
        BY ValuesDiffer
      <4> HIDE DEF m
      <4> QED
        BY <2>1, <2>3, <4>1, <4>2
    <3>3. k \notin {"tokens", "clients", "personas"}
      BY DEF k
    <3> QED
      BY <1>2, <2>2, <3>2, <3>3 DEF Speaks, Has
  <2> QED
    BY <2>1, <2>2, <2>4 DEF Means
<1> QED
  BY <1>1, <1>2

LEMMA TimesDiffer ==
  \A a, b : /\ <<"duration", a>> \notin Empties
            /\ <<"instant", a>> \notin Empties
            /\ <<"duration", a>> = <<"duration", b>> <=> a = b
BY DEF String, Array, Table, Empties

LEMMA LifetimeMeans ==
  ASSUME NEW place, NEW V, IsTreeOf(place.m, V),
         Has(place.m, "ttl") => Is(place.m["ttl"], "string"),
         Str(place.m, "ttl", "") = "" \/ Lifetime(Str(place.m, "ttl", "")),
         NEW ttl, ttl = DurationOf[IF Str(place.m, "ttl", "") = "" THEN DefaultTTL
                                   ELSE Str(place.m, "ttl", "")]
  PROVE  Means(place, "ttl", ttl # DurationOf[DefaultTTL], <<"duration", ttl>>)
<1> DEFINE m == place.m
           k == "ttl"
<1>1. CASE ~Has(m, k)
  BY <1>1 DEF Means, Speaks, Has, Str, Holds
<1>2. CASE Has(m, k)
  <2> DEFINE s == m[k][2]
  <2>1. m[k] = String(s) /\ Str(m, k, "") = s
    BY <1>2, StringHeld
  <2>2. Defaults(k) = Empties
                      \union {<<"duration", DurationOf[DefaultTTL]>>}
    BY DEF Defaults, Empties
  <2>3. "" \notin DOMAIN DurationOf
    BY FileAssumption
  <2>4. CASE s = ""
    <3>0. m[k] \in Defaults(k)
      <4>1. String(s) \in Empties
        BY <2>4, InEmpties
      <4> HIDE DEF m, s, k
      <4> QED
        BY <2>1, <2>2, <4>1
    <3>1. InEffect(place, k) = m[k]
      BY <2>3, <2>4 DEF InEffect
    <3>2. ttl = DurationOf[DefaultTTL]
      BY <2>1, <2>4
    <3> QED
      BY <3>0, <3>1, <3>2 DEF Means, Speaks
  <2>5. CASE s # ""
    <3>1. s \in DOMAIN DurationOf
      BY <2>1, <2>5 DEF Lifetime
    <3>2. InEffect(place, k) = <<"duration", DurationOf[s]>>
      BY <3>1 DEF InEffect
    <3>3. ttl = DurationOf[s]
      BY <2>1, <2>5
    <3>4. InEffect(place, k) \in Defaults(k) <=> ttl = DurationOf[DefaultTTL]
      BY <2>2, <3>2, <3>3, TimesDiffer
    <3> QED
      BY <1>2, <3>2, <3>3, <3>4 DEF Means, Speaks, Has
  <2> QED
    BY <2>4, <2>5
<1> QED
  BY <1>1, <1>2

LEMMA InstantIsNotLive == \A n \in Nat : n # LiveClock
<1> TAKE n \in Nat
<1>1. n >= 0 /\ ~(-1 >= 0)
  OBVIOUS
<1>2. LiveClock = -1
  BY DEF LiveClock
<1>3. n # -1
  BY <1>1
<1> QED
  BY <1>2, <1>3

LEMMA InstantMeans ==
  ASSUME NEW place, NEW V, IsTreeOf(place.m, V),
         Has(place.m, "issued_at") => Is(place.m["issued_at"], "string"),
         Str(place.m, "issued_at", "") \in DOMAIN InstantOf \union {""}
  PROVE  Means(place, "issued_at", IssuedAt(place.m) # LiveClock, <<"instant", IssuedAt(place.m)>>)
<1> DEFINE m == place.m
           k == "issued_at"
           at == IssuedAt(m)
<1>0. at = IF Str(m, k, "") = "" THEN LiveClock ELSE InstantOf[Str(m, k, "")]
  BY DEF IssuedAt
<1> HIDE DEF at
<1>1. CASE ~Has(m, k)
  <2>1. at = LiveClock
    BY <1>0, <1>1 DEF Str, Holds
  <2> QED
    BY <1>1, <2>1 DEF Means, Speaks, Has, at
<1>2. CASE Has(m, k)
  <2> DEFINE s == m[k][2]
  <2>1. m[k] = String(s) /\ Str(m, k, "") = s
    BY <1>2, StringHeld
  <2>2. Defaults(k) = Empties
    BY DEF Defaults, Empties
  <2>3. "" \notin DOMAIN InstantOf /\ \A i \in DOMAIN InstantOf : InstantOf[i] \in Nat
    BY FileAssumption
  <2>4. CASE s = ""
    <3>0. m[k] \in Defaults(k)
      <4>1. String(s) \in Empties
        BY <2>4, InEmpties
      <4> HIDE DEF m, s, k
      <4> QED
        BY <2>1, <2>2, <4>1
    <3>1. InEffect(place, k) = m[k]
      BY <2>3, <2>4 DEF InEffect
    <3>2. at = LiveClock
      BY <1>0, <2>1, <2>4
    <3> QED
      BY <3>0, <3>1, <3>2 DEF Means, Speaks, at
  <2>5. CASE s # ""
    <3>1. s \in DOMAIN InstantOf
      BY <2>1, <2>5
    <3>2. InEffect(place, k) = <<"instant", InstantOf[s]>>
      BY <3>1 DEF InEffect
    <3>3. at = InstantOf[s] /\ at # LiveClock
      <4>1. at = InstantOf[s]
        BY <1>0, <2>1, <2>5
      <4>2. InstantOf[s] \in Nat
        BY <2>3, <3>1
      <4>3. \A n \in Nat : n # LiveClock
        BY InstantIsNotLive
      <4> HIDE DEF m, s, k
      <4> QED
        BY <4>1, <4>2, <4>3
    <3>4. InEffect(place, k) \notin Defaults(k)
      BY <2>2, <3>2, TimesDiffer
    <3> QED
      BY <1>2, <3>2, <3>3, <3>4 DEF Means, Speaks, Has, at
  <2> QED
    BY <2>4, <2>5
<1> QED
  BY <1>1, <1>2

LEMMA TokensEffect ==
  ASSUME NEW tree, Good(tree)
  PROVE  TokensMean(tree, Config(tree))
<1> DEFINE place == TokensPlace(tree)
           t == TokensOf(tree)
           cfg == Config(tree)
<1>1. PICK V : Readable(tree, V)
  BY DEF Good
<1>2. /\ place \in Places(tree) /\ place.kind = "tokens" /\ place.m = t
      /\ \A k \in DOMAIN Schema["tokens"] : Has(t, k) => Is(t[k], "string")
  BY <1>1, TokensFacts
<1>3. PICK W : IsTreeOf(t, W)
  BY <1>1, TokensFacts
<1>4. WellTyped(place) /\ TimesRead(tree)
  BY <1>1, <1>2 DEF Readable
<1>5. cfg.Algorithm = Str(t, "algorithm", "EdDSA") /\ cfg.RSAKeyFile = Str(t, "rsa_key_file", "")
  BY ConfigFields
<1>6. /\ cfg.TTL = DurationOf[IF Str(t, "ttl", "") = "" THEN DefaultTTL ELSE Str(t, "ttl", "")]
      /\ cfg.IssuedAt = IssuedAt(t)
  BY DEF Config
<1>7. cfg.Algorithm # ""
  BY DEF Good, Accepted, GoodTop
<1>8. /\ Str(t, "ttl", "") = "" \/ Lifetime(Str(t, "ttl", ""))
      /\ Str(t, "issued_at", "") \in DOMAIN InstantOf \union {""}
  BY <1>4 DEF TimesRead
<1> HIDE DEF place, t, cfg
<1>9. \A k \in {"algorithm", "rsa_key_file", "ttl", "issued_at"} : Has(t, k) => Is(t[k], "string")
  BY <1>2, SchemaFacts
<1>10. Means(place, "algorithm", cfg.Algorithm # "EdDSA", String(cfg.Algorithm))
  BY <1>2, <1>3, <1>5, <1>7, <1>9, AlgorithmMeans
<1>11. Means(place, "rsa_key_file", cfg.RSAKeyFile # "", String(cfg.RSAKeyFile))
  <2>1. "rsa_key_file" \notin SpecialKeys
    BY DEF SpecialKeys
  <2> QED
    BY <1>2, <1>3, <1>5, <1>9, <2>1, StringMeans
<1>12. Means(place, "ttl", cfg.TTL # DurationOf[DefaultTTL], <<"duration", cfg.TTL>>)
  BY <1>2, <1>3, <1>6, <1>8, <1>9, LifetimeMeans
<1>13. Means(place, "issued_at", cfg.IssuedAt # LiveClock, <<"instant", cfg.IssuedAt>>)
  BY <1>2, <1>3, <1>6, <1>8, <1>9, InstantMeans
<1>14. \A k : k \notin {"algorithm", "rsa_key_file", "ttl", "issued_at"} => ~Speaks(place, k)
  BY <1>2, <1>4, SchemaFacts, UnknownSilent
<1> QED
  BY <1>10, <1>11, <1>12, <1>13, <1>14 DEF TokensMean, place, cfg

ClientMeans(place, c) ==
  /\ Means(place, "client_id", c.ID # "", String(c.ID))
  /\ Means(place, "client_secret", c.Secret # "", String(c.Secret))
  /\ Means(place, "redirect_uris", c.RedirectURIs # <<>>, Quoted(c.RedirectURIs))
  /\ \A k : k \notin {"client_id", "client_secret", "redirect_uris"} => ~Speaks(place, k)

LEMMA ClientEffect ==
  ASSUME NEW tree, Good(tree), NEW i \in DOMAIN Tables(tree, "clients")
  PROVE  ClientMeans(EntryPlace(tree, "clients", i), Config(tree).Clients[i])
<1> DEFINE place == EntryPlace(tree, "clients", i)
           m == Tables(tree, "clients")[i]
           c == Config(tree).Clients[i]
<1>1. PICK V : Readable(tree, V)
  BY DEF Good
<1>2. /\ IsTreeOf(m, V) /\ place \in Places(tree) /\ place.kind = "clients" /\ place.m = m
      /\ \A k \in DOMAIN Schema["clients"] : Has(m, k) => Fits(m[k], Schema["clients"][k])
  BY <1>1, EntryFacts
<1>3. WellTyped(place)
  BY <1>1, <1>2 DEF Readable
<1>4. c.ID = Str(m, "client_id", "") /\ c.Secret = Str(m, "client_secret", "")
      /\ c.RedirectURIs = Strs(m, "redirect_uris")
  <2>1. c = ClientOf(m)
    BY ConfigClients
  <2>2. /\ ClientOf(m).ID = Str(m, "client_id", "")
        /\ ClientOf(m).Secret = Str(m, "client_secret", "")
        /\ ClientOf(m).RedirectURIs = Strs(m, "redirect_uris")
    BY DEF ClientOf
  <2> HIDE DEF c
  <2> QED
    BY <2>1, <2>2
<1> HIDE DEF place, m, c
<1>5. /\ Has(m, "client_id") => Is(m["client_id"], "string")
      /\ Has(m, "client_secret") => Is(m["client_secret"], "string")
      /\ Has(m, "redirect_uris") => AllOf(m["redirect_uris"], "string")
  BY <1>2, SchemaFacts, FitsString
<1>6. "client_id" \notin SpecialKeys /\ "client_secret" \notin SpecialKeys
      /\ "redirect_uris" \notin SpecialKeys
  BY DEF SpecialKeys
<1>7. Means(place, "client_id", c.ID # "", String(c.ID))
      /\ Means(place, "client_secret", c.Secret # "", String(c.Secret))
  BY <1>2, <1>4, <1>5, <1>6, StringMeans
<1>8. Means(place, "redirect_uris", c.RedirectURIs # <<>>, Quoted(c.RedirectURIs))
  BY <1>2, <1>4, <1>5, <1>6, StringsMean
<1>9. \A k : k \notin {"client_id", "client_secret", "redirect_uris"} => ~Speaks(place, k)
  BY <1>2, <1>3, SchemaFacts, UnknownSilent
<1> QED
  BY <1>7, <1>8, <1>9 DEF ClientMeans, place, c

PersonaMeans(place, p) ==
  /\ Means(place, "name", p.Name # "", String(p.Name))
  /\ Means(place, "subject", p.Subject # "", String(p.Subject))
  /\ Means(place, "email", p.Email # "", String(p.Email))
  /\ Means(place, "email_verified", p.EmailVerified = TRUE, Boolean(TRUE))
  /\ Means(place, "groups", p.Groups # <<>>, Quoted(p.Groups))
  /\ Means(place, "claims", p.Claims # EmptyTable, Table(p.Claims))
  /\ \A k : k \notin {"name", "subject", "email", "email_verified", "groups", "claims"}
              => ~Speaks(place, k)

LEMMA VerifiedMeans ==
  ASSUME NEW place, NEW V, IsTreeOf(place.m, V),
         Has(place.m, "email_verified") => Is(place.m["email_verified"], "boolean")
  PROVE  Means(place, "email_verified", Bool(place.m, "email_verified") = TRUE, Boolean(TRUE))
<1> DEFINE m == place.m
           k == "email_verified"
<1>1. CASE ~Has(m, k)
  BY <1>1 DEF Means, Speaks, Has, Bool, Holds
<1>2. CASE Has(m, k)
  <2> DEFINE b == m[k][2]
  <2>1. m[k] = Boolean(b) /\ b \in BOOLEAN /\ Bool(m, k) = b
    <3>1. Shaped(m[k]) /\ Is(m[k], "boolean")
      BY <1>2, TreeValues DEF Has
    <3> QED
      BY <1>2, <3>1, ShapeFacts DEF Bool, Holds
  <2>2. InEffect(place, k) = m[k]
    BY DEF InEffect
  <2>3. Defaults(k) = Empties \union {Boolean(FALSE)}
    BY DEF Defaults, Empties
  <2> HIDE DEF b
  <2>4. CASE b = TRUE
    <3>1. Boolean(TRUE) \notin Empties
      BY DEF Boolean, String, Array, Table, Empties
    <3>2. Boolean(TRUE) # Boolean(FALSE)
      BY DEF Boolean
    <3>3. m[k] \notin Defaults(k)
      BY <2>1, <2>3, <2>4, <3>1, <3>2
    <3> QED
      BY <1>2, <2>1, <2>2, <2>4, <3>3 DEF Means, Speaks, Has
  <2>5. CASE b = FALSE
    BY <2>1, <2>2, <2>3, <2>5 DEF Means, Speaks
  <2> QED
    BY <2>1, <2>4, <2>5
<1> QED
  BY <1>1, <1>2

LEMMA ClaimsMean ==
  ASSUME NEW place, NEW V, IsTreeOf(place.m, V),
         Has(place.m, "claims") => Is(place.m["claims"], "table"),
         NEW claims, claims = PersonaOf(place.m).Claims
  PROVE  Means(place, "claims", claims # EmptyTable, Table(claims))
<1> DEFINE m == place.m
           k == "claims"
<1>0. claims = IF Holds(m, k, "table") THEN m[k][2] ELSE EmptyTable
  BY DEF PersonaOf
<1>1. CASE ~Has(m, k)
  BY <1>0, <1>1 DEF Means, Speaks, Has, Holds
<1>2. CASE Has(m, k)
  <2>1. Shaped(m[k]) /\ Is(m[k], "table")
    BY <1>2, TreeValues DEF Has
  <2>2. m[k] = Table(claims)
    BY <1>0, <1>2, <2>1, ShapeFacts DEF Holds
  <2>3. "claims" \notin SpecialKeys
    BY DEF SpecialKeys
  <2>4. InEffect(place, k) = m[k]
        /\ (Speaks(place, k) <=> m[k] \notin Empties)
    BY <1>2, <2>3, PlainKey
  <2>5. Speaks(place, k) <=> claims # EmptyTable
    <3> HIDE DEF m, k
    <3> QED
      BY <2>2, <2>4, InEmpties
  <2> QED
    BY <2>2, <2>4, <2>5 DEF Means
<1> QED
  BY <1>1, <1>2

LEMMA PersonaEffect ==
  ASSUME NEW tree, Good(tree), NEW i \in DOMAIN Tables(tree, "personas")
  PROVE  PersonaMeans(EntryPlace(tree, "personas", i), Config(tree).Personas[i])
<1> DEFINE place == EntryPlace(tree, "personas", i)
           m == Tables(tree, "personas")[i]
           p == Config(tree).Personas[i]
<1>1. PICK V : Readable(tree, V)
  BY DEF Good
<1>2. /\ IsTreeOf(m, V) /\ place \in Places(tree) /\ place.kind = "personas" /\ place.m = m
      /\ \A k \in DOMAIN Schema["personas"] : Has(m, k) => Fits(m[k], Schema["personas"][k])
  BY <1>1, EntryFacts
<1>3. WellTyped(place)
  BY <1>1, <1>2 DEF Readable
<1>4. /\ p = PersonaOf(m)
      /\ p.Name = Str(m, "name", "") /\ p.Subject = Str(m, "subject", "")
      /\ p.Email = Str(m, "email", "") /\ p.EmailVerified = Bool(m, "email_verified")
      /\ p.Groups = Strs(m, "groups")
  <2>1. p = PersonaOf(m)
    BY ConfigPersonas
  <2>2. /\ PersonaOf(m).Name = Str(m, "name", "") /\ PersonaOf(m).Subject = Str(m, "subject", "")
        /\ PersonaOf(m).Email = Str(m, "email", "")
        /\ PersonaOf(m).EmailVerified = Bool(m, "email_verified")
        /\ PersonaOf(m).Groups = Strs(m, "groups")
    BY DEF PersonaOf
  <2> HIDE DEF p
  <2> QED
    BY <2>1, <2>2
<1> HIDE DEF place, m, p
<1>5. /\ \A k \in {"name", "subject", "email"} : Has(m, k) => Is(m[k], "string")
      /\ Has(m, "email_verified") => Is(m["email_verified"], "boolean")
      /\ Has(m, "groups") => AllOf(m["groups"], "string")
      /\ Has(m, "claims") => Is(m["claims"], "table")
  BY <1>2, SchemaFacts, FitsString
<1>6. \A k \in {"name", "subject", "email", "groups"} : k \notin SpecialKeys
  BY DEF SpecialKeys
<1>7. /\ Means(place, "name", p.Name # "", String(p.Name))
      /\ Means(place, "subject", p.Subject # "", String(p.Subject))
      /\ Means(place, "email", p.Email # "", String(p.Email))
  BY <1>2, <1>4, <1>5, <1>6, StringMeans
<1>8. Means(place, "groups", p.Groups # <<>>, Quoted(p.Groups))
  BY <1>2, <1>4, <1>5, <1>6, StringsMean
<1>9. Means(place, "email_verified", p.EmailVerified = TRUE, Boolean(TRUE))
  BY <1>2, <1>4, <1>5, VerifiedMeans
<1>10. Means(place, "claims", p.Claims # EmptyTable, Table(p.Claims))
  BY <1>2, <1>4, <1>5, ClaimsMean
<1>11. \A k : k \notin {"name", "subject", "email", "email_verified", "groups", "claims"}
                => ~Speaks(place, k)
  BY <1>2, <1>3, SchemaFacts, UnknownSilent
<1> QED
  BY <1>7, <1>8, <1>9, <1>10, <1>11 DEF PersonaMeans, place, p

(* Two places that mean the same have the same effect.                     *)
Agree(p, q, k) ==
  (Speaks(p, k) <=> Speaks(q, k)) /\ (Speaks(p, k) => InEffect(p, k) = InEffect(q, k))

LEMMA AgreeingEffect ==
  ASSUME NEW p, NEW q, NEW K, \A k \in K : Agree(p, q, k),
         \A k : k \notin K => ~Speaks(p, k) /\ ~Speaks(q, k)
  PROVE  Effect(p) = Effect(q)
<1>1. \A k : Agree(p, q, k)
  BY DEF Agree
<1> QED
  BY <1>1, SameEffect DEF Agree

LEMMA SameConfigSameEffect ==
  ASSUME NEW t, NEW u, Good(t), Good(u), Config(t) = Config(u)
  PROVE  /\ Effect(Top(t)) = Effect(Top(u))
         /\ Effect(TokensPlace(t)) = Effect(TokensPlace(u))
         /\ \A kind \in {"clients", "personas"} :
              /\ DOMAIN Tables(t, kind) = DOMAIN Tables(u, kind)
              /\ \A i \in DOMAIN Tables(t, kind) :
                   Effect(EntryPlace(t, kind, i)) = Effect(EntryPlace(u, kind, i))
<1>1. Effect(Top(t)) = Effect(Top(u))
  <2>1. TopMeans(t, Config(t)) /\ TopMeans(u, Config(t))
    BY TopEffect
  <2> DEFINE K == {"issuer", "seed"}
  <2>2. \A k \in K : Agree(Top(t), Top(u), k)
    BY <2>1 DEF TopMeans, Means, Agree
  <2>3. \A k : k \notin K => ~Speaks(Top(t), k) /\ ~Speaks(Top(u), k)
    BY <2>1 DEF TopMeans
  <2> HIDE DEF K
  <2> QED
    BY <2>2, <2>3, AgreeingEffect
<1>2. Effect(TokensPlace(t)) = Effect(TokensPlace(u))
  <2> DEFINE K == {"algorithm", "rsa_key_file", "ttl", "issued_at"}
  <2>1. TokensMean(t, Config(t)) /\ TokensMean(u, Config(t))
    BY TokensEffect
  <2>2. \A k \in K : Agree(TokensPlace(t), TokensPlace(u), k)
    BY <2>1 DEF TokensMean, Means, Agree
  <2>3. \A k : k \notin K => ~Speaks(TokensPlace(t), k) /\ ~Speaks(TokensPlace(u), k)
    BY <2>1 DEF TokensMean
  <2> HIDE DEF K
  <2> QED
    BY <2>2, <2>3, AgreeingEffect
<1>3. DOMAIN Tables(t, "clients") = DOMAIN Tables(u, "clients")
      /\ DOMAIN Tables(t, "personas") = DOMAIN Tables(u, "personas")
  BY ConfigClients, ConfigPersonas
<1>4. ASSUME NEW i \in DOMAIN Tables(t, "clients")
      PROVE  Effect(EntryPlace(t, "clients", i)) = Effect(EntryPlace(u, "clients", i))
  <2> DEFINE p == EntryPlace(t, "clients", i)
             q == EntryPlace(u, "clients", i)
             c == Config(t).Clients[i]
             K == {"client_id", "client_secret", "redirect_uris"}
  <2>1. ClientMeans(p, c) /\ ClientMeans(q, c)
    BY <1>3, ClientEffect
  <2> HIDE DEF p, q, c
  <2>2. \A k \in K : Agree(p, q, k)
    BY <2>1 DEF ClientMeans, Means, Agree
  <2>3. \A k : k \notin K => ~Speaks(p, k) /\ ~Speaks(q, k)
    BY <2>1 DEF ClientMeans
  <2> HIDE DEF K
  <2> QED
    BY <2>2, <2>3, AgreeingEffect DEF p, q
<1>5. ASSUME NEW i \in DOMAIN Tables(t, "personas")
      PROVE  Effect(EntryPlace(t, "personas", i)) = Effect(EntryPlace(u, "personas", i))
  <2> DEFINE p == EntryPlace(t, "personas", i)
             q == EntryPlace(u, "personas", i)
             c == Config(t).Personas[i]
             K == {"name", "subject", "email", "email_verified", "groups", "claims"}
  <2>1. PersonaMeans(p, c) /\ PersonaMeans(q, c)
    BY <1>3, PersonaEffect
  <2> HIDE DEF p, q, c
  <2>2. \A k \in K : Agree(p, q, k)
    BY <2>1 DEF PersonaMeans, Means, Agree
  <2>3. \A k : k \notin K => ~Speaks(p, k) /\ ~Speaks(q, k)
    BY <2>1 DEF PersonaMeans
  <2> HIDE DEF K
  <2> QED
    BY <2>2, <2>3, AgreeingEffect DEF p, q
<1> QED
  BY <1>1, <1>2, <1>3, <1>4, <1>5

LEMMA EffectsIncluded ==
  ASSUME NEW t, NEW u, Good(t), Good(u), Config(t) = Config(u)
  PROVE  Effects(t) \subseteq Effects(u)
<1> SUFFICES ASSUME NEW place \in Places(t) PROVE <<place.at, Effect(place)>> \in Effects(u)
  BY DEF Effects
<1>1. \A q \in Places(u) : q.at = place.at /\ Effect(q) = Effect(place)
        => <<place.at, Effect(place)>> \in Effects(u)
  BY DEF Effects
<1>2. CASE place = Top(t)
  BY <1>1, <1>2, SameConfigSameEffect, PlacesAre, PlaceParts DEF Top
<1>3. CASE place = TokensPlace(t)
  <2>1. TokensPlace(u) \in Places(u) /\ TokensPlace(u).at = place.at
    BY <1>3, PlacesAre, PlaceParts DEF TokensPlace
  <2> QED
    BY <1>1, <1>3, <2>1, SameConfigSameEffect
<1>4. ASSUME NEW kind \in {"clients", "personas"}, NEW i \in DOMAIN Tables(t, kind),
             place = EntryPlace(t, kind, i)
      PROVE  <<place.at, Effect(place)>> \in Effects(u)
  <2>1. i \in DOMAIN Tables(u, kind) /\ Effect(EntryPlace(u, kind, i)) = Effect(place)
    BY <1>4, SameConfigSameEffect
  <2>2. EntryPlace(u, kind, i) \in Places(u) /\ EntryPlace(u, kind, i).at = place.at
    BY <1>4, <2>1, PlacesAre, PlaceParts DEF EntryPlace
  <2> QED
    BY <1>1, <2>1, <2>2
<1> QED
  BY <1>2, <1>3, <1>4, PlacesAre

(* Whatever an edit changes in a file that loads again is seen by the      *)
(* server: two files that load and give one configuration say the same in  *)
(* effect.                                                                 *)
THEOREM EveryEditCounts == Spec => NoEditIgnored
<1> DEFINE Noticed == report' = Loaded /\ Effects(file) # Effects(before)
                        => Config(file) # Config(before)
<1>1. FileInv /\ [Next]_fileVars => [Noticed]_fileVars
  <2> SUFFICES ASSUME FileInv, Next, report' = Loaded, Config(file) = Config(before)
               PROVE  Effects(file) = Effects(before)
    OBVIOUS
  <2>1. Good(before)
    BY DEF FileInv
  <2>2. ASSUME NEW e \in Edits, Edit(e) PROVE FALSE
    BY <2>2, NotAFault DEF Edit
  <2>3. ASSUME NEW order \in ClaimOrders, LoadFile(order) PROVE Good(file)
    <3>1. report' = Verdict(file, order) /\ Meets(order, file)
      BY <2>3 DEF LoadFile
    <3>2. IsSeq(order)
      BY FileAssumption DEF IsSeq
    <3>3. PICK V : IsTreeOf(file, V)
      BY DEF FileInv, Made
    <3> QED
      BY <3>1, <3>2, <3>3, VerdictFacts, NotAFault
  <2>4. Good(file)
    BY <2>2, <2>3 DEF Next
  <2> QED
    BY <2>1, <2>4, EffectsIncluded
<1> QED
  BY <1>1, FileInvariant, PTL DEF Spec, NoEditIgnored

===============================================================================
