----------------------------- MODULE CommandProofs ----------------------------
(***************************************************************************)
(* What the commands of personad promise to whoever calls them from a      *)
(* script: for every disk, every edit of it and every sequence of          *)
(* commands.                                                               *)
(***************************************************************************)
EXTENDS CommandLine, AnswerProofs

-------------------------------------------------------------------------------
(* Ordered objects *)

(* The recursion of Keep is defined. *)
KeepOne(kept, name, set) == kept \o (IF name \in set THEN <<name>> ELSE <<>>)

IsKeeping(f, names, set, m) ==
  /\ IsFunctionOn(f, 0..m) /\ f[0] = <<>>
  /\ \A i \in 1..m : f[i] = KeepOne(f[i - 1], names[i], set)

LEMMA KeepingExists ==
  ASSUME NEW names, NEW set
  PROVE  \A m \in Nat : \E f : IsKeeping(f, names, set, m)
<1> DEFINE S == {m \in Nat : \E f : IsKeeping(f, names, set, m)}
<1>1. 0 \in S
  <2> DEFINE f == [i \in 0..0 |-> <<>>]
  <2>1. IsFunctionOn(f, 0..0) /\ f[0] = <<>>
    BY DEF IsFunctionOn
  <2> HIDE DEF f
  <2>2. IsKeeping(f, names, set, 0)
    BY <2>1 DEF IsKeeping
  <2> QED
    BY <2>2
<1>2. ASSUME NEW m \in Nat, m \in S PROVE m + 1 \in S
  <2>1. PICK f : IsKeeping(f, names, set, m)
    BY <1>2
  <2> DEFINE last == KeepOne(f[m], names[m + 1], set)
             g == [i \in 0..(m + 1) |-> IF i = m + 1 THEN last ELSE f[i]]
  <2>2. IsFunctionOn(g, 0..(m + 1)) /\ g[m + 1] = last /\ \A i \in 0..m : g[i] = f[i]
    <3> HIDE DEF last
    <3> QED
      BY DEF IsFunctionOn
  <2> HIDE DEF g
  <2>3. g[0] = <<>>
    BY <2>1, <2>2 DEF IsKeeping
  <2>4. ASSUME NEW i \in 1..(m + 1) PROVE g[i] = KeepOne(g[i - 1], names[i], set)
    <3>1. CASE i = m + 1
      <4>1. i - 1 = m /\ g[m] = f[m]
        BY <2>2, <3>1
      <4> QED
        BY <2>2, <3>1, <4>1
    <3>2. CASE i # m + 1
      <4>1. i \in 1..m /\ i \in 0..m /\ i - 1 \in 0..m
        BY <3>2
      <4>2. f[i] = KeepOne(f[i - 1], names[i], set)
        BY <2>1, <4>1 DEF IsKeeping
      <4> QED
        BY <2>2, <4>1, <4>2
    <3> QED
      BY <3>1, <3>2
  <2>5. IsKeeping(g, names, set, m + 1)
    BY <2>2, <2>3, <2>4 DEF IsKeeping
  <2> QED
    BY <2>5
<1> HIDE DEF S
<1>3. Nat \subseteq S
  BY <1>1, <1>2, Induction
<1> QED
  BY <1>3 DEF S

LEMMA KeepIsKeeping ==
  ASSUME NEW names, NEW set, Len(names) \in Nat
  PROVE  \E f : IsKeeping(f, names, set, Len(names)) /\ Keep(names, set) = f[Len(names)]
<1> DEFINE n == Len(names)
           Def(f) == [i \in 0..n |-> IF i = 0 THEN <<>> ELSE KeepOne(f[i - 1], names[i], set)]
<1>1. PICK f : IsKeeping(f, names, set, n)
  BY KeepingExists
<1>2. IsFunctionOn(Def(f), 0..n)
  BY DEF IsFunctionOn
<1>3. ASSUME NEW i \in 0..n PROVE f[i] = Def(f)[i]
  <2>1. CASE i = 0
    BY <1>1, <2>1 DEF IsKeeping
  <2>2. CASE i # 0
    BY <1>1, <2>2 DEF IsKeeping
  <2> QED
    BY <2>1, <2>2
<1>4. f = Def(f)
  <2> HIDE DEF Def
  <2> QED
    BY <1>1, <1>2, <1>3, SameFunction DEF IsKeeping
<1> DEFINE h == CHOOSE u : u = Def(u)
<1>5. Keep(names, set) = h[n]
  BY DEF Keep, KeepOne
<1>6. h = Def(h)
  <2> HIDE DEF Def
  <2> QED
    BY <1>4
<1> HIDE DEF h
<1>7. IsFunctionOn(h, 0..n)
  <2>1. IsFunctionOn(Def(h), 0..n)
    BY DEF IsFunctionOn
  <2> HIDE DEF Def
  <2> QED
    BY <1>6, <2>1
<1>8. ASSUME NEW i \in 0..n
      PROVE  h[i] = IF i = 0 THEN <<>> ELSE KeepOne(h[i - 1], names[i], set)
  <2>1. Def(h)[i] = IF i = 0 THEN <<>> ELSE KeepOne(h[i - 1], names[i], set)
    OBVIOUS
  <2> HIDE DEF Def
  <2> QED
    BY <1>6, <2>1
<1>9. IsKeeping(h, names, set, n)
  <2>1. h[0] = <<>>
    BY <1>8
  <2>2. ASSUME NEW i \in 1..n PROVE h[i] = KeepOne(h[i - 1], names[i], set)
    BY <1>8
  <2> QED
    BY <1>7, <2>1, <2>2 DEF IsKeeping
<1> QED
  BY <1>5, <1>9

(* The recursion of SetAll is defined. *)
SetOne(o, pair) == Set(o, pair[1], pair[2])

IsSetting(f, o, pairs, m) ==
  /\ IsFunctionOn(f, 0..m) /\ f[0] = o
  /\ \A i \in 1..m : f[i] = SetOne(f[i - 1], pairs[i])

LEMMA SettingExists ==
  ASSUME NEW o, NEW pairs
  PROVE  \A m \in Nat : \E f : IsSetting(f, o, pairs, m)
<1> DEFINE S == {m \in Nat : \E f : IsSetting(f, o, pairs, m)}
<1>1. 0 \in S
  <2> DEFINE f == [i \in 0..0 |-> o]
  <2>1. IsFunctionOn(f, 0..0) /\ f[0] = o
    BY DEF IsFunctionOn
  <2> HIDE DEF f
  <2>2. IsSetting(f, o, pairs, 0)
    BY <2>1 DEF IsSetting
  <2> QED
    BY <2>2
<1>2. ASSUME NEW m \in Nat, m \in S PROVE m + 1 \in S
  <2>1. PICK f : IsSetting(f, o, pairs, m)
    BY <1>2
  <2> DEFINE last == SetOne(f[m], pairs[m + 1])
             g == [i \in 0..(m + 1) |-> IF i = m + 1 THEN last ELSE f[i]]
  <2>2. IsFunctionOn(g, 0..(m + 1)) /\ g[m + 1] = last /\ \A i \in 0..m : g[i] = f[i]
    <3> HIDE DEF last
    <3> QED
      BY DEF IsFunctionOn
  <2> HIDE DEF g
  <2>3. g[0] = o
    BY <2>1, <2>2 DEF IsSetting
  <2>4. ASSUME NEW i \in 1..(m + 1) PROVE g[i] = SetOne(g[i - 1], pairs[i])
    <3>1. CASE i = m + 1
      <4>1. i - 1 = m /\ g[m] = f[m]
        BY <2>2, <3>1
      <4> QED
        BY <2>2, <3>1, <4>1
    <3>2. CASE i # m + 1
      <4>1. i \in 1..m /\ i \in 0..m /\ i - 1 \in 0..m
        BY <3>2
      <4>2. f[i] = SetOne(f[i - 1], pairs[i])
        BY <2>1, <4>1 DEF IsSetting
      <4> QED
        BY <2>2, <4>1, <4>2
    <3> QED
      BY <3>1, <3>2
  <2>5. IsSetting(g, o, pairs, m + 1)
    BY <2>2, <2>3, <2>4 DEF IsSetting
  <2> QED
    BY <2>5
<1> HIDE DEF S
<1>3. Nat \subseteq S
  BY <1>1, <1>2, Induction
<1> QED
  BY <1>3 DEF S

LEMMA SetAllIsSetting ==
  ASSUME NEW o, NEW pairs, Len(pairs) \in Nat
  PROVE  \E f : IsSetting(f, o, pairs, Len(pairs)) /\ SetAll(o, pairs) = f[Len(pairs)]
<1> DEFINE n == Len(pairs)
           Def(f) == [i \in 0..n |-> IF i = 0 THEN o ELSE SetOne(f[i - 1], pairs[i])]
<1>1. PICK f : IsSetting(f, o, pairs, n)
  BY SettingExists
<1>2. IsFunctionOn(Def(f), 0..n)
  BY DEF IsFunctionOn
<1>3. ASSUME NEW i \in 0..n PROVE f[i] = Def(f)[i]
  <2>1. CASE i = 0
    BY <1>1, <2>1 DEF IsSetting
  <2>2. CASE i # 0
    BY <1>1, <2>2 DEF IsSetting
  <2> QED
    BY <2>1, <2>2
<1>4. f = Def(f)
  <2> HIDE DEF Def
  <2> QED
    BY <1>1, <1>2, <1>3, SameFunction DEF IsSetting
<1> DEFINE h == CHOOSE u : u = Def(u)
<1>5. SetAll(o, pairs) = h[n]
  BY DEF SetAll, SetOne
<1>6. h = Def(h)
  <2> HIDE DEF Def
  <2> QED
    BY <1>4
<1> HIDE DEF h
<1>7. IsFunctionOn(h, 0..n)
  <2>1. IsFunctionOn(Def(h), 0..n)
    BY DEF IsFunctionOn
  <2> HIDE DEF Def
  <2> QED
    BY <1>6, <2>1
<1>8. ASSUME NEW i \in 0..n
      PROVE  h[i] = IF i = 0 THEN o ELSE SetOne(h[i - 1], pairs[i])
  <2>1. Def(h)[i] = IF i = 0 THEN o ELSE SetOne(h[i - 1], pairs[i])
    OBVIOUS
  <2> HIDE DEF Def
  <2> QED
    BY <1>6, <2>1
<1>9. IsSetting(h, o, pairs, n)
  <2>1. h[0] = o
    BY <1>8
  <2>2. ASSUME NEW i \in 1..n PROVE h[i] = SetOne(h[i - 1], pairs[i])
    BY <1>8
  <2> QED
    BY <1>7, <2>1, <2>2 DEF IsSetting
<1> QED
  BY <1>5, <1>9

(* What is kept of a sequence of names. *)
LEMMA Kept ==
  ASSUME NEW names, NEW set, IsSeq(names)
  PROVE  IsSeq(Keep(names, set)) /\ ToSet(Keep(names, set)) = ToSet(names) \intersect set
<1>1. DOMAIN names = 1..Len(names) /\ Len(names) \in Nat
  BY SeqFacts
<1>2. PICK f : IsKeeping(f, names, set, Len(names)) /\ Keep(names, set) = f[Len(names)]
  BY <1>1, KeepIsKeeping
<1> DEFINE Upto(n) == {names[i] : i \in 1..n} \intersect set
           S == {n \in Nat : n <= Len(names) => IsSeq(f[n]) /\ ToSet(f[n]) = Upto(n)}
<1>3. 0 \in S
  BY <1>2, EmptyList DEF IsKeeping
<1>4. ASSUME NEW n \in Nat, n \in S PROVE n + 1 \in S
  <2> SUFFICES ASSUME n + 1 <= Len(names)
               PROVE  IsSeq(f[n + 1]) /\ ToSet(f[n + 1]) = Upto(n + 1)
    OBVIOUS
  <2> DEFINE new == IF names[n + 1] \in set THEN <<names[n + 1]>> ELSE <<>>
  <2>1. IsSeq(f[n]) /\ ToSet(f[n]) = Upto(n)
    BY <1>1, <1>4
  <2>2. f[n + 1] = f[n] \o new
    <3>1. n + 1 \in 1..Len(names) /\ (n + 1) - 1 = n
      BY <1>1
    <3> QED
      BY <1>2, <3>1 DEF IsKeeping, KeepOne
  <2>3. IsSeq(new) /\ ToSet(new) = {names[n + 1]} \intersect set
    <3>1. CASE names[n + 1] \in set
      BY <3>1, OneItem
    <3>2. CASE names[n + 1] \notin set
      BY <3>2, EmptyList
    <3> QED
      BY <3>1, <3>2
  <2>4. 1..(n + 1) = (1..n) \union {n + 1}
    OBVIOUS
  <2>5. Upto(n + 1) = Upto(n) \union ({names[n + 1]} \intersect set)
    BY <2>4
  <2> HIDE DEF new
  <2> QED
    BY <2>1, <2>2, <2>3, <2>5, Joined
<1> HIDE DEF S
<1>5. Nat \subseteq S
  BY <1>3, <1>4, Induction
<1>6. Len(names) \in S
  BY <1>1, <1>5
<1>7. IsSeq(f[Len(names)]) /\ ToSet(f[Len(names)]) = Upto(Len(names))
  BY <1>1, <1>6 DEF S
<1>8. ToSet(names) = {names[i] : i \in 1..Len(names)}
  BY <1>1 DEF ToSet
<1> QED
  BY <1>2, <1>7, <1>8

(* An object is a sequence of pairs; setting one of them adds its name. *)
IsObject(o) == IsSeq(o) /\ \A pair \in ToSet(o) : pair = <<pair[1], pair[2]>>

LEMMA NamesOf == \A o : Names(o) = {pair[1] : pair \in ToSet(o)}
BY DEF Names, ToSet

LEMMA EmptyObject == IsObject(NewObj) /\ Names(NewObj) = {}
BY EmptyList, NamesOf DEF IsObject, NewObj

LEMMA SetPairs ==
  ASSUME NEW o, IsSeq(o), NEW key, NEW value
  PROVE  /\ IsSeq(Set(o, key, value))
         /\ ToSet(Set(o, key, value)) = {pair \in ToSet(o) : pair[1] # key} \union {<<key, value>>}
<1> DEFINE set == Set(o, key, value)
           pairs == {pair \in ToSet(o) : pair[1] # key} \union {<<key, value>>}
<1>1. DOMAIN o = 1..Len(o) /\ Len(o) \in Nat
  BY SeqFacts
<1>2. CASE key \in Names(o)
  <2>1. set = [i \in 1..Len(o) |-> IF o[i][1] = key THEN <<key, value>> ELSE o[i]]
    BY <1>1, <1>2 DEF Set
  <2> HIDE DEF set
  <2>2. DOMAIN set = 1..Len(o) /\ \A i \in 1..Len(o) : set[i] = IF o[i][1] = key THEN <<key, value>> ELSE o[i]
    BY <2>1
  <2>3. set \in [1..Len(o) -> ToSet(set)]
    BY <2>1, <2>2 DEF ToSet
  <2>4. IsSeq(set)
    BY <1>1, <2>3, Listed
  <2>5. ToSet(set) \subseteq pairs
    BY <1>1, <2>2 DEF ToSet
  <2>6. PICK k \in 1..Len(o) : o[k][1] = key
    BY <1>1, <1>2 DEF Names
  <2>7. <<key, value>> \in ToSet(set)
    BY <2>2, <2>6 DEF ToSet
  <2>8. ASSUME NEW pair \in ToSet(o), pair[1] # key PROVE pair \in ToSet(set)
    <3>1. PICK i \in 1..Len(o) : o[i] = pair
      BY <1>1 DEF ToSet
    <3> QED
      BY <2>2, <2>8, <3>1 DEF ToSet
  <2> QED
    BY <2>4, <2>5, <2>7, <2>8 DEF set
<1>3. CASE key \notin Names(o)
  <2>1. set = Append(o, <<key, value>>)
    BY <1>3 DEF Set
  <2>2. Append(o, <<key, value>>) = o \o << <<key, value>> >>
    <3> DEFINE C == ToSet(o) \union {<<key, value>>}
    <3>1. o \in Seq(C) /\ <<key, value>> \in C
      BY DEF IsSeq
    <3> HIDE DEF C
    <3> QED
      BY <3>1, SMTT(30), ZenonT(30)
  <2>3. /\ IsSeq(o \o << <<key, value>> >>)
        /\ ToSet(o \o << <<key, value>> >>) = ToSet(o) \union {<<key, value>>}
    BY OneItem, Joined
  <2>4. \A pair \in ToSet(o) : pair[1] # key
    BY <1>3, NamesOf
  <2> QED
    BY <2>1, <2>2, <2>3, <2>4
<1> QED
  BY <1>2, <1>3

LEMMA SetObject ==
  ASSUME NEW o, IsObject(o), NEW key, NEW value
  PROVE  IsObject(Set(o, key, value)) /\ Names(Set(o, key, value)) = Names(o) \union {key}
<1>1. /\ IsSeq(Set(o, key, value))
      /\ ToSet(Set(o, key, value)) = {pair \in ToSet(o) : pair[1] # key} \union {<<key, value>>}
  BY SetPairs DEF IsObject
<1>2. IsObject(Set(o, key, value))
  BY <1>1 DEF IsObject
<1>3. \A p, n : n \in Names(p) <=> \E pair \in ToSet(p) : pair[1] = n
  BY NamesOf
<1>4. ASSUME NEW n
      PROVE  n \in Names(Set(o, key, value)) <=> n = key \/ n \in Names(o)
  <2>1. n \in Names(Set(o, key, value)) <=> \E pair \in ToSet(Set(o, key, value)) : pair[1] = n
    BY <1>3
  <2>2. n \in Names(o) <=> \E pair \in ToSet(o) : pair[1] = n
    BY <1>3
  <2>3. CASE n = key
    <3>1. <<key, value>> \in ToSet(Set(o, key, value)) /\ <<key, value>>[1] = key
      BY <1>1
    <3> QED
      BY <2>1, <2>3, <3>1
  <2>4. CASE n # key
    <3>1. <<key, value>>[1] # n
      BY <2>4
    <3> QED
      BY <1>1, <2>1, <2>2, <2>4, <3>1
  <2> QED
    BY <2>3, <2>4
<1> QED
  BY <1>2, <1>4

(* An object says of each of its names what a map says. *)
Says(o, m) == \A pair \in ToSet(o) : pair[2] = m[pair[1]]

(* The pairs that are set one after the other. *)
LEMMA AllSet ==
  ASSUME NEW o, IsObject(o), NEW pairs, IsObject(pairs)
  PROVE  /\ IsObject(SetAll(o, pairs))
         /\ Names(SetAll(o, pairs)) = Names(o) \union Names(pairs)
         /\ \A m : Says(o, m) /\ Says(pairs, m) => Says(SetAll(o, pairs), m)
<1>1. DOMAIN pairs = 1..Len(pairs) /\ Len(pairs) \in Nat
  BY SeqFacts DEF IsObject
<1>2. PICK f : IsSetting(f, o, pairs, Len(pairs)) /\ SetAll(o, pairs) = f[Len(pairs)]
  BY <1>1, SetAllIsSetting
<1> DEFINE Upto(n) == Names(o) \union {pairs[i][1] : i \in 1..n}
           Said(p) == \A m : Says(o, m) /\ Says(pairs, m) => Says(p, m)
           S == {n \in Nat : n <= Len(pairs) => IsObject(f[n]) /\ Names(f[n]) = Upto(n) /\ Said(f[n])}
<1>3. 0 \in S
  <2>1. f[0] = o
    BY <1>2 DEF IsSetting
  <2> QED
    BY <2>1
<1>4. ASSUME NEW n \in Nat, n \in S PROVE n + 1 \in S
  <2> SUFFICES ASSUME n + 1 <= Len(pairs)
               PROVE  IsObject(f[n + 1]) /\ Names(f[n + 1]) = Upto(n + 1) /\ Said(f[n + 1])
    OBVIOUS
  <2> DEFINE key == pairs[n + 1][1]
             value == pairs[n + 1][2]
  <2>1. IsObject(f[n]) /\ Names(f[n]) = Upto(n) /\ Said(f[n])
    BY <1>1, <1>4
  <2>2. n + 1 \in 1..Len(pairs) /\ pairs[n + 1] \in ToSet(pairs)
    BY <1>1 DEF ToSet
  <2>3. f[n + 1] = Set(f[n], key, value)
    <3>1. (n + 1) - 1 = n
      OBVIOUS
    <3> QED
      BY <1>2, <2>2, <3>1 DEF IsSetting, SetOne
  <2>4. IsObject(f[n + 1]) /\ Names(f[n + 1]) = Names(f[n]) \union {key}
    BY <2>1, <2>3, SetObject
  <2>5. 1..(n + 1) = (1..n) \union {n + 1}
    OBVIOUS
  <2>6. Upto(n + 1) = Upto(n) \union {key}
    BY <2>5
  <2>7. ASSUME NEW m, Says(o, m), Says(pairs, m) PROVE Says(f[n + 1], m)
    <3>1. Says(f[n], m)
      BY <2>1, <2>7
    <3>2. value = m[key]
      BY <2>2, <2>7 DEF Says
    <3>3. ToSet(f[n + 1]) = {pair \in ToSet(f[n]) : pair[1] # key} \union {<<key, value>>}
      BY <2>1, <2>3, SetPairs DEF IsObject
    <3> QED
      BY <3>1, <3>2, <3>3 DEF Says
  <2> HIDE DEF Upto
  <2> QED
    BY <2>1, <2>4, <2>6, <2>7
<1> HIDE DEF S
<1>5. Nat \subseteq S
  BY <1>3, <1>4, Induction
<1>6. Len(pairs) \in S
  BY <1>1, <1>5
<1>7. IsObject(f[Len(pairs)]) /\ Names(f[Len(pairs)]) = Upto(Len(pairs)) /\ Said(f[Len(pairs)])
  BY <1>1, <1>6 DEF S
<1>8. Names(pairs) = {pairs[i][1] : i \in 1..Len(pairs)}
  BY <1>1 DEF Names
<1> QED
  BY <1>2, <1>7, <1>8

(* What an object says of a name is what the map says. *)
LEMMA SaidIsMap ==
  ASSUME NEW o, NEW m, Says(o, m), NEW n \in Names(o)
  PROVE  Get(o, n) = m[n]
<1>1. \E pair \in ToSet(o) : pair[1] = n
  BY NamesOf
<1>2. (CHOOSE pair \in ToSet(o) : pair[1] = n) \in ToSet(o) /\ (CHOOSE pair \in ToSet(o) : pair[1] = n)[1] = n
  BY <1>1
<1> DEFINE chosen == CHOOSE pair \in ToSet(o) : pair[1] = n
<1>3. Get(o, n) = chosen[2] /\ chosen \in ToSet(o) /\ chosen[1] = n
  BY <1>2 DEF Get
<1> HIDE DEF chosen
<1> QED
  BY <1>3 DEF Says

-------------------------------------------------------------------------------
(* Maps and the orders in which Go walks them *)

(* A sequence that holds every name: NameOrder, and a walk of a map. *)
IsOrder(walk) == IsSeq(walk) /\ ToSet(walk) = ToSet(NameOrder)

LEMMA NameOrderIsOrder == IsOrder(NameOrder) /\ \A walk \in Walks : IsOrder(walk)
<1>1. IsSeq(NameOrder)
  BY CommandAssumption, MadeSeq
<1>2. ASSUME NEW walk \in Walks PROVE IsSeq(walk) /\ ToSet(walk) = ToSet(NameOrder)
  <2>1. walk \in Seq(STRING) /\ ToSet(walk) = ToSet(NameOrder)
    BY CommandAssumption
  <2> QED
    BY <2>1, MadeSeq
<1> QED
  BY <1>1, <1>2 DEF IsOrder

(* A map's names, sorted, do not depend on the walk. *)
InOrder(S) == Keep(NameOrder, S \intersect ToSet(NameOrder))

LEMMA SortedWalk ==
  ASSUME NEW walk, IsOrder(walk), NEW S
  PROVE  /\ Sorted(Keep(walk, S)) = InOrder(S)
         /\ IsSeq(InOrder(S)) /\ ToSet(InOrder(S)) = S \intersect ToSet(NameOrder)
<1>1. ToSet(Keep(walk, S)) = S \intersect ToSet(NameOrder)
  BY Kept DEF IsOrder
<1>2. IsSeq(NameOrder)
  BY NameOrderIsOrder DEF IsOrder
<1> QED
  BY <1>1, <1>2, Kept DEF Sorted, InOrder

(* The pairs of a map, in the order of its names. *)
PairsOf(m) == [i \in DOMAIN InOrder(DOMAIN m) |-> <<InOrder(DOMAIN m)[i], m[InOrder(DOMAIN m)[i]]>>]

LEMMA SetSortedPairs ==
  ASSUME NEW o, NEW m, NEW walk, IsOrder(walk)
  PROVE  /\ SetSorted(o, m, walk) = SetAll(o, PairsOf(m))
         /\ IsObject(PairsOf(m)) /\ Says(PairsOf(m), m)
         /\ Names(PairsOf(m)) = DOMAIN m \intersect ToSet(NameOrder)
<1> DEFINE names == InOrder(DOMAIN m)
           pairs == [i \in DOMAIN names |-> <<names[i], m[names[i]]>>]
<1>1. Sorted(Walked(m, walk)) = names /\ IsSeq(names) /\ ToSet(names) = DOMAIN m \intersect ToSet(NameOrder)
  BY SortedWalk DEF Walked
<1>2. SetSorted(o, m, walk) = SetAll(o, pairs) /\ PairsOf(m) = pairs
  BY <1>1, Zenon DEF SetSorted, PairsOf
<1> HIDE DEF names
<1>3. DOMAIN names = 1..Len(names) /\ Len(names) \in Nat
  BY <1>1, SeqFacts
<1>4. /\ pairs = [i \in 1..Len(names) |-> pairs[i]] /\ DOMAIN pairs = 1..Len(names)
      /\ \A i \in 1..Len(names) : pairs[i] = <<names[i], m[names[i]]>>
  BY <1>3
<1> HIDE DEF pairs
<1>5. pairs \in [1..Len(names) -> ToSet(pairs)]
  BY <1>4 DEF ToSet
<1>6. IsSeq(pairs)
  BY <1>3, <1>5, Listed
<1>7. ASSUME NEW pair \in ToSet(pairs) PROVE pair = <<pair[1], pair[2]>> /\ pair[2] = m[pair[1]]
  <2>1. PICK i \in 1..Len(names) : pair = <<names[i], m[names[i]]>>
    BY <1>4 DEF ToSet
  <2> QED
    BY <2>1
<1>8. Names(pairs) = ToSet(names)
  BY <1>3, <1>4 DEF Names, ToSet
<1>9. IsObject(pairs) /\ Says(pairs, m)
  BY <1>6, <1>7 DEF IsObject, Says
<1> QED
  BY <1>1, <1>2, <1>8, <1>9

-------------------------------------------------------------------------------
(* The invariant.  How far a process is says what it has loaded; while its *)
(* folder is not saved to, that is what the folder holds. *)

FlagsPass(r) == Passes(FlagChecks(r.argv, r.path))

ConfigIn(found, name) ==
  IF name \in DOMAIN found /\ found[name].kind = "config" THEN found[name].cfg ELSE NoConfig

(* The key of a configuration whose key file, if any, is beside it. *)
KeyFileIn(found, parts) ==
  IF Len(parts) = 1 /\ parts[1] \in DOMAIN found
  THEN found[parts[1]] ELSE [kind |-> "none"]

KeyIn(found, cfg) ==
  IF cfg.Algorithm # "RS256" THEN NewEdSigner(cfg.Seed)
  ELSE LET file == KeyFileIn(found, cfg.RSAKeyFile.parts)
       IN IF file.kind = "pem" /\ LoadsRSAPEM(file) THEN RSASigner(file) ELSE NoKey

HasNothing(r) == r.cfg = NoConfig /\ r.key = NoKey

HasConfig(r) == GoodConfig(r.cfg) /\ (~r.torn => r.cfg = ConfigIn(r.found, FileName(r)))

HasKey(r) ==
  /\ HasConfig(r)
  /\ r.key.alg = r.cfg.Algorithm
  /\ ~r.torn /\ KeyIsBeside(r) => r.key = KeyIn(r.found, r.cfg)

LacksKey(r) ==
  /\ HasConfig(r)
  /\ r.cfg.Algorithm = "RS256" /\ r.key = NoKey

Stage(p) ==
  \/ p.pc = "flags" /\ HasNothing(p)
  \/ p.pc = "config" /\ FlagsPass(p) /\ HasNothing(p)
  \/ p.pc = "key" /\ FlagsPass(p) /\ LacksKey(p)
  \/ p.pc = "work" /\ FlagsPass(p) /\ HasKey(p)
  \/ /\ p.pc = "serving" /\ FlagsPass(p) /\ HasKey(p)
     /\ p.argv.cmd = "serve" /\ Passes(ServeChecks(p.argv))

Process(p) == {"pc", "argv", "cwd", "path", "found", "torn", "cfg", "key"} \subseteq DOMAIN p

(* A token that was printed, one damaged, or none. *)
Given(t) == t \in {NoToken} \union Printed \union Damaged

Running(p) ==
  /\ Process(p) /\ Stage(p)
  /\ p.cwd \in Seq(STRING) /\ IsFilePath(p.path)
  /\ ~p.torn => p.found = Folder(Resolve(p.cwd, p.path))
  /\ Given(p.argv.token)

(* How a run has ended, by what it had loaded. *)
RefusedByFlags(r) ==
  /\ ~FlagsPass(r) /\ HasNothing(r)
  /\ r.exit = FirstFailure(FlagChecks(r.argv, r.path)) /\ r.stdout = FlagOutput(r.argv)

NoConfigFound(r) ==
  /\ FlagsPass(r) /\ HasNothing(r) /\ r.exit = Fails /\ r.stdout = <<>>
  /\ ~r.torn => ConfigIn(r.found, FileName(r)) = NoConfig

NoKeyFound(r) ==
  /\ FlagsPass(r) /\ LacksKey(r) /\ r.exit = Fails /\ r.stdout = <<>>
  /\ ~r.torn /\ KeyIsBeside(r) => KeyIn(r.found, r.cfg) = NoKey

RefusedByCommand(r) ==
  LET checks == CommandChecks(r.argv, r.cfg, r.key) IN
  /\ FlagsPass(r) /\ HasKey(r)
  /\ ~Passes(checks) /\ r.exit = FirstFailure(checks) /\ r.stdout = <<>>

Done(r) ==
  /\ FlagsPass(r) /\ HasKey(r)
  /\ Passes(CommandChecks(r.argv, r.cfg, r.key)) /\ r.argv.cmd # "serve" /\ r.exit = OK
  /\ \E walk \in Walks : r.stdout = Stdout(r.argv, r.cfg, r.key, r.clock, walk)

Served(r) ==
  /\ FlagsPass(r) /\ HasKey(r)
  /\ r.argv.cmd = "serve" /\ Passes(ServeChecks(r.argv)) /\ r.exit = Fails

Ended(r) ==
  \/ RefusedByFlags(r) \/ NoConfigFound(r) \/ NoKeyFound(r)
  \/ RefusedByCommand(r) \/ Done(r) \/ Served(r)

Ran(r) == IsFilePath(r.path) /\ Ended(r)

GoodDisk ==
  \A folder \in DOMAIN disk : \A name \in DOMAIN disk[folder] : GoodFile(disk[folder][name])

CommandInv ==
  /\ IsSeq(runs) /\ GoodDisk
  /\ proc = Idle \/ Running(proc)
  /\ \A i \in DOMAIN runs : Ran(runs[i]) /\ Given(runs[i].argv.token)

-------------------------------------------------------------------------------
(* Paths *)

LEMMA PathFields ==
  \A abs, parts : Path(abs, parts).abs = abs /\ Path(abs, parts).parts = parts
BY DEF Path

LEMMA LastOfJoined ==
  ASSUME NEW s \in Seq(STRING), NEW t \in Seq(STRING), t # <<>>
  PROVE  s \o t \in Seq(STRING) /\ s \o t # <<>> /\ Last(s \o t) = Last(t)
<1>1. /\ s \o t \in Seq(STRING) /\ Len(s \o t) = Len(s) + Len(t)
      /\ \A i \in 1..Len(t) : (s \o t)[Len(s) + i] = t[i]
  BY ConcatProperties
<1>2. Len(t) \in 1..Len(t) /\ Len(s) \in Nat
  BY EmptySeq
<1>3. Len(s) + Len(t) # 0
  BY <1>2
<1> QED
  BY <1>1, <1>2, <1>3, EmptySeq DEF Last

(* Where a path leads ends with its last part. *)
LEMMA Resolved ==
  ASSUME NEW cwd \in Seq(STRING), NEW path, IsFilePath(path), path # NoPath
  PROVE  /\ Resolve(cwd, path) \in Seq(STRING) /\ Resolve(cwd, path) # <<>>
         /\ Last(Resolve(cwd, path)) = Last(path.parts)
<1>1. path.parts \in Seq(STRING) /\ path.parts # <<>>
  BY DEF IsFilePath, IsPath
<1> QED
  BY <1>1, LastOfJoined DEF Resolve

(* A file is where its folder has its name. *)
LEMMA FoundInFolder ==
  ASSUME NEW at \in Seq(STRING), at # <<>>
  PROVE  /\ Exists(at) => Last(at) \in DOMAIN Folder(at) /\ File(at) = Folder(at)[Last(at)]
         /\ Last(at) \in DOMAIN Folder(at) => Exists(at)
<1>1. CASE Len(at) = 2 /\ at[1] \in DOMAIN disk
  BY <1>1 DEF Exists, File, Folder, Last
<1>2. CASE ~(Len(at) = 2 /\ at[1] \in DOMAIN disk)
  <2>1. DOMAIN Folder(at) = {}
    BY <1>2 DEF Folder
  <2> QED
    BY <1>2, <2>1 DEF Exists
<1> QED
  BY <1>1, <1>2

(* A relative path of a key leads to the folder of the persona file. *)
LEMMA FrontJoined ==
  ASSUME NEW s \in Seq(STRING), s # <<>>, NEW t \in Seq(STRING)
  PROVE  /\ Front(s) \o t \in Seq(STRING) /\ Len(Front(s) \o t) = Len(s) - 1 + Len(t)
         /\ \A i \in 1..(Len(s) - 1) : (Front(s) \o t)[i] = s[i]
         /\ \A i \in 1..Len(t) : (Front(s) \o t)[Len(s) - 1 + i] = t[i]
<1>1. Len(s) \in Nat /\ Len(s) # 0 /\ Len(t) \in Nat
  BY EmptySeq
<1>2. /\ Front(s) \in Seq(STRING) /\ Len(Front(s)) = Len(s) - 1
      /\ \A i \in 1..(Len(s) - 1) : Front(s)[i] = s[i]
  <2>1. \A i \in 1..(Len(s) - 1) : s[i] \in STRING
    BY <1>1
  <2>2. /\ SubSeq(s, 1, Len(s) - 1) \in Seq(STRING)
        /\ Len(SubSeq(s, 1, Len(s) - 1)) = IF 1 <= Len(s) - 1 THEN Len(s) - 1 - 1 + 1 ELSE 0
        /\ \A i \in 1..(Len(s) - 1 - 1 + 1) : SubSeq(s, 1, Len(s) - 1)[i] = s[1 + i - 1]
    BY <1>1, <2>1, SubSeqProperties
  <2> DEFINE sub == SubSeq(s, 1, Len(s) - 1)
  <2>3. Front(s) = sub
    BY DEF Front
  <2>4. sub \in Seq(STRING) /\ Len(sub) = Len(s) - 1
    <3> DEFINE n == Len(s)
    <3>1. n \in Nat /\ n # 0 /\ sub \in Seq(STRING) /\ Len(sub) = IF 1 <= n - 1 THEN n - 1 - 1 + 1 ELSE 0
      BY <1>1, <2>2
    <3> HIDE DEF n, sub
    <3>2. (IF 1 <= n - 1 THEN n - 1 - 1 + 1 ELSE 0) = n - 1
      BY <3>1
    <3> QED
      BY <3>1, <3>2 DEF n
  <2>5. ASSUME NEW i \in 1..(Len(s) - 1) PROVE sub[i] = s[i]
    <3>1. i \in 1..(Len(s) - 1 - 1 + 1) /\ 1 + i - 1 = i
      BY <1>1
    <3> QED
      BY <2>2, <3>1
  <2> HIDE DEF sub
  <2> QED
    BY <2>3, <2>4, <2>5
<1> HIDE DEF Front
<1> DEFINE front == Front(s)
<1>3. /\ front \o t \in Seq(STRING) /\ Len(front \o t) = Len(front) + Len(t)
      /\ \A i \in 1..Len(front) : (front \o t)[i] = front[i]
      /\ \A i \in 1..Len(t) : (front \o t)[Len(front) + i] = t[i]
  <2>1. front \in Seq(STRING)
    BY <1>2
  <2> HIDE DEF front
  <2> QED
    BY <2>1, ConcatProperties
<1>4. Len(front) = Len(s) - 1 /\ \A i \in 1..(Len(s) - 1) : front[i] = s[i]
  BY <1>2
<1> HIDE DEF front
<1> QED
  BY <1>1, <1>3, <1>4 DEF front

LEMMA Sums ==
  /\ \A q \in Nat : q # 1 => 1 + q # 2
  /\ \A c, p, q \in Nat : /\ c + (p - 1 + q) = c + p - 1 + q
                         /\ \A i \in Nat : c + (p - 1 + i) = c + p - 1 + i
OBVIOUS

LEMMA KeyPathParts ==
  ASSUME NEW cwd \in Seq(STRING), NEW path, IsFilePath(path), path # NoPath,
         NEW key, IsPath(key), ~key.abs
  PROVE  LET at == Resolve(cwd, path)
             k  == Resolve(cwd, KeyPath(path, key))
         IN /\ k \in Seq(STRING) /\ Len(k) = Len(at) - 1 + Len(key.parts)
            /\ \A i \in 1..(Len(at) - 1) : k[i] = at[i]
            /\ \A i \in 1..Len(key.parts) : k[Len(at) - 1 + i] = key.parts[i]
<1> DEFINE at == Resolve(cwd, path)
           k == Resolve(cwd, KeyPath(path, key))
           tail == Front(path.parts) \o key.parts
<1>1. path.parts \in Seq(STRING) /\ path.parts # <<>> /\ key.parts \in Seq(STRING)
  BY DEF IsFilePath, IsPath
<1>2. KeyPath(path, key) = Path(path.abs, tail)
  BY PathFields DEF KeyPath, Join, Dir
<1>3. k = IF path.abs THEN tail ELSE cwd \o tail
  BY <1>2, PathFields DEF Resolve
<1>4. at = IF path.abs THEN path.parts ELSE cwd \o path.parts
  BY DEF Resolve
<1>5. /\ tail \in Seq(STRING) /\ Len(tail) = Len(path.parts) - 1 + Len(key.parts)
      /\ \A i \in 1..(Len(path.parts) - 1) : tail[i] = path.parts[i]
      /\ \A i \in 1..Len(key.parts) : tail[Len(path.parts) - 1 + i] = key.parts[i]
  BY <1>1, FrontJoined
<1> HIDE DEF tail, at, k
<1>6. CASE path.abs
  BY <1>3, <1>4, <1>5, <1>6 DEF at, k
<1>7. CASE ~path.abs
  <2>1. /\ k \in Seq(STRING) /\ Len(k) = Len(cwd) + Len(tail)
        /\ \A i \in 1..Len(cwd) : k[i] = cwd[i]
        /\ \A i \in 1..Len(tail) : k[Len(cwd) + i] = tail[i]
    <3>1. k = cwd \o tail /\ tail \in Seq(STRING)
      BY <1>3, <1>5, <1>7
    <3> QED
      BY <3>1, ConcatProperties
  <2>2. /\ Len(at) = Len(cwd) + Len(path.parts)
        /\ \A i \in 1..Len(cwd) : at[i] = cwd[i]
        /\ \A i \in 1..Len(path.parts) : at[Len(cwd) + i] = path.parts[i]
    BY <1>1, <1>4, <1>7, ConcatProperties
  <2>3. Len(cwd) \in Nat /\ Len(path.parts) \in Nat /\ Len(key.parts) \in Nat /\ Len(path.parts) # 0
    BY <1>1, EmptySeq
  <2> DEFINE c == Len(cwd)
             p == Len(path.parts)
             q == Len(key.parts)
  <2>7. Len(tail) = p - 1 + q /\ Len(at) = c + p /\ Len(k) = c + Len(tail)
    BY <1>5, <2>1, <2>2
  <2>8. c \in Nat /\ p \in Nat /\ q \in Nat /\ p # 0
    BY <2>3
  <2> HIDE DEF c, p, q
  <2>4. ASSUME NEW i \in 1..(Len(at) - 1) PROVE k[i] = at[i]
    <3>1. CASE i <= Len(cwd)
      BY <2>1, <2>2, <2>3, <3>1
    <3>2. CASE i > Len(cwd)
      <4> DEFINE j == i - Len(cwd)
      <4>1. j \in 1..(Len(path.parts) - 1) /\ Len(cwd) + j = i
        BY <2>2, <2>3, <3>2
      <4>2. j \in 1..Len(tail) /\ j \in 1..Len(path.parts)
        BY <2>7, <2>8, <4>1, SMTT(30), ZenonT(30) DEF p
      <4> HIDE DEF j
      <4> QED
        BY <1>5, <2>1, <2>2, <4>1, <4>2
    <3> QED
      BY <2>2, <2>3, <3>1, <3>2
  <2>5. ASSUME NEW i \in 1..Len(key.parts) PROVE k[Len(at) - 1 + i] = key.parts[i]
    <3> DEFINE j == Len(path.parts) - 1 + i
    <3>1. i \in 1..q /\ i \in Nat
      BY <2>8 DEF q
    <3>2. j = p - 1 + i /\ j \in 1..(p - 1 + q)
      BY <2>8, <3>1 DEF p
    <3>3. j \in 1..Len(tail) /\ Len(cwd) + j = Len(at) - 1 + i
      <4>1. c + (p - 1 + i) = c + p - 1 + i
        BY <2>8, <3>1, Sums
      <4>2. Len(tail) = p - 1 + q /\ Len(at) = c + p
        BY <2>7
      <4> HIDE DEF j
      <4>3. c + j = Len(at) - 1 + i
        BY <2>8, <3>1, <3>2, <4>1, <4>2
      <4> QED
        BY <3>2, <4>2, <4>3 DEF c
    <3>4. tail[j] = key.parts[i]
      BY <1>5
    <3> HIDE DEF j
    <3> QED
      BY <2>1, <3>3, <3>4
  <2>6. Len(k) = Len(at) - 1 + Len(key.parts)
    <3>1. Len(k) = c + (p - 1 + q)
      BY <2>7
    <3>2. c + (p - 1 + q) = c + p - 1 + q
      BY <2>8, Sums
    <3>3. Len(k) = Len(at) - 1 + q
      BY <2>7, <2>8, <3>1, <3>2
    <3> QED
      BY <3>3 DEF q
  <2> QED
    BY <2>1, <2>4, <2>5, <2>6 DEF at, k
<1> QED
  BY <1>6, <1>7

LEMMA KeyBeside ==
  ASSUME NEW cwd \in Seq(STRING), NEW path, IsFilePath(path), path # NoPath,
         NEW key, IsPath(key), ~key.abs, Exists(Resolve(cwd, path))
  PROVE  LET found == Folder(Resolve(cwd, path))
             k     == Resolve(cwd, KeyPath(path, key))
         IN /\ Exists(k) <=> (Len(key.parts) = 1 /\ key.parts[1] \in DOMAIN found)
            /\ Exists(k) => File(k) = KeyFileIn(found, key.parts)
<1> DEFINE at == Resolve(cwd, path)
           found == Folder(at)
           k == Resolve(cwd, KeyPath(path, key))
<1>1. Len(at) = 2 /\ at[1] \in DOMAIN disk /\ found = disk[at[1]]
  BY DEF Exists, Folder
<1>2. /\ k \in Seq(STRING) /\ Len(k) = 1 + Len(key.parts) /\ k[1] = at[1]
      /\ \A i \in 1..Len(key.parts) : k[1 + i] = key.parts[i]
  <2>1. /\ k \in Seq(STRING) /\ Len(k) = Len(at) - 1 + Len(key.parts)
        /\ \A i \in 1..(Len(at) - 1) : k[i] = at[i]
        /\ \A i \in 1..Len(key.parts) : k[Len(at) - 1 + i] = key.parts[i]
    BY KeyPathParts
  <2>2. 1 \in 1..(Len(at) - 1) /\ Len(at) - 1 = 1
    BY <1>1
  <2> HIDE DEF at, k
  <2> QED
    BY <2>1, <2>2
<1>3. Len(key.parts) \in Nat
  BY DEF IsPath
<1> HIDE DEF at, found, k
<1>4. CASE Len(key.parts) = 1
  <2>1. Len(k) = 2 /\ k[2] = key.parts[1]
    BY <1>2, <1>4
  <2>2. Exists(k) <=> key.parts[1] \in DOMAIN found
    BY <1>1, <1>2, <2>1 DEF Exists
  <2>3. Exists(k) => File(k) = found[key.parts[1]]
    BY <1>1, <1>2, <2>1 DEF File
  <2> QED
    BY <1>4, <2>2, <2>3 DEF KeyFileIn, at, found, k
<1>5. CASE Len(key.parts) # 1
  <2>1. Len(k) = 1 + Len(key.parts)
    BY <1>2
  <2>2. Len(k) # 2
    BY <1>3, <1>5, <2>1, Sums, Zenon
  <2> QED
    BY <1>5, <2>2 DEF Exists, at, found, k
<1> QED
  BY <1>4, <1>5

-------------------------------------------------------------------------------
(* What the checks of a command say *)

LEMMA GoodIsConfig == \A cfg : GoodConfig(cfg) => cfg # NoConfig
<1>1. NoConfig.Algorithm = ""
  BY DEF NoConfig
<1>2. "" # "EdDSA" /\ "" # "RS256"
  OBVIOUS
<1> QED
  BY <1>1, <1>2 DEF GoodConfig

LEMMA FlagsSay ==
  ASSUME NEW r
  PROVE  /\ FlagsPass(r) => r.path # NoPath /\ r.argv.cmd \in ConfigCommands
         /\ ~FlagsPass(r) => FirstFailure(FlagChecks(r.argv, r.path)) \in {OK, Usage}
<1> DEFINE a == r.argv
           checks == FlagChecks(a, r.path)
<1>1. DOMAIN checks = 1..6 /\ \A i \in 1..6 : checks[i].answer \in {OK, Usage}
  BY DEF FlagChecks, Check
<1>2. /\ checks[2].fails = (a.cmd \notin ConfigCommands)
      /\ checks[6].fails = (r.path = NoPath)
  BY DEF FlagChecks, Check
<1>3. FlagsPass(r) <=> Passes(checks)
  BY DEF FlagsPass
<1> HIDE DEF checks
<1>4. ASSUME FlagsPass(r) PROVE r.path # NoPath /\ a.cmd \in ConfigCommands
  <2>1. Passes(checks)
    BY <1>3, <1>4
  <2>2. 2 \in DOMAIN checks /\ 6 \in DOMAIN checks
    BY <1>1
  <2>3. ~checks[2].fails /\ ~checks[6].fails
    BY <2>1, <2>2, PassesEach
  <2> QED
    BY <1>2, <2>3
<1>5. ASSUME ~FlagsPass(r) PROVE FirstFailure(checks) \in {OK, Usage}
  <2>1. PICK i \in Failing(checks) : FirstFailure(checks) = checks[i].answer
    BY <1>1, <1>3, <1>5, FirstFailing
  <2> QED
    BY <1>1, <2>1 DEF Failing
<1> QED
  BY <1>4, <1>5 DEF checks

LEMMA CheckFields ==
  \A f, x : Check(f, x).fails = f /\ Check(f, x).answer = x
BY DEF Check

LEMMA TwoChecks ==
  ASSUME NEW f, NEW g, NEW x, NEW y
  PROVE  LET checks == <<Check(f, x), Check(g, y)>>
         IN /\ Passes(checks) <=> ~f /\ ~g
            /\ ~Passes(checks) => FirstFailure(checks) \in {x, y}
<1> DEFINE checks == <<Check(f, x), Check(g, y)>>
<1>1. /\ DOMAIN checks = 1..2 /\ checks[1].fails = f /\ checks[2].fails = g
      /\ checks[1].answer = x /\ checks[2].answer = y
  BY DEF Check
<1> HIDE DEF checks
<1>2. Passes(checks) <=> ~f /\ ~g
  BY <1>1 DEF Passes
<1>3. ASSUME ~Passes(checks) PROVE FirstFailure(checks) \in {x, y}
  <2>1. PICK i \in Failing(checks) : FirstFailure(checks) = checks[i].answer
    BY <1>1, <1>3, FirstFailing
  <2>2. i = 1 \/ i = 2
    BY <1>1, <2>1 DEF Failing
  <2> QED
    BY <1>1, <2>1, <2>2
<1> QED
  BY <1>2, <1>3 DEF checks

LEMMA ConfigCheckList ==
  ASSUME NEW at
  PROVE  /\ Passes(ConfigChecks(at)) <=> Exists(at) /\ File(at).kind = "config"
         /\ ~Passes(ConfigChecks(at)) => FirstFailure(ConfigChecks(at)) = Fails
<1> DEFINE f == ~Exists(at)
           g == Exists(at) /\ File(at).kind # "config"
<1>1. ConfigChecks(at) = <<Check(f, Fails), Check(g, Fails)>>
  BY DEF ConfigChecks
<1> HIDE DEF f, g
<1>2. /\ Passes(ConfigChecks(at)) <=> ~f /\ ~g
      /\ ~Passes(ConfigChecks(at)) => FirstFailure(ConfigChecks(at)) \in {Fails, Fails}
  BY <1>1, TwoChecks
<1> QED
  BY <1>2 DEF f, g

LEMMA KeyCheckList ==
  ASSUME NEW at
  PROVE  /\ Passes(KeyChecks(at)) <=> Exists(at) /\ File(at).kind = "pem" /\ LoadsRSAPEM(File(at))
         /\ ~Passes(KeyChecks(at)) => FirstFailure(KeyChecks(at)) = Fails
<1> DEFINE f == ~Exists(at)
           g == Exists(at) /\ (File(at).kind # "pem" \/ ~LoadsRSAPEM(File(at)))
<1>1. KeyChecks(at) = <<Check(f, Fails), Check(g, Fails)>>
  BY DEF KeyChecks
<1> HIDE DEF f, g
<1>2. /\ Passes(KeyChecks(at)) <=> ~f /\ ~g
      /\ ~Passes(KeyChecks(at)) => FirstFailure(KeyChecks(at)) \in {Fails, Fails}
  BY <1>1, TwoChecks
<1> QED
  BY <1>2 DEF f, g

-------------------------------------------------------------------------------
(* The steps *)

LEMMA AddedRun ==
  ASSUME NEW s, IsSeq(s), NEW r
  PROVE  /\ IsSeq(Append(s, r)) /\ Len(Append(s, r)) = Len(s) + 1
         /\ DOMAIN Append(s, r) = DOMAIN s \union {Len(s) + 1}
         /\ \A i \in DOMAIN s : Append(s, r)[i] = s[i]
         /\ Append(s, r)[Len(s) + 1] = r
<1> DEFINE C == ToSet(s) \union {r}
<1>1. s \in Seq(C) /\ r \in C
  BY DEF IsSeq
<1> HIDE DEF C
<1>2. /\ Append(s, r) \in Seq(C) /\ Len(Append(s, r)) = Len(s) + 1
      /\ \A i \in 1..Len(s) : Append(s, r)[i] = s[i]
      /\ Append(s, r)[Len(s) + 1] = r
  BY <1>1
<1>3. IsSeq(Append(s, r))
  BY <1>2, MadeSeq
<1>4. DOMAIN s = 1..Len(s) /\ Len(s) \in Nat
  BY SeqFacts
<1>5. DOMAIN Append(s, r) = 1..(Len(s) + 1)
  BY <1>2, <1>3, SeqFacts
<1>6. 1..(Len(s) + 1) = 1..Len(s) \union {Len(s) + 1}
  BY <1>4
<1> QED
  BY <1>2, <1>3, <1>4, <1>5, <1>6

(* What was printed stays printed. *)
LEMMA GivenStays ==
  ASSUME IsSeq(runs), NEW r, runs' = Append(runs, r), NEW t, Given(t)
  PROVE  Given(t)'
<1>1. DOMAIN runs' = DOMAIN runs \union {Len(runs) + 1} /\ \A i \in DOMAIN runs : runs'[i] = runs[i]
  BY AddedRun
<1>2. ASSUME NEW i \in Minted PROVE i \in Minted' /\ runs'[i] = runs[i]
  BY <1>1 DEF Minted
<1>3. Printed \subseteq Printed'
  BY <1>2 DEF Printed
<1>4. Damaged \subseteq Damaged'
  BY <1>3 DEF Damaged
<1> QED
  BY <1>3, <1>4 DEF Given

LEMMA GivenKept ==
  ASSUME runs' = runs
  PROVE  \A t : Given(t)' <=> Given(t)
BY DEF Given, Printed, Damaged, Minted

LEMMA ResultFields ==
  ASSUME NEW code, NEW out
  PROVE  LET r == Result(code, out)
         IN /\ r.argv = proc.argv /\ r.path = proc.path /\ r.found = proc.found /\ r.torn = proc.torn
            /\ r.cfg = proc.cfg /\ r.key = proc.key /\ r.clock = clock
            /\ r.exit = code /\ r.stdout = out
BY DEF Result

LEMMA ExitKeeps ==
  ASSUME CommandInv, proc # Idle, NEW code, NEW out, Exit(code, out), Ended(Result(code, out))
  PROVE  CommandInv'
<1> DEFINE r == Result(code, out)
<1>1. Running(proc) /\ IsSeq(runs) /\ GoodDisk
  BY DEF CommandInv
<1>2. proc' = Idle /\ runs' = Append(runs, r) /\ disk' = disk
  BY DEF Exit
<1>3. Ended(r) /\ r.argv = proc.argv /\ r.path = proc.path
  BY ResultFields
<1> HIDE DEF r
<1>4. Ran(r) /\ Given(r.argv.token)
  BY <1>1, <1>3 DEF Ran, Running
<1>5. /\ IsSeq(runs') /\ DOMAIN runs' = DOMAIN runs \union {Len(runs) + 1}
      /\ \A i \in DOMAIN runs : runs'[i] = runs[i]
      /\ runs'[Len(runs) + 1] = r
  BY <1>1, <1>2, AddedRun
<1>6. ASSUME NEW i \in DOMAIN runs' PROVE Ran(runs'[i]) /\ Given(runs[i].argv.token)'
  <2>1. PICK t : t = runs'[i].argv.token
    OBVIOUS
  <2>2. Ran(runs'[i]) /\ Given(t)
    BY <1>4, <1>5, <2>1 DEF CommandInv
  <2>3. Given(t)'
    BY <1>1, <1>2, <2>2, GivenStays
  <2> QED
    BY <2>1, <2>2, <2>3 DEF Given
<1>7. GoodDisk'
  BY <1>1, <1>2 DEF GoodDisk
<1> QED
  BY <1>2, <1>5, <1>6, <1>7 DEF CommandInv

Moved(p, pc, cfg, key) == [p EXCEPT !.pc = pc, !.cfg = cfg, !.key = key]

LEMMA Went ==
  ASSUME NEW p, Process(p), NEW pc, NEW cfg, NEW key, NEW q, q = Moved(p, pc, cfg, key)
  PROVE  /\ Process(q) /\ q.pc = pc /\ q.cfg = cfg /\ q.key = key
         /\ q.argv = p.argv /\ q.cwd = p.cwd /\ q.path = p.path
         /\ q.found = p.found /\ q.torn = p.torn
<1>1. Process(q)
  BY DEF Process, Moved
<1>2. q.pc = pc /\ q.cfg = cfg /\ q.key = key
  BY DEF Process, Moved
<1>3. q.argv = p.argv /\ q.cwd = p.cwd /\ q.path = p.path
  BY DEF Process, Moved
<1>4. q.found = p.found /\ q.torn = p.torn
  BY DEF Process, Moved
<1> QED
  BY <1>1, <1>2, <1>3, <1>4

LEMMA GoOnKeeps ==
  ASSUME CommandInv, proc # Idle, NEW pc, NEW cfg, NEW key, GoOn(pc, cfg, key), Stage(proc')
  PROVE  CommandInv'
<1>1. Running(proc) /\ Process(proc)
  BY DEF CommandInv, Running
<1>2. /\ proc' = Moved(proc, pc, cfg, key)
      /\ disk' = disk /\ runs' = runs
  BY DEF GoOn, Moved
<1>3. /\ Process(proc') /\ proc'.argv = proc.argv /\ proc'.cwd = proc.cwd /\ proc'.path = proc.path
      /\ proc'.found = proc.found /\ proc'.torn = proc.torn
  BY <1>1, <1>2, Went
<1>4. ASSUME NEW at PROVE Folder(at)' = Folder(at)
  BY <1>2 DEF Folder
<1>5. /\ Process(proc') /\ Stage(proc') /\ proc'.cwd \in Seq(STRING) /\ IsFilePath(proc'.path)
      /\ Given(proc.argv.token)'
  BY <1>1, <1>2, <1>3, GivenKept DEF Running
<1>6. ~proc'.torn => proc'.found = Folder(Resolve(proc.cwd, proc.path))'
  <2> DEFINE at == Resolve(proc.cwd, proc.path)
  <2>1. at' = at
    BY <1>3 DEF Resolve
  <2> QED
    BY <1>1, <1>2, <1>3, <2>1 DEF Running, Folder
<1>7. Running(proc)'
  BY <1>5, <1>6 DEF Running
<1>8. \A i \in DOMAIN runs : Given(runs[i].argv.token)'
  BY <1>2 DEF CommandInv, Given, Printed, Damaged, Minted
<1>9. GoodDisk'
  BY <1>2 DEF CommandInv, GoodDisk
<1> QED
  BY <1>2, <1>7, <1>8, <1>9 DEF CommandInv

LEMMA Marked ==
  ASSUME NEW p, Process(p), NEW q, q = [p EXCEPT !.torn = TRUE]
  PROVE  /\ Process(q) /\ q.torn = TRUE
         /\ q.pc = p.pc /\ q.argv = p.argv /\ q.cwd = p.cwd /\ q.path = p.path
         /\ q.found = p.found /\ q.cfg = p.cfg /\ q.key = p.key
<1>1. Process(q) /\ q.torn = TRUE
  BY DEF Process
<1>2. q.pc = p.pc /\ q.argv = p.argv /\ q.cwd = p.cwd /\ q.path = p.path
  BY DEF Process
<1>3. q.found = p.found /\ q.cfg = p.cfg /\ q.key = p.key
  BY DEF Process
<1> QED
  BY <1>1, <1>2, <1>3

LEMMA WentOn ==
  ASSUME CommandInv, proc # Idle, NEW pc, NEW cfg, NEW key, GoOn(pc, cfg, key)
  PROVE  /\ proc'.pc = pc /\ proc'.cfg = cfg /\ proc'.key = key
         /\ proc'.argv = proc.argv /\ proc'.path = proc.path
         /\ proc'.found = proc.found /\ proc'.torn = proc.torn
<1>1. Process(proc)
  BY DEF CommandInv, Running
<1>2. proc' = Moved(proc, pc, cfg, key)
  BY DEF GoOn, Moved
<1> QED
  BY <1>1, <1>2, Went

LEMMA StartKeeps ==
  ASSUME CommandInv, NEW a \in Arguments, NEW c \in ConfigPaths, Start(a, c)
  PROVE  CommandInv'
<1>1. PICK t \in Presented(a) :
        proc' = [pc |-> "flags", argv |-> [a EXCEPT !.token = t], cwd |-> c.cwd, path |-> c.path,
                 found |-> Folder(Resolve(c.cwd, c.path)), torn |-> FALSE,
                 cfg |-> NoConfig, key |-> NoKey]
  BY DEF Start
<1>2. disk' = disk /\ runs' = runs
  BY DEF Start
<1>3. [a EXCEPT !.token = t].token = t
  <2>1. "token" \in DOMAIN a
    BY CommandAssumption
  <2> QED
    BY <2>1
<1>4. Given(t)
  BY <1>1 DEF Presented, Given
<1>5. /\ Process(proc') /\ proc'.pc = "flags" /\ proc'.argv.token = t
      /\ proc'.cwd = c.cwd /\ proc'.path = c.path /\ proc'.cfg = NoConfig /\ proc'.key = NoKey
      /\ proc'.found = Folder(Resolve(c.cwd, c.path))
  BY <1>1, <1>3 DEF Process
<1>6. Stage(proc')
  BY <1>5 DEF Stage, HasNothing
<1>7. c.cwd \in Seq(STRING) /\ IsFilePath(c.path)
  BY CommandAssumption
<1>8. Given(proc.argv.token)'
  BY <1>2, <1>4, <1>5 DEF Given, Printed, Damaged, Minted
<1>9. (proc.found = Folder(Resolve(proc.cwd, proc.path)))'
  BY <1>2, <1>5 DEF Folder, Resolve
<1>10. Running(proc)'
  BY <1>5, <1>6, <1>7, <1>8, <1>9 DEF Running
<1>11. \A i \in DOMAIN runs : Given(runs[i].argv.token)'
  BY <1>2 DEF CommandInv, Given, Printed, Damaged, Minted
<1>12. GoodDisk'
  BY <1>2 DEF CommandInv, GoodDisk
<1> QED
  BY <1>2, <1>10, <1>11, <1>12 DEF CommandInv

LEMMA FlagsKeep ==
  ASSUME CommandInv, ParseFlags
  PROVE  CommandInv'
<1> DEFINE checks == FlagChecks(proc.argv, proc.path)
<1>1. proc.pc = "flags" /\ proc # Idle
  BY DEF ParseFlags, Idle
<1>2. Running(proc) /\ HasNothing(proc)
  BY <1>1 DEF CommandInv, Running, Stage
<1>3. CASE Passes(checks)
  <2>1. GoOn("config", NoConfig, NoKey)
    BY <1>3 DEF ParseFlags
  <2>2. /\ proc'.pc = "config" /\ proc'.cfg = NoConfig /\ proc'.key = NoKey
        /\ proc'.argv = proc.argv /\ proc'.path = proc.path
    BY <1>1, <2>1, WentOn
  <2>3. Stage(proc')
    BY <1>3, <2>2 DEF Stage, HasNothing, FlagsPass
  <2> QED
    BY <1>1, <2>1, <2>3, GoOnKeeps
<1>4. CASE ~Passes(checks)
  <2> DEFINE r == Result(FirstFailure(checks), FlagOutput(proc.argv))
  <2>1. Exit(FirstFailure(checks), FlagOutput(proc.argv))
    BY <1>4 DEF ParseFlags
  <2>2. /\ r.argv = proc.argv /\ r.path = proc.path /\ r.cfg = proc.cfg /\ r.key = proc.key
        /\ r.exit = FirstFailure(checks) /\ r.stdout = FlagOutput(proc.argv)
    BY ResultFields
  <2> HIDE DEF r
  <2>3. RefusedByFlags(r)
    BY <1>2, <1>4, <2>2 DEF RefusedByFlags, FlagsPass, HasNothing
  <2> QED
    BY <1>1, <2>1, <2>3, ExitKeeps DEF Ended, r
<1> QED
  BY <1>3, <1>4

LEMMA ConfigFound ==
  ASSUME CommandInv, proc # Idle, FlagsPass(proc)
  PROVE  LET at    == Resolve(proc.cwd, proc.path)
             found == Folder(at)
             name  == FileName(proc)
         IN /\ Exists(at) => File(at) = found[name] /\ GoodFile(File(at))
            /\ name \in DOMAIN found <=> Exists(at)
<1> DEFINE at == Resolve(proc.cwd, proc.path)
<1>1. Running(proc) /\ proc.path # NoPath
  BY FlagsSay DEF CommandInv
<1>2. at \in Seq(STRING) /\ at # <<>> /\ Last(at) = Last(proc.path.parts)
  BY <1>1, Resolved DEF Running
<1>3. FileName(proc) = Last(at)
  BY <1>1, <1>2 DEF FileName
<1>4. Exists(at) => GoodFile(File(at))
  BY DEF CommandInv, GoodDisk, Exists, File
<1> HIDE DEF at
<1> QED
  BY <1>2, <1>3, <1>4, FoundInFolder DEF at

LEMMA ConfigKeeps ==
  ASSUME CommandInv, LoadConfig
  PROVE  CommandInv'
<1> DEFINE at == Resolve(proc.cwd, proc.path)
           checks == ConfigChecks(at)
           cfg == File(at).cfg
           name == FileName(proc)
<1>1. proc.pc = "config" /\ proc # Idle
  BY DEF LoadConfig, Idle
<1>2. Running(proc) /\ FlagsPass(proc) /\ HasNothing(proc)
  BY <1>1 DEF CommandInv, Running, Stage
<1>3. /\ Exists(at) => File(at) = Folder(at)[name] /\ GoodFile(File(at))
      /\ name \in DOMAIN Folder(at) <=> Exists(at)
  BY <1>1, <1>2, ConfigFound
<1>4. ~proc.torn => proc.found = Folder(at)
  BY <1>2 DEF Running
<1>5. CASE ~Passes(checks)
  <2> DEFINE r == Result(Fails, <<>>)
  <2>1. Exit(Fails, <<>>)
    BY <1>5, ConfigCheckList DEF LoadConfig
  <2>2. ~(Exists(at) /\ File(at).kind = "config")
    BY <1>5, ConfigCheckList
  <2>3. ~proc.torn => ConfigIn(proc.found, name) = NoConfig
    BY <1>3, <1>4, <2>2 DEF ConfigIn
  <2>4. /\ r.argv = proc.argv /\ r.path = proc.path /\ r.cfg = proc.cfg /\ r.key = proc.key
        /\ r.found = proc.found /\ r.torn = proc.torn /\ r.exit = Fails /\ r.stdout = <<>>
    BY ResultFields
  <2> HIDE DEF r
  <2>5. NoConfigFound(r)
    BY <1>2, <2>3, <2>4 DEF NoConfigFound, FlagsPass, HasNothing, FileName
  <2> QED
    BY <1>1, <2>1, <2>5, ExitKeeps DEF Ended, r
<1>6. CASE Passes(checks)
  <2>1. Exists(at) /\ File(at).kind = "config"
    BY <1>6, ConfigCheckList
  <2>2. GoodConfig(cfg) /\ (~proc.torn => cfg = ConfigIn(proc.found, name))
    BY <1>3, <1>4, <2>1 DEF ConfigIn, GoodFile
  <2> HIDE DEF cfg
  <2>3. CASE cfg.Algorithm = "RS256"
    <3>1. GoOn("key", cfg, NoKey)
      BY <1>6, <2>3 DEF LoadConfig, cfg
    <3>2. /\ proc'.pc = "key" /\ proc'.cfg = cfg /\ proc'.key = NoKey
          /\ proc'.argv = proc.argv /\ proc'.path = proc.path
          /\ proc'.found = proc.found /\ proc'.torn = proc.torn
      BY <1>1, <3>1, WentOn
    <3>3. Stage(proc')
      BY <1>2, <2>2, <2>3, <3>2 DEF Stage, FlagsPass, LacksKey, HasConfig, FileName
    <3> QED
      BY <1>1, <3>1, <3>3, GoOnKeeps
  <2>4. CASE cfg.Algorithm # "RS256"
    <3> DEFINE key == NewEdSigner(cfg.Seed)
    <3>1. GoOn("work", cfg, key)
      BY <1>6, <2>4 DEF LoadConfig, cfg
    <3>2. key.alg = cfg.Algorithm /\ key = KeyIn(proc.found, cfg)
      BY <2>2, <2>4 DEF NewEdSigner, KeyIn, GoodConfig
    <3> HIDE DEF key
    <3>3. /\ proc'.pc = "work" /\ proc'.cfg = cfg /\ proc'.key = key
          /\ proc'.argv = proc.argv /\ proc'.path = proc.path
          /\ proc'.found = proc.found /\ proc'.torn = proc.torn
      BY <1>1, <3>1, WentOn
    <3>4. HasKey(proc') /\ FlagsPass(proc')
      BY <1>2, <2>2, <3>2, <3>3 DEF FlagsPass, HasKey, HasConfig, FileName
    <3>5. Stage(proc')
      BY <3>3, <3>4 DEF Stage
    <3> QED
      BY <1>1, <3>1, <3>5, GoOnKeeps
  <2> QED
    BY <2>3, <2>4
<1> QED
  BY <1>5, <1>6

(* The key file that is looked for beside the persona file is the one that *)
(* its folder holds. *)
LEMMA KeyFound ==
  ASSUME CommandInv, proc # Idle, FlagsPass(proc), LacksKey(proc), ~proc.torn, KeyIsBeside(proc)
  PROVE  LET at   == Resolve(proc.cwd, KeyPath(proc.path, proc.cfg.RSAKeyFile))
             file == KeyFileIn(proc.found, proc.cfg.RSAKeyFile.parts)
         IN /\ Exists(at) => File(at) = file
            /\ ~Exists(at) => file.kind = "none"
<1> DEFINE home == Resolve(proc.cwd, proc.path)
           key == proc.cfg.RSAKeyFile
           at == Resolve(proc.cwd, KeyPath(proc.path, key))
<1>1. Running(proc) /\ proc.found = Folder(home) /\ proc.path # NoPath
  BY FlagsSay DEF CommandInv, Running
<1>2. GoodConfig(proc.cfg) /\ proc.cfg = ConfigIn(proc.found, FileName(proc)) /\ ~key.abs
  BY DEF LacksKey, HasConfig, KeyIsBeside
<1>3. proc.cfg # NoConfig
  BY <1>2, GoodIsConfig
<1>4. Exists(home)
  <2>1. FileName(proc) \in DOMAIN proc.found
    BY <1>2, <1>3 DEF ConfigIn
  <2> QED
    BY <1>1, <2>1, ConfigFound
<1>5. IsPath(key) /\ proc.cwd \in Seq(STRING) /\ IsFilePath(proc.path)
  BY <1>1, <1>2 DEF GoodConfig, Running
<1>6. /\ Exists(at) <=> (Len(key.parts) = 1 /\ key.parts[1] \in DOMAIN Folder(home))
      /\ Exists(at) => File(at) = KeyFileIn(Folder(home), key.parts)
  BY <1>1, <1>2, <1>4, <1>5, KeyBeside
<1> QED
  BY <1>1, <1>6 DEF KeyFileIn

LEMMA KeyKeeps ==
  ASSUME CommandInv, LoadKey
  PROVE  CommandInv'
<1> DEFINE at == Resolve(proc.cwd, KeyPath(proc.path, proc.cfg.RSAKeyFile))
           checks == KeyChecks(at)
           file == KeyFileIn(proc.found, proc.cfg.RSAKeyFile.parts)
           beside == ~proc.torn /\ KeyIsBeside(proc)
<1>1. proc.pc = "key" /\ proc # Idle
  BY DEF LoadKey, Idle
<1>2. FlagsPass(proc) /\ LacksKey(proc)
  BY <1>1 DEF CommandInv, Running, Stage
<1>3. /\ beside /\ Exists(at) => File(at) = file
      /\ beside /\ ~Exists(at) => file.kind = "none"
  BY <1>1, <1>2, KeyFound
<1>4. KeyIn(proc.found, proc.cfg) = IF file.kind = "pem" /\ LoadsRSAPEM(file) THEN RSASigner(file) ELSE NoKey
  BY <1>2 DEF LacksKey, KeyIn
<1>5. CASE ~Passes(checks)
  <2> DEFINE r == Result(Fails, <<>>)
  <2>1. Exit(Fails, <<>>)
    BY <1>5, KeyCheckList DEF LoadKey
  <2>2. ~(Exists(at) /\ File(at).kind = "pem" /\ LoadsRSAPEM(File(at)))
    BY <1>5, KeyCheckList
  <2>3. beside => KeyIn(proc.found, proc.cfg) = NoKey
    BY <1>3, <1>4, <2>2
  <2>4. /\ r.argv = proc.argv /\ r.path = proc.path /\ r.cfg = proc.cfg /\ r.key = proc.key
        /\ r.found = proc.found /\ r.torn = proc.torn /\ r.exit = Fails /\ r.stdout = <<>>
    BY ResultFields
  <2> HIDE DEF r
  <2>5. NoKeyFound(r)
    BY <1>2, <2>3, <2>4 DEF NoKeyFound, FlagsPass, LacksKey, HasConfig, FileName, KeyIsBeside
  <2> QED
    BY <1>1, <2>1, <2>5, ExitKeeps DEF Ended, r
<1>6. CASE Passes(checks)
  <2> DEFINE key == RSASigner(File(at))
  <2>1. GoOn("work", proc.cfg, key)
    BY <1>6 DEF LoadKey
  <2>2. Exists(at) /\ File(at).kind = "pem" /\ LoadsRSAPEM(File(at))
    BY <1>6, KeyCheckList
  <2>3. beside => key = KeyIn(proc.found, proc.cfg)
    BY <1>3, <1>4, <2>2
  <2>4. key.alg = proc.cfg.Algorithm
    BY <1>2 DEF RSASigner, LacksKey
  <2> HIDE DEF key
  <2>5. /\ proc'.pc = "work" /\ proc'.cfg = proc.cfg /\ proc'.key = key
        /\ proc'.argv = proc.argv /\ proc'.path = proc.path
        /\ proc'.found = proc.found /\ proc'.torn = proc.torn
    BY <1>1, <2>1, WentOn
  <2>6. HasKey(proc') /\ FlagsPass(proc')
    BY <1>2, <2>3, <2>4, <2>5 DEF FlagsPass, HasKey, LacksKey, HasConfig, FileName, KeyIsBeside
  <2>7. Stage(proc')
    BY <2>5, <2>6 DEF Stage
  <2> QED
    BY <1>1, <2>1, <2>7, GoOnKeeps
<1> QED
  BY <1>5, <1>6

(* What is carried into the result. *)
LEMMA ResultStage ==
  ASSUME CommandInv, proc # Idle, NEW code, NEW out
  PROVE  LET r == Result(code, out)
         IN /\ FlagsPass(r) <=> FlagsPass(proc)
            /\ HasKey(r) <=> HasKey(proc)
<1> DEFINE r == Result(code, out)
<1>1. /\ r.argv = proc.argv /\ r.path = proc.path /\ r.found = proc.found /\ r.torn = proc.torn
      /\ r.cfg = proc.cfg /\ r.key = proc.key
  BY ResultFields
<1> HIDE DEF r
<1>2. (FlagsPass(r) <=> FlagsPass(proc)) /\ (HasKey(r) <=> HasKey(proc))
  BY <1>1 DEF FlagsPass, HasKey, HasConfig, FileName, KeyIsBeside
<1> QED
  BY <1>2 DEF r

LEMMA WorkKeeps ==
  ASSUME CommandInv, NEW walk \in Walks, Work(walk)
  PROVE  CommandInv'
<1> DEFINE checks == CommandChecks(proc.argv, proc.cfg, proc.key)
<1>1. proc.pc = "work" /\ proc # Idle
  BY DEF Work, Idle
<1>2. FlagsPass(proc) /\ HasKey(proc)
  BY <1>1 DEF CommandInv, Running, Stage
<1>3. CASE ~Passes(checks)
  <2> DEFINE r == Result(FirstFailure(checks), <<>>)
  <2>1. Exit(FirstFailure(checks), <<>>)
    BY <1>3 DEF Work
  <2>2. /\ r.argv = proc.argv /\ r.cfg = proc.cfg /\ r.key = proc.key
        /\ r.exit = FirstFailure(checks) /\ r.stdout = <<>>
    BY ResultFields
  <2>3. FlagsPass(r) /\ HasKey(r)
    BY <1>1, <1>2, ResultStage
  <2> HIDE DEF r
  <2>4. RefusedByCommand(r)
    BY <1>3, <2>2, <2>3 DEF RefusedByCommand
  <2> QED
    BY <1>1, <2>1, <2>4, ExitKeeps DEF Ended, r
<1>4. CASE Passes(checks)
  <2> DEFINE out == Stdout(proc.argv, proc.cfg, proc.key, clock, walk)
             r == Result(OK, out)
  <2>1. Exit(OK, out) /\ proc.argv.cmd # "serve"
    BY <1>4 DEF Work
  <2>2. /\ r.argv = proc.argv /\ r.cfg = proc.cfg /\ r.key = proc.key /\ r.clock = clock
        /\ r.exit = OK /\ r.stdout = out
    BY ResultFields
  <2>3. FlagsPass(r) /\ HasKey(r)
    BY <1>1, <1>2, ResultStage
  <2> HIDE DEF r
  <2>4. Done(r)
    BY <1>4, <2>1, <2>2, <2>3 DEF Done
  <2> HIDE DEF out
  <2> QED
    BY <1>1, <2>1, <2>4, ExitKeeps DEF Ended, r
<1> QED
  BY <1>3, <1>4

LEMMA ServedKeeps ==
  ASSUME CommandInv, proc # Idle, FlagsPass(proc), HasKey(proc), proc.argv.cmd = "serve",
         Passes(ServeChecks(proc.argv)), NEW out, Exit(Fails, out)
  PROVE  CommandInv'
<1> DEFINE r == Result(Fails, out)
<1>1. r.argv = proc.argv /\ r.exit = Fails
  BY ResultFields
<1>2. FlagsPass(r) /\ HasKey(r)
  BY ResultStage
<1> HIDE DEF r
<1>3. Served(r)
  BY <1>1, <1>2 DEF Served
<1> QED
  BY <1>3, ExitKeeps DEF Ended, r

LEMMA ListenKeeps ==
  ASSUME CommandInv, Listen
  PROVE  CommandInv'
<1>1. /\ proc.pc = "work" /\ proc # Idle
      /\ proc.argv.cmd = "serve" /\ Passes(ServeChecks(proc.argv))
  BY DEF Listen, Idle
<1>2. FlagsPass(proc) /\ HasKey(proc)
  BY <1>1 DEF CommandInv, Running, Stage
<1>3. CASE Exit(Fails, <<>>)
  BY <1>1, <1>2, <1>3, ServedKeeps
<1>4. CASE GoOn("serving", proc.cfg, proc.key)
  <2>1. /\ proc'.pc = "serving" /\ proc'.cfg = proc.cfg /\ proc'.key = proc.key
        /\ proc'.argv = proc.argv /\ proc'.path = proc.path
        /\ proc'.found = proc.found /\ proc'.torn = proc.torn
    BY <1>1, <1>4, WentOn
  <2>2. HasKey(proc') /\ FlagsPass(proc')
    BY <1>2, <2>1 DEF FlagsPass, HasKey, HasConfig, FileName, KeyIsBeside
  <2>3. Stage(proc')
    BY <1>1, <2>1, <2>2 DEF Stage
  <2> QED
    BY <1>1, <1>4, <2>3, GoOnKeeps
<1> QED
  BY <1>3, <1>4 DEF Listen

LEMMA ServeEndsKeeps ==
  ASSUME CommandInv, ServeEnds
  PROVE  CommandInv'
<1> DEFINE out == Stdout(proc.argv, proc.cfg, proc.key, clock, <<>>)
<1>1. proc.pc = "serving" /\ proc # Idle /\ Exit(Fails, out)
  BY DEF ServeEnds, Idle
<1>2. FlagsPass(proc) /\ HasKey(proc) /\ proc.argv.cmd = "serve" /\ Passes(ServeChecks(proc.argv))
  BY <1>1 DEF CommandInv, Running, Stage
<1> HIDE DEF out
<1> QED
  BY <1>1, <1>2, ServedKeeps

LEMMA InterruptKeeps ==
  ASSUME CommandInv, Interrupt
  PROVE  CommandInv'
<1>1. proc' = Idle /\ disk' = disk /\ runs' = runs
  BY DEF Interrupt
<1>2. \A i \in DOMAIN runs : Given(runs[i].argv.token)'
  BY <1>1 DEF CommandInv, Given, Printed, Damaged, Minted
<1> QED
  BY <1>1, <1>2 DEF CommandInv, GoodDisk

LEMMA SaveKeeps ==
  ASSUME CommandInv, NEW s \in Saves, Save(s)
  PROVE  CommandInv'
<1>1. /\ runs' = runs
      /\ disk' = [disk EXCEPT ![s.folder] = With(disk[s.folder], s.name, s.file)]
      /\ proc' = IF proc = Idle THEN Idle ELSE [proc EXCEPT !.torn = TRUE]
  BY DEF Save
<1>2. \A i \in DOMAIN runs : Given(runs[i].argv.token)'
  BY <1>1 DEF CommandInv, Given, Printed, Damaged, Minted
<1>3. GoodDisk'
  <2> DEFINE new == With(disk[s.folder], s.name, s.file)
  <2>1. GoodFile(s.file)
    BY CommandAssumption
  <2>2. ASSUME s.folder \in DOMAIN disk, NEW name \in DOMAIN new PROVE GoodFile(new[name])
    BY <2>1, <2>2 DEF With, CommandInv, GoodDisk
  <2> HIDE DEF new
  <2>3. ASSUME NEW folder \in DOMAIN disk', NEW name \in DOMAIN disk'[folder]
        PROVE  GoodFile(disk'[folder][name])
    <3>1. folder \in DOMAIN disk /\ disk'[folder] = IF folder = s.folder THEN new ELSE disk[folder]
      BY <1>1 DEF new
    <3> QED
      BY <2>2, <2>3, <3>1 DEF CommandInv, GoodDisk
  <2> QED
    BY <2>3 DEF GoodDisk
<1>4. ASSUME proc # Idle PROVE Running(proc)'
  <2>1. Running(proc) /\ Process(proc) /\ Stage(proc)
    BY <1>4 DEF CommandInv, Running
  <2>2. /\ Process(proc') /\ proc'.torn = TRUE
        /\ proc'.pc = proc.pc /\ proc'.argv = proc.argv /\ proc'.cwd = proc.cwd
        /\ proc'.path = proc.path /\ proc'.found = proc.found
        /\ proc'.cfg = proc.cfg /\ proc'.key = proc.key
    BY <1>1, <1>4, <2>1, Marked
  <2>3. Stage(proc')
    <3>1. /\ FlagsPass(proc') <=> FlagsPass(proc)
          /\ HasNothing(proc) => HasNothing(proc')
          /\ HasKey(proc) => HasKey(proc')
          /\ LacksKey(proc) => LacksKey(proc')
      BY <2>2 DEF FlagsPass, HasNothing, HasKey, LacksKey, HasConfig
    <3> QED
      BY <2>1, <2>2, <3>1 DEF Stage
  <2>4. Given(proc.argv.token)'
    BY <1>1, <2>1, <2>2, SMTT(30), ZenonT(30) DEF Running, Given, Printed, Damaged, Minted
  <2> QED
    BY <2>1, <2>2, <2>3, <2>4 DEF Running
<1> QED
  BY <1>1, <1>2, <1>3, <1>4 DEF CommandInv

LEMMA StayKeeps ==
  ASSUME CommandInv, UNCHANGED <<disk, proc, runs>>
  PROVE  CommandInv'
<1>1. disk' = disk /\ proc' = proc /\ runs' = runs
  OBVIOUS
<1>2. Running(proc) => Running(proc)'
  BY <1>1 DEF Running, Folder, Given, Printed, Damaged, Minted
<1>3. \A i \in DOMAIN runs : Given(runs[i].argv.token)'
  BY <1>1 DEF CommandInv, Given, Printed, Damaged, Minted
<1> QED
  BY <1>1, <1>2, <1>3 DEF CommandInv, GoodDisk

LEMMA CommandInit == Init => CommandInv
<1> SUFFICES ASSUME Init PROVE CommandInv
  OBVIOUS
<1>1. disk = FirstDisk /\ proc = Idle /\ runs = <<>>
  BY DEF Init
<1>2. GoodDisk
  BY <1>1, CommandAssumption DEF GoodDisk
<1>3. IsSeq(runs) /\ DOMAIN runs = {}
  BY <1>1, EmptyList
<1> QED
  BY <1>1, <1>2, <1>3 DEF CommandInv

LEMMA CommandNext == CommandInv /\ [Next]_commandVars => CommandInv'
<1> SUFFICES ASSUME CommandInv, [Next]_commandVars PROVE CommandInv'
  OBVIOUS
<1>1. ASSUME NEW a \in Arguments, NEW c \in ConfigPaths, Start(a, c) PROVE CommandInv'
  BY <1>1, StartKeeps
<1>2. CASE ParseFlags
  BY <1>2, FlagsKeep
<1>3. CASE LoadConfig
  BY <1>3, ConfigKeeps
<1>4. CASE LoadKey
  BY <1>4, KeyKeeps
<1>5. ASSUME NEW walk \in Walks, Work(walk) PROVE CommandInv'
  BY <1>5, WorkKeeps
<1>6. CASE Listen
  BY <1>6, ListenKeeps
<1>7. CASE ServeEnds
  BY <1>7, ServeEndsKeeps
<1>8. CASE Interrupt
  BY <1>8, InterruptKeeps
<1>9. ASSUME NEW s \in Saves, Save(s) PROVE CommandInv'
  BY <1>9, SaveKeeps
<1>10. CASE Tick
  BY <1>10, StayKeeps DEF Tick
<1>11. CASE UNCHANGED commandVars
  BY <1>11, StayKeeps DEF commandVars
<1> QED
  BY <1>1, <1>2, <1>3, <1>4, <1>5, <1>6, <1>7, <1>8, <1>9, <1>10, <1>11 DEF Next

(* A process holds what its folder held, and every command has ended as    *)
(* what it held and its command line say. *)
THEOREM CommandInvariant == Spec => []CommandInv
<1> QED
  BY CommandInit, CommandNext, PTL DEF Spec

-------------------------------------------------------------------------------
(* Exit codes *)

(* What only the command line can be blamed for, once the flags are parsed. *)
UsageInWork(a) ==
  \/ a.cmd = "mint" /\ (a.at = BadTime \/ a.kind \notin {"id", "access"})
  \/ a.cmd = "serve" /\ (a.host = "" \/ a.host \notin LoopbackIPs \union {"localhost"})

SaysOf(checks, a) ==
  /\ Passes(checks) => ~UsageInWork(a)
  /\ ~Passes(checks) => \/ FirstFailure(checks) = Fails
                        \/ FirstFailure(checks) = Usage /\ UsageInWork(a)

LEMMA MintSays ==
  ASSUME NEW a, a.cmd = "mint", NEW cfg, NEW key
  PROVE  SaysOf(MintChecks(a, cfg, key), a)
<1> DEFINE checks == MintChecks(a, cfg, key)
<1>1. /\ DOMAIN checks = 1..5
      /\ checks[1].answer = Fails /\ checks[2].answer = Fails
      /\ checks[3].fails = (a.at = BadTime)
      /\ checks[4].fails = (a.kind \notin {"id", "access"})
      /\ checks[3].answer = Usage /\ checks[4].answer = Usage /\ checks[5].answer = Fails
  <2>1. DOMAIN checks = 1..5
    BY DEF MintChecks
  <2>2. /\ checks[1] = Check(PersonaNamed(cfg, a.persona) = 0, Fails)
        /\ checks[2] = Check(ClientWithId(cfg, a.client) = 0, Fails)
        /\ checks[3] = Check(a.at = BadTime, Usage)
        /\ checks[4] = Check(a.kind \notin {"id", "access"}, Usage)
        /\ checks[5] = Check(~key.signs, Fails)
    BY DEF MintChecks
  <2> HIDE DEF checks
  <2> QED
    BY <2>1, <2>2, CheckFields
<1>2. UsageInWork(a) <=> a.at = BadTime \/ a.kind \notin {"id", "access"}
  BY DEF UsageInWork
<1> HIDE DEF checks
<1>3. ASSUME Passes(checks) PROVE ~UsageInWork(a)
  <2>1. 3 \in DOMAIN checks /\ 4 \in DOMAIN checks
    BY <1>1
  <2>2. ~checks[3].fails /\ ~checks[4].fails
    BY <1>3, <2>1, PassesEach
  <2> QED
    BY <1>1, <1>2, <2>2
<1>4. ASSUME ~Passes(checks)
      PROVE  FirstFailure(checks) = Fails \/ (FirstFailure(checks) = Usage /\ UsageInWork(a))
  <2>1. PICK i \in Failing(checks) : FirstFailure(checks) = checks[i].answer
    BY <1>1, <1>4, FirstFailing
  <2>2. i \in 1..5 /\ checks[i].fails
    BY <1>1, <2>1 DEF Failing
  <2>3. i = 1 \/ i = 2 \/ i = 3 \/ i = 4 \/ i = 5
    BY <2>2
  <2> QED
    BY <1>1, <1>2, <2>1, <2>2, <2>3
<1> QED
  BY <1>3, <1>4 DEF SaysOf, checks

LEMMA ServeSays ==
  ASSUME NEW a, a.cmd = "serve"
  PROVE  SaysOf(ServeChecks(a), a)
<1> DEFINE f == a.host = ""
           g == a.host \notin LoopbackIPs \union {"localhost"}
<1>1. ServeChecks(a) = <<Check(f, Usage), Check(g, Usage)>>
  BY DEF ServeChecks
<1>2. UsageInWork(a) <=> f \/ g
  BY DEF UsageInWork
<1> HIDE DEF f, g
<1>3. /\ Passes(ServeChecks(a)) <=> ~f /\ ~g
      /\ ~Passes(ServeChecks(a)) => FirstFailure(ServeChecks(a)) \in {Usage, Usage}
  BY <1>1, TwoChecks
<1> QED
  BY <1>2, <1>3 DEF SaysOf

LEMMA DecodeSays ==
  ASSUME NEW a, a.cmd = "decode", NEW key
  PROVE  /\ Passes(DecodeChecks(a, key)) <=> Verifies(key, a.token)
         /\ SaysOf(DecodeChecks(a, key), a)
<1> DEFINE checks == DecodeChecks(a, key)
<1>1. DOMAIN checks = 1..1 /\ checks[1].answer = Fails /\ checks[1].fails = ~Verifies(key, a.token)
  <2>1. DOMAIN checks = 1..1 /\ checks[1] = Check(~Verifies(key, a.token), Fails)
    BY DEF DecodeChecks
  <2> HIDE DEF checks
  <2> QED
    BY <2>1, CheckFields
<1>2. ~UsageInWork(a)
  BY DEF UsageInWork
<1> HIDE DEF checks
<1>3. Passes(checks) <=> Verifies(key, a.token)
  <2>1. DOMAIN checks = {1}
    BY <1>1
  <2>2. Passes(checks) <=> ~checks[1].fails
    BY <2>1 DEF Passes
  <2> QED
    BY <1>1, <2>2
<1>4. ASSUME ~Passes(checks) PROVE FirstFailure(checks) = Fails
  <2>1. PICK i \in Failing(checks) : FirstFailure(checks) = checks[i].answer
    BY <1>1, <1>4, FirstFailing
  <2>2. i = 1
    BY <1>1, <2>1 DEF Failing
  <2> QED
    BY <1>1, <2>1, <2>2
<1> QED
  BY <1>2, <1>3, <1>4 DEF SaysOf, checks

LEMMA CommandSays ==
  ASSUME NEW a, NEW cfg, NEW key
  PROVE  SaysOf(CommandChecks(a, cfg, key), a)
<1>1. CASE a.cmd = "mint"
  BY <1>1, MintSays DEF CommandChecks
<1>2. CASE a.cmd = "decode"
  BY <1>2, DecodeSays DEF CommandChecks
<1>3. CASE a.cmd = "serve"
  BY <1>3, ServeSays DEF CommandChecks
<1>4. CASE a.cmd \notin {"mint", "decode", "serve"}
  <2>1. CommandChecks(a, cfg, key) = <<>>
    BY <1>4 DEF CommandChecks
  <2>2. Passes(<<>>) /\ ~UsageInWork(a)
    BY <1>4, EmptyList DEF Passes, UsageInWork
  <2> QED
    BY <2>1, <2>2 DEF SaysOf
<1> QED
  BY <1>1, <1>2, <1>3, <1>4

(* What the flags alone decide. *)
LEMMA FlagsPrint ==
  ASSUME NEW a, NEW path, FlagOutput(a) # <<>>
  PROVE  ~Passes(FlagChecks(a, path)) /\ FirstFailure(FlagChecks(a, path)) = OK
<1> DEFINE checks == FlagChecks(a, path)
<1>1. a.cmd \in VersionWords \union HelpWords
  BY DEF FlagOutput
<1>2. DOMAIN checks = 1..6 /\ checks[1].fails /\ checks[1].answer = OK
  <2>1. DOMAIN checks = 1..6 /\ checks[1] = Check(a.cmd \in VersionWords \union HelpWords, OK)
    BY DEF FlagChecks
  <2> HIDE DEF checks
  <2> QED
    <3>1. checks[1].fails = (a.cmd \in VersionWords \union HelpWords) /\ checks[1].answer = OK
      BY <2>1, CheckFields
    <3> QED
      BY <1>1, <2>1, <3>1
<1> HIDE DEF checks
<1>3. 1 \in Failing(checks) /\ ~Passes(checks)
  BY <1>2 DEF Failing, Passes
<1>4. PICK i \in Failing(checks) : /\ \A j \in Failing(checks) : i <= j
                                  /\ FirstFailure(checks) = checks[i].answer
  BY <1>2, <1>3, FirstFailing
<1>5. i \in 1..6 /\ i <= 1
  BY <1>2, <1>3, <1>4 DEF Failing
<1>6. i = 1
  BY <1>5
<1> QED
  BY <1>2, <1>3, <1>4, <1>6 DEF checks

LEMMA CommandTyped == CommandInv => CommandTypeOK
<1> SUFFICES ASSUME CommandInv PROVE CommandTypeOK
  OBVIOUS
<1>1. proc # Idle /\ proc.pc \in {"work", "serving"} => proc.key.alg = proc.cfg.Algorithm
  BY DEF CommandInv, Running, Stage, HasKey
<1>2. ASSUME NEW i \in DOMAIN runs
      PROVE  /\ runs[i].exit \in {OK, Fails, Usage}
             /\ runs[i].stdout # <<>> => runs[i].exit = OK \/ runs[i].argv.cmd = "serve"
  <2> DEFINE r == runs[i]
  <2>1. Ended(r)
    BY DEF CommandInv, Ran
  <2> HIDE DEF r
  <2>2. CASE RefusedByFlags(r)
    BY <2>2, FlagsSay, FlagsPrint DEF RefusedByFlags, r
  <2>3. CASE NoConfigFound(r) \/ NoKeyFound(r)
    BY <2>3 DEF NoConfigFound, NoKeyFound, r
  <2>4. CASE RefusedByCommand(r)
    BY <2>4, CommandSays DEF RefusedByCommand, SaysOf, r
  <2>5. CASE Done(r) \/ Served(r)
    BY <2>5 DEF Done, Served, r
  <2> QED
    BY <2>1, <2>2, <2>3, <2>4, <2>5 DEF Ended
<1> QED
  BY <1>1, <1>2 DEF CommandTypeOK

(* CommandTypeOK: a process works with the key its configuration asks for, *)
(* and a command that fails prints nothing to stdout. *)
THEOREM CommandIsTyped == Spec => []CommandTypeOK
<1> QED
  BY CommandInvariant, CommandTyped, PTL

(* What a usage error means, and what a success. *)
LEMMA ExitsMean ==
  ASSUME NEW r, Ended(r)
  PROVE  /\ r.exit = Usage => \/ ~FlagsPass(r) /\ FirstFailure(FlagChecks(r.argv, r.path)) = Usage
                              \/ FlagsPass(r) /\ UsageInWork(r.argv)
         /\ r.exit = OK => \/ ~FlagsPass(r) /\ FirstFailure(FlagChecks(r.argv, r.path)) = OK
                           \/ FlagsPass(r) /\ ~UsageInWork(r.argv)
<1>1. OK # Usage /\ OK # Fails /\ Usage # Fails
  BY DEF OK, Usage, Fails
<1>2. CASE RefusedByFlags(r)
  BY <1>2 DEF RefusedByFlags
<1>3. CASE NoConfigFound(r) \/ NoKeyFound(r) \/ Served(r)
  BY <1>1, <1>3 DEF NoConfigFound, NoKeyFound, Served
<1>4. CASE RefusedByCommand(r)
  BY <1>1, <1>4, CommandSays DEF RefusedByCommand, SaysOf
<1>5. CASE Done(r)
  BY <1>1, <1>5, CommandSays DEF Done, SaysOf
<1> QED
  BY <1>2, <1>3, <1>4, <1>5 DEF Ended

LEMMA HopelessUsage == CommandInv => UsageErrorIsHopeless
<1> SUFFICES ASSUME CommandInv, NEW i \in DOMAIN runs, NEW j \in DOMAIN runs,
                    runs[i].exit = Usage, runs[j].argv = runs[i].argv,
                    runs[j].path # NoPath, runs[i].path # NoPath, runs[j].exit = OK
             PROVE  FALSE
  BY DEF UsageErrorIsHopeless
<1> DEFINE r == runs[i]
           s == runs[j]
<1>1. Ended(r) /\ Ended(s)
  BY DEF CommandInv, Ran
<1>2. FlagChecks(r.argv, r.path) = FlagChecks(s.argv, s.path)
  <2>1. (r.path = NoPath) = (s.path = NoPath)
    OBVIOUS
  <2> QED
    BY <2>1, Zenon DEF FlagChecks
<1>3. FlagsPass(r) <=> FlagsPass(s)
  BY <1>2 DEF FlagsPass
<1>4. OK # Usage
  BY DEF OK, Usage
<1> HIDE DEF r, s
<1>5. /\ \/ ~FlagsPass(r) /\ FirstFailure(FlagChecks(r.argv, r.path)) = Usage
         \/ FlagsPass(r) /\ UsageInWork(r.argv)
      /\ \/ ~FlagsPass(s) /\ FirstFailure(FlagChecks(s.argv, s.path)) = OK
         \/ FlagsPass(s) /\ ~UsageInWork(s.argv)
  BY <1>1, ExitsMean DEF r, s
<1> QED
  BY <1>2, <1>3, <1>4, <1>5 DEF r, s

(* UsageErrorIsHopeless: a command line that once was a usage error never  *)
(* succeeds, whatever is saved to the files. *)
THEOREM UsageErrorsStay == Spec => []UsageErrorIsHopeless
<1> QED
  BY CommandInvariant, HopelessUsage, PTL

-------------------------------------------------------------------------------
(* What is minted *)

LEMMA LeastIsMin ==
  ASSUME NEW I \in SUBSET Nat, I # {}
  PROVE  Min(I) \in I
<1> DEFINE m == CHOOSE x \in I : \A y \in I : x <= y
<1>1. PICK x \in I : \A y \in I : x <= y
  BY LeastNumber
<1>2. m \in I
  BY <1>1
<1>3. Min(I) = m
  BY DEF Min
<1> HIDE DEF m
<1> QED
  BY <1>2, <1>3

LEMMA PersonaIndex ==
  ASSUME NEW cfg, NEW name, PersonaNamed(cfg, name) # 0
  PROVE  PersonaNamed(cfg, name) \in 1..Len(cfg.Personas)
<1> DEFINE I == {i \in 1..Len(cfg.Personas) : cfg.Personas[i].Name = name}
<1>1. PersonaNamed(cfg, name) = IF I # {} THEN Min(I) ELSE 0
  BY DEF PersonaNamed, SelectInSeq
<1>2. I \subseteq Nat /\ I \subseteq 1..Len(cfg.Personas)
  OBVIOUS
<1> HIDE DEF I
<1> QED
  BY <1>1, <1>2, LeastIsMin

(* The claims a persona can release. *)
Releasable(p) ==
  (IF p.Email # "" THEN {"email", "email_verified"} ELSE {})
  \union (IF p.Groups # <<>> THEN {"groups"} ELSE {})
  \union DOMAIN p.Claims

LEMMA OnePair == \A n, v : IsObject(<< <<n, v>> >>) /\ Names(<< <<n, v>> >>) = {n}
<1> SUFFICES ASSUME NEW n, NEW v PROVE IsObject(<< <<n, v>> >>) /\ Names(<< <<n, v>> >>) = {n}
  OBVIOUS
<1>1. IsSeq(<< <<n, v>> >>) /\ ToSet(<< <<n, v>> >>) = {<<n, v>>}
  BY OneItem
<1> QED
  BY <1>1, NamesOf DEF IsObject

LEMMA Followed ==
  ASSUME NEW o, IsObject(o), NEW p, IsObject(p)
  PROVE  IsObject(o \o p) /\ Names(o \o p) = Names(o) \union Names(p)
<1>1. IsSeq(o \o p) /\ ToSet(o \o p) = ToSet(o) \union ToSet(p)
  BY Joined DEF IsObject
<1>2. \A q, n : n \in Names(q) <=> \E pair \in ToSet(q) : pair[1] = n
  BY NamesOf
<1>3. \A n : n \in Names(o \o p) <=> n \in Names(o) \/ n \in Names(p)
  BY <1>1, <1>2
<1>4. IsObject(o \o p)
  BY <1>1 DEF IsObject
<1> QED
  BY <1>3, <1>4

LEMMA ReleasedPairsAre ==
  ASSUME NEW p, NEW scopes
  PROVE  IsObject(ReleasedPairs(p, scopes)) /\ Names(ReleasedPairs(p, scopes)) \subseteq Releasable(p)
<1> DEFINE one == << <<"email", p.Email>> >>
           two == << <<"email_verified", p.EmailVerified>> >>
           mail == HasScope(scopes, "email") /\ p.Email # ""
           some == HasScope(scopes, "groups") /\ p.Groups # <<>>
           first == IF mail THEN << <<"email", p.Email>>, <<"email_verified", p.EmailVerified>> >> ELSE <<>>
           second == IF some THEN << <<"groups", p.Groups>> >> ELSE <<>>
<1>1. ReleasedPairs(p, scopes) = first \o second
  BY DEF ReleasedPairs
<1>2. IsObject(first) /\ Names(first) \subseteq Releasable(p)
  <2>1. CASE mail
    <3>1. first = << <<"email", p.Email>>, <<"email_verified", p.EmailVerified>> >>
      BY <2>1
    <3>2. << <<"email", p.Email>>, <<"email_verified", p.EmailVerified>> >> = one \o two
      OBVIOUS
    <3>3. IsObject(one) /\ Names(one) = {"email"} /\ IsObject(two) /\ Names(two) = {"email_verified"}
      BY OnePair
    <3>5. first = one \o two
      BY <3>1, <3>2
    <3> HIDE DEF first, one, two
    <3>4. IsObject(first) /\ Names(first) = {"email", "email_verified"}
      <4>1. IsObject(one \o two) /\ Names(one \o two) = Names(one) \union Names(two)
        BY <3>3, Followed
      <4> QED
        BY <3>3, <3>5, <4>1
    <3> QED
      BY <2>1, <3>4 DEF Releasable
  <2>2. CASE ~mail
    <3>1. first = NewObj
      BY <2>2 DEF NewObj
    <3> QED
      BY <3>1, EmptyObject
  <2> QED
    BY <2>1, <2>2
<1>3. IsObject(second) /\ Names(second) \subseteq Releasable(p)
  <2>1. CASE some
    <3>1. second = << <<"groups", p.Groups>> >>
      BY <2>1
    <3> HIDE DEF second
    <3>2. IsObject(second) /\ Names(second) = {"groups"}
      BY <3>1, OnePair
    <3> QED
      BY <2>1, <3>2 DEF Releasable
  <2>2. CASE ~some
    <3>1. second = NewObj
      BY <2>2 DEF NewObj
    <3> QED
      BY <3>1, EmptyObject
  <2> QED
    BY <2>1, <2>2
<1> HIDE DEF first, second
<1> QED
  BY <1>1, <1>2, <1>3, Followed

LEMMA PersonaClaimsAre ==
  ASSUME NEW o, IsObject(o), NEW p, NEW scopes, NEW walk, IsOrder(walk)
  PROVE  LET all == AddPersonaClaims(o, p, scopes, walk)
         IN IsObject(all) /\ Names(o) \subseteq Names(all) /\ Names(all) \subseteq Names(o) \union Releasable(p)
<1> DEFINE released == SetAll(o, ReleasedPairs(p, scopes))
           all == AddPersonaClaims(o, p, scopes, walk)
<1>1. /\ IsObject(released) /\ Names(released) = Names(o) \union Names(ReleasedPairs(p, scopes))
  BY ReleasedPairsAre, AllSet
<1>2. Names(released) \subseteq Names(o) \union Releasable(p)
  BY <1>1, ReleasedPairsAre
<1>3. all = IF HasScope(scopes, "profile") THEN SetSorted(released, p.Claims, walk) ELSE released
  BY DEF AddPersonaClaims
<1> HIDE DEF released, all
<1>4. CASE ~HasScope(scopes, "profile")
  BY <1>1, <1>2, <1>3, <1>4 DEF all
<1>5. CASE HasScope(scopes, "profile")
  <2>1. /\ all = SetAll(released, PairsOf(p.Claims))
        /\ IsObject(PairsOf(p.Claims)) /\ Names(PairsOf(p.Claims)) \subseteq DOMAIN p.Claims
    BY <1>3, <1>5, SetSortedPairs
  <2>2. IsObject(all) /\ Names(all) = Names(released) \union Names(PairsOf(p.Claims))
    BY <1>1, <2>1, AllSet
  <2>3. DOMAIN p.Claims \subseteq Releasable(p)
    BY DEF Releasable
  <2> QED
    BY <1>1, <1>2, <2>1, <2>2, <2>3 DEF all
<1> QED
  BY <1>4, <1>5

(* The registered claims of either token. *)
LEMMA LongObject ==
  ASSUME NEW o, NEW n \in Nat, IsFunctionOn(o, 1..n), NEW names,
         \A i \in 1..n : o[i] = <<o[i][1], o[i][2]>> /\ o[i][1] \in names
  PROVE  /\ IsObject(o) /\ Names(o) \subseteq names
         /\ \A i \in 1..n : o[i][1] \in Names(o) /\ o[i] \in ToSet(o)
<1>1. DOMAIN o = 1..n
  BY DEF IsFunctionOn
<1>2. o \in [1..n -> ToSet(o)]
  BY <1>1 DEF IsFunctionOn, ToSet
<1>3. IsSeq(o)
  BY <1>2, Listed
<1>4. IsObject(o)
  BY <1>1, <1>3 DEF IsObject, ToSet
<1>5. Names(o) \subseteq names /\ \A i \in 1..n : o[i][1] \in Names(o) /\ o[i] \in ToSet(o)
  BY <1>1 DEF Names, ToSet
<1> QED
  BY <1>4, <1>5

LEMMA IDClaims ==
  ASSUME NEW cfg, NEW p, NEW client, NEW nonce, NEW scopes, NEW at, NEW walk, IsOrder(walk)
  PROVE  LET claims == IDTokenClaims(cfg, p, client, nonce, scopes, at, walk)
         IN IsObject(claims) /\ Names(claims) # {}
            /\ Names(claims) \subseteq AlwaysSupported \union Releasable(p)
<1> DEFINE six == << <<"iss", cfg.Issuer>>, <<"sub", p.Subject>>, <<"aud", client>>,
                     <<"exp", at + cfg.TTL>>, <<"iat", at>>, <<"auth_time", at>> >>
           one == IF nonce # "" THEN << <<"nonce", nonce>> >> ELSE <<>>
           claims == IDTokenClaims(cfg, p, client, nonce, scopes, at, walk)
<1>1. claims = AddPersonaClaims(six \o one, p, scopes, walk)
  BY DEF IDTokenClaims
<1>2. IsObject(six) /\ Names(six) \subseteq AlwaysSupported /\ Names(six) # {}
  <2>1. IsFunctionOn(six, 1..6)
    BY DEF IsFunctionOn
  <2>2. \A i \in 1..6 : six[i] = <<six[i][1], six[i][2]>> /\ six[i][1] \in AlwaysSupported
    BY DEF AlwaysSupported
  <2> HIDE DEF six
  <2>3. IsObject(six) /\ Names(six) \subseteq AlwaysSupported /\ \A i \in 1..6 : six[i][1] \in Names(six)
    BY <2>1, <2>2, LongObject
  <2>4. 1 \in 1..6
    OBVIOUS
  <2> QED
    BY <2>3, <2>4
<1>3. IsObject(one) /\ Names(one) \subseteq AlwaysSupported
  <2>1. CASE nonce # ""
    <3>1. one = << <<"nonce", nonce>> >>
      BY <2>1
    <3> HIDE DEF one
    <3> QED
      BY <3>1, OnePair DEF AlwaysSupported
  <2>2. CASE nonce = ""
    <3>1. one = NewObj
      BY <2>2 DEF NewObj
    <3> QED
      BY <3>1, EmptyObject
  <2> QED
    BY <2>1, <2>2
<1> HIDE DEF six, one, claims
<1>4. IsObject(six \o one) /\ Names(six \o one) = Names(six) \union Names(one)
  BY <1>2, <1>3, Followed
<1>5. /\ IsObject(claims) /\ Names(six \o one) \subseteq Names(claims)
      /\ Names(claims) \subseteq Names(six \o one) \union Releasable(p)
  BY <1>1, <1>4, PersonaClaimsAre
<1> QED
  BY <1>2, <1>3, <1>4, <1>5 DEF claims

LEMMA AccessClaims ==
  ASSUME NEW cfg, NEW p, NEW client, NEW scopes, NEW at, NEW walk, IsOrder(walk)
  PROVE  LET claims == AccessTokenClaims(cfg, p, client, scopes, at, walk)
         IN IsObject(claims) /\ Names(claims) # {}
            /\ Names(claims) \subseteq RegisteredNames \union Releasable(p)
<1> DEFINE nine == << <<"iss", cfg.Issuer>>, <<"sub", p.Subject>>, <<"aud", client>>,
                      <<"client_id", client>>, <<"exp", at + cfg.TTL>>, <<"iat", at>>,
                      <<"jti", DeriveID(cfg, p.Subject, client, at, scopes)>>,
                      <<"scope", scopes>>, <<"token_use", "access">> >>
           claims == AccessTokenClaims(cfg, p, client, scopes, at, walk)
<1>1. claims = AddPersonaClaims(nine, p, scopes, walk)
  BY DEF AccessTokenClaims
<1>2. IsObject(nine) /\ Names(nine) \subseteq RegisteredNames /\ Names(nine) # {}
  <2>1. IsFunctionOn(nine, 1..9)
    BY DEF IsFunctionOn
  <2>2. \A i \in 1..9 : nine[i] = <<nine[i][1], nine[i][2]>> /\ nine[i][1] \in RegisteredNames
    BY DEF RegisteredNames
  <2> HIDE DEF nine
  <2>3. IsObject(nine) /\ Names(nine) \subseteq RegisteredNames /\ \A i \in 1..9 : nine[i][1] \in Names(nine)
    BY <2>1, <2>2, LongObject
  <2>4. 1 \in 1..9
    OBVIOUS
  <2> QED
    BY <2>3, <2>4
<1> HIDE DEF nine, claims
<1>3. /\ IsObject(claims) /\ Names(nine) \subseteq Names(claims)
      /\ Names(claims) \subseteq Names(nine) \union Releasable(p)
  BY <1>1, <1>2, PersonaClaimsAre
<1> QED
  BY <1>2, <1>3 DEF claims

LEMMA NamesAreRegistered ==
  ASSUME NEW cfg, GoodConfig(cfg), NEW p \in ToSet(cfg.Personas)
  PROVE  /\ AlwaysSupported \union Releasable(p) \subseteq ToSet(NameOrder)
         /\ RegisteredNames \union Releasable(p) \subseteq ToSet(NameOrder)
<1>1. AlwaysSupported \subseteq RegisteredNames
  BY DEF AlwaysSupported, RegisteredNames
<1>2. {"email", "email_verified", "groups"} \subseteq RegisteredNames
  BY DEF RegisteredNames
<1>3. RegisteredNames \subseteq ToSet(NameOrder)
  BY CommandAssumption
<1>4. DOMAIN p.Claims \subseteq ToSet(NameOrder)
  BY DEF GoodConfig
<1>5. Releasable(p) \subseteq ToSet(NameOrder)
  BY <1>2, <1>3, <1>4 DEF Releasable
<1> QED
  BY <1>1, <1>3, <1>5

(* A command that printed a token did so with a good configuration, and    *)
(* the claims of the token are those of one of its personas. *)
Wrote(r) ==
  \E walk \in Walks : r.stdout[2] = MintedToken(r.argv, r.cfg, r.key, r.clock, walk)

LEMMA MintedRuns ==
  ASSUME CommandInv, NEW i \in Minted
  PROVE  /\ i \in DOMAIN runs /\ runs[i].argv.cmd = "mint"
         /\ GoodConfig(runs[i].cfg) /\ Wrote(runs[i])
         /\ PersonaNamed(runs[i].cfg, runs[i].argv.persona) # 0
<1> DEFINE r == runs[i]
<1>1. i \in DOMAIN runs /\ r.argv.cmd = "mint" /\ r.stdout # <<>>
  BY DEF Minted
<1>2. Ended(r)
  BY <1>1 DEF CommandInv, Ran
<1> HIDE DEF r
<1>3. FlagOutput(r.argv) = <<>>
  BY <1>1 DEF FlagOutput, VersionWords, HelpWords
<1>4. Done(r)
  BY <1>1, <1>2, <1>3 DEF Ended, RefusedByFlags, NoConfigFound, NoKeyFound, RefusedByCommand, Served
<1>5. GoodConfig(r.cfg) /\ Passes(MintChecks(r.argv, r.cfg, r.key))
  BY <1>1, <1>4 DEF Done, HasKey, HasConfig, CommandChecks
<1>6. PICK walk \in Walks : r.stdout = <<"token", MintedToken(r.argv, r.cfg, r.key, r.clock, walk)>>
  BY <1>1, <1>4 DEF Done, Stdout
<1>7. Wrote(r)
  BY <1>6 DEF Wrote
<1>8. PersonaNamed(r.cfg, r.argv.persona) # 0
  <2> DEFINE checks == MintChecks(r.argv, r.cfg, r.key)
  <2>1. 1 \in DOMAIN checks /\ checks[1] = Check(PersonaNamed(r.cfg, r.argv.persona) = 0, Fails)
    BY DEF MintChecks
  <2> HIDE DEF checks
  <2>2. ~checks[1].fails
    BY <1>5, <2>1, PassesEach DEF checks
  <2>3. checks[1].fails = (PersonaNamed(r.cfg, r.argv.persona) = 0)
    BY <2>1, CheckFields
  <2> QED
    BY <2>2, <2>3
<1> QED
  BY <1>1, <1>5, <1>7, <1>8 DEF r

(* The token of such a run, and its claims. *)
SignedBy(r, claims) ==
  /\ r.stdout[2] = SignJWT(r.key, claims)
  /\ IsObject(claims) /\ Names(claims) # {} /\ Names(claims) \subseteq ToSet(NameOrder)
  /\ r.argv.kind = "id" =>
       \E p \in ToSet(r.cfg.Personas) : Names(claims) \subseteq AlwaysSupported \union Releasable(p)

LEMMA MintedTokens ==
  ASSUME CommandInv, NEW i \in Minted
  PROVE  \E claims : SignedBy(runs[i], claims)
<1> DEFINE r == runs[i]
           p == r.cfg.Personas[PersonaNamed(r.cfg, r.argv.persona)]
           at == IF r.argv.at # NoTime THEN r.argv.at ELSE IssueTime(r.cfg, r.clock)
           scopes == SplitScope(r.argv.scope)
           ID(walk) == IDTokenClaims(r.cfg, p, r.argv.client, r.argv.nonce, scopes, at, walk)
           Access(walk) == AccessTokenClaims(r.cfg, p, r.argv.client, scopes, at, walk)
<1>1. GoodConfig(r.cfg) /\ Wrote(r) /\ PersonaNamed(r.cfg, r.argv.persona) # 0
  BY MintedRuns
<1>2. p \in ToSet(r.cfg.Personas)
  <2> DEFINE k == PersonaNamed(r.cfg, r.argv.persona)
  <2>1. k \in 1..Len(r.cfg.Personas)
    BY <1>1, PersonaIndex
  <2>2. DOMAIN r.cfg.Personas = 1..Len(r.cfg.Personas)
    BY <1>1 DEF GoodConfig
  <2> HIDE DEF k, r
  <2> QED
    BY <2>1, <2>2 DEF ToSet, k
<1>3. PICK walk \in Walks : r.stdout[2] = MintedToken(r.argv, r.cfg, r.key, r.clock, walk)
  BY <1>1 DEF Wrote
<1>4. r.stdout[2] = SignJWT(r.key, IF r.argv.kind = "id" THEN ID(walk) ELSE Access(walk))
  BY <1>3, Zenon DEF MintedToken
<1>5. IsOrder(walk)
  BY NameOrderIsOrder
<1>6. /\ IsObject(ID(walk)) /\ Names(ID(walk)) # {}
      /\ Names(ID(walk)) \subseteq AlwaysSupported \union Releasable(p)
  BY <1>5, IDClaims
<1>7. /\ IsObject(Access(walk)) /\ Names(Access(walk)) # {}
      /\ Names(Access(walk)) \subseteq RegisteredNames \union Releasable(p)
  BY <1>5, AccessClaims
<1>8. /\ AlwaysSupported \union Releasable(p) \subseteq ToSet(NameOrder)
      /\ RegisteredNames \union Releasable(p) \subseteq ToSet(NameOrder)
  BY <1>1, <1>2, NamesAreRegistered
<1> HIDE DEF ID, Access, p, at, scopes, r
<1>9. CASE r.argv.kind = "id"
  <2>1. SignedBy(r, ID(walk))
    BY <1>2, <1>4, <1>6, <1>8, <1>9 DEF SignedBy
  <2> QED
    BY <2>1 DEF r
<1>10. CASE r.argv.kind # "id"
  <2>1. SignedBy(r, Access(walk))
    BY <1>4, <1>7, <1>8, <1>10 DEF SignedBy
  <2> QED
    BY <2>1 DEF r
<1> QED
  BY <1>9, <1>10

(* An entry of an object that has its name to itself. *)
LEMMA GetOf ==
  ASSUME NEW o, NEW pair \in ToSet(o), \A q \in ToSet(o) : q[1] = pair[1] => q = pair
  PROVE  Get(o, pair[1]) = pair[2] /\ pair[1] \in Names(o)
<1> DEFINE chosen == CHOOSE q \in ToSet(o) : q[1] = pair[1]
<1>1. chosen \in ToSet(o) /\ chosen[1] = pair[1]
  OBVIOUS
<1>2. Get(o, pair[1]) = chosen[2]
  BY DEF Get
<1> HIDE DEF chosen
<1> QED
  BY <1>1, <1>2, NamesOf

LEMMA GetOfThree ==
  ASSUME NEW n1, NEW n2, NEW n3, n1 # n2, n2 # n3, n1 # n3, NEW v1, NEW v2, NEW v3
  PROVE  LET o == << <<n1, v1>>, <<n2, v2>>, <<n3, v3>> >>
         IN /\ AsMap(o)[n1] = v1 /\ AsMap(o)[n2] = v2 /\ AsMap(o)[n3] = v3
            /\ Get(o, n1) = v1 /\ Get(o, n2) = v2
<1> DEFINE o == << <<n1, v1>>, <<n2, v2>>, <<n3, v3>> >>
<1>1. ToSet(o) = {<<n1, v1>>, <<n2, v2>>, <<n3, v3>>}
  BY ThreeItems
<1> HIDE DEF o
<1>2. ASSUME NEW pair \in ToSet(o), NEW q \in ToSet(o), q[1] = pair[1] PROVE q = pair
  BY <1>1, <1>2
<1>3. \A pair \in ToSet(o) : Get(o, pair[1]) = pair[2] /\ pair[1] \in Names(o)
  BY <1>2, GetOf
<1>4. \A pair \in ToSet(o) : AsMap(o)[pair[1]] = pair[2]
  BY <1>3 DEF AsMap
<1>5. /\ <<n1, v1>>[1] = n1 /\ <<n1, v1>>[2] = v1 /\ <<n2, v2>>[1] = n2 /\ <<n2, v2>>[2] = v2
      /\ <<n3, v3>>[1] = n3 /\ <<n3, v3>>[2] = v3
  OBVIOUS
<1>6. /\ AsMap(o)[n1] = v1 /\ AsMap(o)[n2] = v2 /\ AsMap(o)[n3] = v3
      /\ Get(o, n1) = v1 /\ Get(o, n2) = v2
  BY <1>1, <1>3, <1>4, <1>5
<1> QED
  BY <1>6 DEF o

(* The claims that discovery lists. *)
LEMMA SupportedClaims ==
  ASSUME NEW cfg, GoodConfig(cfg), NEW walk, IsOrder(walk), NEW p \in ToSet(cfg.Personas)
  PROVE  AlwaysSupported \union Releasable(p) \subseteq ToSet(ClaimsSupported(cfg, walk))
<1> DEFINE set == AlwaysSupported \union UNION {Releasable(q) : q \in ToSet(cfg.Personas)}
<1>1. ClaimsSupported(cfg, walk) = Sorted(Keep(walk, set))
  BY DEF ClaimsSupported, Releasable
<1>2. AlwaysSupported \union Releasable(p) \subseteq set
  OBVIOUS
<1>3. AlwaysSupported \union Releasable(p) \subseteq ToSet(NameOrder)
  BY NamesAreRegistered
<1> HIDE DEF set
<1>4. ToSet(Sorted(Keep(walk, set))) = set \intersect ToSet(NameOrder)
  BY SortedWalk
<1> QED
  BY <1>1, <1>2, <1>3, <1>4

LEMMA Announced == CommandInv => DiscoveryAnnouncesClaims
<1> SUFFICES ASSUME CommandInv, NEW i \in Minted, NEW j \in DOMAIN runs,
                    runs[i].argv.kind = "id", runs[j].argv.cmd = "discovery",
                    runs[j].stdout # <<>>, runs[i].cfg = runs[j].cfg
             PROVE  Names(runs[i].stdout[2].claims) \subseteq
                      ToSet(AsMap(runs[j].stdout[2])["claims_supported"])
  BY DEF DiscoveryAnnouncesClaims
<1> DEFINE r == runs[i]
           d == runs[j]
<1>1. PICK claims : SignedBy(r, claims)
  BY MintedTokens
<1>2. PICK p \in ToSet(r.cfg.Personas) : Names(claims) \subseteq AlwaysSupported \union Releasable(p)
  BY <1>1 DEF SignedBy
<1>3. r.stdout[2].claims = claims
  BY <1>1 DEF SignedBy, SignJWT
<1>4. GoodConfig(r.cfg)
  BY MintedRuns
<1>5. Ended(d)
  BY DEF CommandInv, Ran
<1>6. d.argv.cmd = "discovery" /\ d.stdout # <<>> /\ d.cfg = r.cfg
  OBVIOUS
<1> HIDE DEF r, d
<1>7. FlagOutput(d.argv) = <<>>
  BY <1>6 DEF FlagOutput, VersionWords, HelpWords
<1>8. Done(d)
  BY <1>5, <1>6, <1>7 DEF Ended, RefusedByFlags, NoConfigFound, NoKeyFound, RefusedByCommand, Served
<1>9. PICK walk \in Walks : d.stdout = <<"discovery", Discovery(d.cfg, d.key, walk)>>
  BY <1>6, <1>8 DEF Done, Stdout
<1>10. AsMap(d.stdout[2])["claims_supported"] = ClaimsSupported(d.cfg, walk)
  BY <1>9, GetOfThree DEF Discovery
<1>11. AlwaysSupported \union Releasable(p) \subseteq ToSet(ClaimsSupported(d.cfg, walk))
  BY <1>2, <1>4, <1>6, NameOrderIsOrder, SupportedClaims
<1> QED
  BY <1>2, <1>3, <1>10, <1>11 DEF r, d

(* DiscoveryAnnouncesClaims: no ID token holds a claim that the discovery  *)
(* document of the same configuration does not list.                       *)
THEOREM ClaimsAreAnnounced == Spec => []DiscoveryAnnouncesClaims
<1> QED
  BY CommandInvariant, Announced, PTL

-------------------------------------------------------------------------------
(* What decode vouches for *)

LEMMA Signed ==
  ASSUME NEW k, NEW claims, NEW key
  PROVE  Verifies(key, SignJWT(k, claims)) <=> key = k
<1> DEFINE header == << <<"alg", k.alg>>, <<"kid", k.kid>>, <<"typ", "JWT">> >>
           t == SignJWT(k, claims)
<1>1. t = [header |-> header, claims |-> claims, sig |-> Signature(k, header, claims)]
  BY DEF SignJWT
<1>2. "alg" # "kid" /\ "kid" # "typ" /\ "alg" # "typ"
  OBVIOUS
<1>3. Get(header, "alg") = k.alg /\ Get(header, "kid") = k.kid
  BY <1>2, GetOfThree
<1>4. header # NewObj
  BY DEF NewObj
<1> HIDE DEF header, t
<1>5. t.header = header /\ t.claims = claims /\ t.sig = Signature(k, header, claims)
  BY <1>1
<1>6. Decodes(t)
  <2>1. NoToken.header = NewObj
    BY DEF NoToken
  <2> QED
    BY <1>4, <1>5, <2>1 DEF Decodes
<1>7. Signature(k, header, claims) = Signature(key, header, claims) <=> key = k
  BY DEF Signature
<1>8. Verifies(key, t) <=> key = k
  BY <1>3, <1>5, <1>6, <1>7 DEF Verifies
<1> QED
  BY <1>8 DEF t

LEMMA FrontIsShorter ==
  ASSUME NEW o, IsSeq(o), Names(o) # {}
  PROVE  Front(o) # o
<1>1. DOMAIN o = 1..Len(o) /\ Len(o) \in Nat /\ Len(o) # 0
  BY SeqFacts DEF Names
<1> DEFINE n == Len(o)
           sub == SubSeq(o, 1, n - 1)
<1>2. \A i \in 1..(n - 1) : o[i] \in ToSet(o)
  BY <1>1 DEF ToSet
<1>3. Len(sub) = IF 1 <= n - 1 THEN n - 1 - 1 + 1 ELSE 0
  BY <1>1, <1>2, SubSeqProperties
<1>4. Front(o) = sub
  BY DEF Front
<1>5. n \in Nat /\ n # 0 /\ n = Len(o)
  BY <1>1
<1> HIDE DEF sub, n
<1>6. Len(sub) = n - 1
  BY <1>3, <1>5
<1>7. n - 1 # n
  BY <1>5
<1>8. Len(sub) # Len(o)
  BY <1>5, <1>6, <1>7
<1> QED
  BY <1>4, <1>8

LEMMA DamageShows ==
  ASSUME NEW k, NEW claims, IsSeq(claims), Names(claims) # {}, NEW key,
         NEW t, t = [SignJWT(k, claims) EXCEPT !.claims = Front(@)]
  PROVE  ~Verifies(key, t)
<1> DEFINE s == SignJWT(k, claims)
<1>1. /\ s.claims = claims /\ s.sig = Signature(k, s.header, claims)
      /\ {"header", "claims", "sig"} \subseteq DOMAIN s
  BY DEF SignJWT
<1>2. t = [s EXCEPT !.claims = Front(s.claims)]
  OBVIOUS
<1> HIDE DEF s
<1>3. t.claims = Front(claims)
  BY <1>1, <1>2
<1>4. t.sig = s.sig
  BY <1>1, <1>2
<1>5. t.header = s.header
  BY <1>1, <1>2
<1>6. Front(claims) # claims
  BY FrontIsShorter
<1>7. Signature(key, t.header, t.claims) # t.sig
  BY <1>1, <1>3, <1>4, <1>5, <1>6 DEF Signature
<1> QED
  BY <1>7 DEF Verifies

LEMMA NothingVerifies == \A key : ~Verifies(key, NoToken)
BY DEF Verifies, Decodes

(* A token that is presented is vouched for if it was printed, by the key  *)
(* that signed it. *)
LEMMA VouchedTokens ==
  ASSUME CommandInv, NEW t, Given(t), NEW key
  PROVE  Verifies(key, t) <=> \E i \in Minted : runs[i].stdout[2] = t /\ runs[i].key = key
<1>1. ASSUME NEW i \in Minted, runs[i].stdout[2] = t, runs[i].key = key PROVE Verifies(key, t)
  <2>1. PICK claims : SignedBy(runs[i], claims)
    BY MintedTokens
  <2>2. t = SignJWT(key, claims)
    BY <1>1, <2>1 DEF SignedBy
  <2> QED
    BY <2>2, Signed
<1>2. ASSUME Verifies(key, t) PROVE \E i \in Minted : runs[i].stdout[2] = t /\ runs[i].key = key
  <2>1. t # NoToken
    BY <1>2, NothingVerifies
  <2>2. t \notin Damaged
    <3> SUFFICES ASSUME t \in Damaged PROVE FALSE
      OBVIOUS
    <3>1. PICK i \in Minted : t = [runs[i].stdout[2] EXCEPT !.claims = Front(@)]
      BY DEF Damaged, Printed
    <3>2. PICK claims : SignedBy(runs[i], claims)
      BY MintedTokens
    <3>3. /\ t = [SignJWT(runs[i].key, claims) EXCEPT !.claims = Front(@)]
          /\ IsSeq(claims) /\ Names(claims) # {}
      BY <3>1, <3>2 DEF SignedBy, IsObject
    <3> QED
      BY <1>2, <3>3, DamageShows
  <2>3. PICK i \in Minted : runs[i].stdout[2] = t
    BY <2>1, <2>2 DEF Given, Printed
  <2>4. PICK claims : SignedBy(runs[i], claims)
    BY MintedTokens
  <2>5. t = SignJWT(runs[i].key, claims)
    BY <2>3, <2>4 DEF SignedBy
  <2>6. runs[i].key = key
    BY <1>2, <2>5, Signed
  <2> QED
    BY <2>3, <2>6
<1> QED
  BY <1>1, <1>2

(* The claims that are shown are those of the token. *)
LEMMA ShownClaims ==
  ASSUME NEW claims, Names(claims) \subseteq ToSet(NameOrder), NEW walk, IsOrder(walk)
  PROVE  AsMap(SetSorted(NewObj, AsMap(claims), walk)) = AsMap(claims)
<1> DEFINE m == AsMap(claims)
           o == SetSorted(NewObj, m, walk)
<1>1. m = [n \in Names(claims) |-> Get(claims, n)]
  BY DEF AsMap
<1>2. DOMAIN m = Names(claims) /\ IsFunctionOn(m, Names(claims))
  BY <1>1 DEF IsFunctionOn
<1> HIDE DEF m
<1>3. /\ o = SetAll(NewObj, PairsOf(m)) /\ IsObject(PairsOf(m)) /\ Says(PairsOf(m), m)
      /\ Names(PairsOf(m)) = DOMAIN m \intersect ToSet(NameOrder)
  BY SetSortedPairs
<1> HIDE DEF o
<1>4. IsObject(NewObj) /\ Names(NewObj) = {} /\ Says(NewObj, m)
  BY EmptyObject, EmptyList DEF Says, NewObj
<1>5. Names(o) = DOMAIN m /\ Says(o, m)
  BY <1>2, <1>3, <1>4, AllSet
<1>6. \A n \in DOMAIN m : Get(o, n) = m[n]
  BY <1>5, SaidIsMap
<1>7. AsMap(o) = [n \in DOMAIN m |-> Get(o, n)]
  BY <1>5 DEF AsMap
<1>8. AsMap(o) = m
  BY <1>2, <1>6, <1>7 DEF IsFunctionOn
<1> QED
  BY <1>8 DEF o, m

(* Of a run that came as far as its key. *)
LEMMA DecodeRuns ==
  ASSUME NEW r, Ended(r), r.argv.cmd = "decode", r.key # NoKey
  PROVE  /\ r.exit = OK <=> Verifies(r.key, r.argv.token)
         /\ r.exit = OK => \E walk \in Walks : r.stdout = <<"decoded", Decoded(r.argv.token, walk)>>
<1> DEFINE checks == DecodeChecks(r.argv, r.key)
<1>1. OK # Fails /\ OK # Usage
  BY DEF OK, Fails, Usage
<1>2. RefusedByCommand(r) \/ Done(r)
  BY DEF Ended, RefusedByFlags, NoConfigFound, NoKeyFound, Served, HasNothing, LacksKey
<1>3. /\ CommandChecks(r.argv, r.cfg, r.key) = checks
      /\ Passes(checks) <=> Verifies(r.key, r.argv.token)
      /\ SaysOf(checks, r.argv)
  BY DecodeSays DEF CommandChecks
<1> HIDE DEF checks
<1>4. CASE RefusedByCommand(r)
  <2>1. ~Passes(checks) /\ r.exit = FirstFailure(checks)
    BY <1>3, <1>4 DEF RefusedByCommand
  <2>2. r.exit # OK
    BY <1>1, <1>3, <2>1 DEF SaysOf
  <2> QED
    BY <1>3, <2>1, <2>2
<1>5. CASE Done(r)
  <2>1. /\ Passes(checks) /\ r.exit = OK
        /\ \E walk \in Walks : r.stdout = Stdout(r.argv, r.cfg, r.key, r.clock, walk)
    BY <1>3, <1>5 DEF Done
  <2>2. PICK walk \in Walks : r.stdout = Stdout(r.argv, r.cfg, r.key, r.clock, walk)
    BY <2>1
  <2>3. r.stdout = <<"decoded", Decoded(r.argv.token, walk)>>
    BY <2>2 DEF Stdout
  <2> QED
    BY <1>3, <2>1, <2>3
<1> QED
  BY <1>2, <1>4, <1>5

LEMMA DecodesMinted == CommandInv => DecodesWhatWasMinted
<1> SUFFICES ASSUME CommandInv, NEW j \in DOMAIN runs, runs[j].argv.cmd = "decode", runs[j].key # NoKey
             PROVE  /\ runs[j].exit = OK <=> \E i \in MintedBy(runs[j]) : runs[i].key = runs[j].key
                    /\ runs[j].exit = OK => AsMap(AsMap(runs[j].stdout[2])["claims"])
                                              = AsMap(runs[j].argv.token.claims)
  BY DEF DecodesWhatWasMinted
<1> DEFINE r == runs[j]
           t == r.argv.token
<1>1. Ended(r) /\ Given(t)
  BY DEF CommandInv, Ran
<1>2. r.argv.cmd = "decode" /\ r.key # NoKey
  OBVIOUS
<1> HIDE DEF r
<1>3. /\ r.exit = OK <=> Verifies(r.key, t)
      /\ r.exit = OK => \E walk \in Walks : r.stdout = <<"decoded", Decoded(t, walk)>>
  BY <1>1, <1>2, DecodeRuns
<1>4. Verifies(r.key, t) <=> \E i \in Minted : runs[i].stdout[2] = t /\ runs[i].key = r.key
  BY <1>1, VouchedTokens
<1>5. (r.exit = OK) <=> \E i \in MintedBy(r) : runs[i].key = r.key
  BY <1>3, <1>4 DEF MintedBy
<1>6. ASSUME r.exit = OK PROVE AsMap(AsMap(r.stdout[2])["claims"]) = AsMap(t.claims)
  <2>1. PICK walk \in Walks : r.stdout = <<"decoded", Decoded(t, walk)>>
    BY <1>3, <1>6
  <2>2. PICK i \in Minted : runs[i].stdout[2] = t
    BY <1>3, <1>4, <1>6
  <2>3. PICK claims : SignedBy(runs[i], claims)
    BY MintedTokens
  <2>4. t.claims = claims /\ Names(claims) \subseteq ToSet(NameOrder)
    BY <2>2, <2>3 DEF SignedBy, SignJWT
  <2> DEFINE shown == SetSorted(NewObj, AsMap(t.claims), walk)
  <2>5. r.stdout[2] = << <<"header", SetSorted(NewObj, AsMap(t.header), walk)>>,
                         <<"claims", shown>>, <<"signature", "verified">> >>
    BY <2>1 DEF Decoded
  <2> HIDE DEF shown
  <2>6. AsMap(r.stdout[2])["claims"] = shown
    BY <2>5, GetOfThree
  <2>7. AsMap(shown) = AsMap(t.claims)
    BY <2>4, NameOrderIsOrder, ShownClaims DEF shown
  <2> QED
    BY <2>6, <2>7
<1> QED
  BY <1>5, <1>6 DEF r

(* DecodesWhatWasMinted: decode vouches for exactly the tokens that were   *)
(* minted with the key it loads, and shows the claims they were signed     *)
(* with, through any edit of the files.                                    *)
THEOREM DecodeVouches == Spec => []DecodesWhatWasMinted
<1> QED
  BY CommandInvariant, DecodesMinted, PTL

-------------------------------------------------------------------------------
(* A command prints the same from the same files. *)

(* No order in which a map is walked shows in what is printed, and the     *)
(* clock only in a token that is minted at the present. *)
LEMMA SortedAnyhow ==
  ASSUME NEW v, IsOrder(v), NEW w, IsOrder(w)
  PROVE  \A o, m : SetSorted(o, m, v) = SetSorted(o, m, w)
<1> SUFFICES ASSUME NEW o, NEW m PROVE SetSorted(o, m, v) = SetSorted(o, m, w)
  OBVIOUS
<1>1. SetSorted(o, m, v) = SetAll(o, PairsOf(m))
  BY SetSortedPairs
<1>2. SetSorted(o, m, w) = SetAll(o, PairsOf(m))
  BY SetSortedPairs
<1> QED
  BY <1>1, <1>2

LEMMA PrintedAnyhow ==
  ASSUME NEW a, NEW cfg, NEW key, NEW t, NEW u, NEW v, IsOrder(v), NEW w, IsOrder(w),
         a.cmd \in ConfigCommands, a.cmd # "serve",
         a.cmd = "mint" /\ a.at = NoTime /\ cfg.IssuedAt = LiveClock => t = u
  PROVE  Stdout(a, cfg, key, t, v) = Stdout(a, cfg, key, u, w)
<1>1. \A o, m : SetSorted(o, m, v) = SetSorted(o, m, w)
  BY SortedAnyhow
<1>2. \A o, p, scopes : AddPersonaClaims(o, p, scopes, v) = AddPersonaClaims(o, p, scopes, w)
  BY <1>1, Zenon DEF AddPersonaClaims
<1>3. ASSUME a.cmd = "mint" PROVE MintedToken(a, cfg, key, t, v) = MintedToken(a, cfg, key, u, w)
  <2> DEFINE p == cfg.Personas[PersonaNamed(cfg, a.persona)]
             scopes == SplitScope(a.scope)
             At(now) == IF a.at # NoTime THEN a.at ELSE IssueTime(cfg, now)
             Claims(at, walk) ==
               IF a.kind = "id" THEN IDTokenClaims(cfg, p, a.client, a.nonce, scopes, at, walk)
                                ELSE AccessTokenClaims(cfg, p, a.client, scopes, at, walk)
  <2>1. At(t) = At(u)
    BY <1>3 DEF IssueTime
  <2>2. \A at : Claims(at, v) = Claims(at, w)
    BY <1>2, Zenon DEF IDTokenClaims, AccessTokenClaims
  <2>3. \A now, walk : MintedToken(a, cfg, key, now, walk) = SignJWT(key, Claims(At(now), walk))
    BY Zenon DEF MintedToken
  <2> HIDE DEF At, Claims
  <2> QED
    BY <2>1, <2>2, <2>3
<1>4. Decoded(a.token, v) = Decoded(a.token, w)
  BY <1>1, Zenon DEF Decoded
<1>5. Discovery(cfg, key, v) = Discovery(cfg, key, w)
  <2>1. \A S : Sorted(Keep(v, S)) = Sorted(Keep(w, S))
    <3> SUFFICES ASSUME NEW S PROVE Sorted(Keep(v, S)) = Sorted(Keep(w, S))
      OBVIOUS
    <3>1. Sorted(Keep(v, S)) = InOrder(S)
      BY SortedWalk
    <3>2. Sorted(Keep(w, S)) = InOrder(S)
      BY SortedWalk
    <3> QED
      BY <3>1, <3>2
  <2>2. ClaimsSupported(cfg, v) = ClaimsSupported(cfg, w)
    BY <2>1, Zenon DEF ClaimsSupported
  <2> QED
    BY <2>2, Zenon DEF Discovery
<1>6. CASE a.cmd = "mint"
  <2>1. \A now, walk : Stdout(a, cfg, key, now, walk) = <<"token", MintedToken(a, cfg, key, now, walk)>>
    BY <1>6 DEF Stdout
  <2> QED
    BY <1>3, <1>6, <2>1
<1>7. CASE a.cmd = "decode"
  BY <1>4, <1>7 DEF Stdout
<1>8. CASE a.cmd = "discovery"
  BY <1>5, <1>8 DEF Stdout
<1>9. CASE a.cmd = "personas"
  BY <1>9 DEF Stdout
<1>10. CASE a.cmd = "jwks"
  BY <1>10 DEF Stdout
<1>11. CASE a.cmd = "validate"
  BY <1>11 DEF Stdout
<1> QED
  BY <1>6, <1>7, <1>8, <1>9, <1>10, <1>11 DEF ConfigCommands

(* The flag checks ask of the path whether there is one. *)
LEMMA SameFlags ==
  ASSUME NEW r, NEW s, IsFilePath(r.path), IsFilePath(s.path),
         FileName(r) = FileName(s), r.argv = s.argv
  PROVE  FlagChecks(r.argv, r.path) = FlagChecks(s.argv, s.path)
<1>1. (r.path = NoPath) = (FileName(r) = "") /\ (s.path = NoPath) = (FileName(s) = "")
  BY DEF IsFilePath, FileName
<1>2. (r.path = NoPath) = (s.path = NoPath)
  BY <1>1
<1> QED
  BY <1>2, Zenon DEF FlagChecks

(* What an untorn command has loaded is what the folder held. *)
LEMMA LoadedFrom ==
  ASSUME NEW r, Ended(r), FlagsPass(r), ~r.torn, KeyIsBeside(r), r.argv.cmd # "serve"
  PROVE  LET cfg == ConfigIn(r.found, FileName(r))
             key == KeyIn(r.found, cfg)
         IN \/ (cfg = NoConfig \/ key = NoKey) /\ r.exit = Fails /\ r.stdout = <<>>
            \/ /\ cfg # NoConfig /\ key # NoKey /\ r.cfg = cfg /\ r.key = key
               /\ RefusedByCommand(r) \/ Done(r)
<1> DEFINE cfg == ConfigIn(r.found, FileName(r))
           key == KeyIn(r.found, cfg)
<1>1. NoKey.alg = "" /\ "" # "EdDSA" /\ "" # "RS256"
  BY DEF NoKey
<1>2. ASSUME HasConfig(r) PROVE r.cfg = cfg /\ cfg # NoConfig
  BY <1>2, GoodIsConfig DEF HasConfig
<1>3. ASSUME HasKey(r) PROVE r.cfg = cfg /\ cfg # NoConfig /\ r.key = key /\ key # NoKey
  <2>1. HasConfig(r) /\ r.key.alg = r.cfg.Algorithm /\ r.key = KeyIn(r.found, r.cfg)
    BY <1>3 DEF HasKey
  <2>2. r.cfg = cfg /\ cfg # NoConfig /\ r.cfg.Algorithm \in {"EdDSA", "RS256"}
    BY <1>2, <2>1 DEF HasConfig, GoodConfig
  <2> HIDE DEF cfg
  <2>3. r.key # NoKey
    BY <1>1, <2>1, <2>2
  <2> QED
    BY <2>1, <2>2, <2>3
<1>4. CASE NoConfigFound(r)
  BY <1>4 DEF NoConfigFound
<1>5. CASE NoKeyFound(r)
  <2>1. r.cfg = cfg
    BY <1>2, <1>5 DEF NoKeyFound, LacksKey
  <2>2. KeyIn(r.found, r.cfg) = NoKey /\ r.exit = Fails /\ r.stdout = <<>>
    BY <1>5 DEF NoKeyFound
  <2> QED
    BY <2>1, <2>2
<1>6. CASE RefusedByCommand(r) \/ Done(r)
  <2>1. HasKey(r)
    BY <1>6 DEF RefusedByCommand, Done
  <2> QED
    BY <1>3, <1>6, <2>1
<1> QED
  BY <1>4, <1>5, <1>6 DEF Ended, RefusedByFlags, Served

LEMMA StableBytes == CommandInv => ByteStable
<1> SUFFICES ASSUME CommandInv, NEW i \in DOMAIN runs, NEW j \in DOMAIN runs,
                    runs[i].argv = runs[j].argv, runs[i].argv.cmd # "serve",
                    runs[i].found = runs[j].found, ~runs[i].torn, ~runs[j].torn,
                    KeyIsBeside(runs[i]), KeyIsBeside(runs[j]),
                    FileName(runs[i]) = FileName(runs[j]),
                    ReadsClock(runs[i]) => runs[i].clock = runs[j].clock
             PROVE  runs[i].stdout = runs[j].stdout /\ runs[i].exit = runs[j].exit
  BY Zenon DEF ByteStable
<1> DEFINE r == runs[i]
           s == runs[j]
<1>1. /\ Ended(r) /\ Ended(s) /\ IsFilePath(r.path) /\ IsFilePath(s.path)
      /\ r.argv = s.argv /\ r.argv.cmd # "serve" /\ r.found = s.found /\ ~r.torn /\ ~s.torn
      /\ KeyIsBeside(r) /\ KeyIsBeside(s) /\ FileName(r) = FileName(s)
      /\ ReadsClock(r) => r.clock = s.clock
  BY DEF CommandInv, Ran
<1> HIDE DEF r, s
<1>2. FlagChecks(r.argv, r.path) = FlagChecks(s.argv, s.path)
  BY <1>1, SameFlags
<1>3. FlagsPass(r) <=> FlagsPass(s)
  BY <1>2 DEF FlagsPass
<1>4. CASE ~FlagsPass(r)
  <2>1. RefusedByFlags(r) /\ RefusedByFlags(s)
    BY <1>1, <1>3, <1>4 DEF Ended, NoConfigFound, NoKeyFound, RefusedByCommand, Done, Served
  <2>2. r.stdout = s.stdout /\ r.exit = s.exit
    BY <1>1, <1>2, <2>1 DEF RefusedByFlags
  <2> QED
    BY <2>2 DEF r, s
<1>5. CASE FlagsPass(r)
  <2> DEFINE cfg == ConfigIn(r.found, FileName(r))
             key == KeyIn(r.found, cfg)
  <2>1. \/ (cfg = NoConfig \/ key = NoKey) /\ r.exit = Fails /\ r.stdout = <<>>
        \/ /\ cfg # NoConfig /\ key # NoKey /\ r.cfg = cfg /\ r.key = key
           /\ RefusedByCommand(r) \/ Done(r)
    BY <1>1, <1>5, LoadedFrom
  <2>2. \/ (cfg = NoConfig \/ key = NoKey) /\ s.exit = Fails /\ s.stdout = <<>>
        \/ /\ cfg # NoConfig /\ key # NoKey /\ s.cfg = cfg /\ s.key = key
           /\ RefusedByCommand(s) \/ Done(s)
    <3>1. cfg = ConfigIn(s.found, FileName(s)) /\ key = KeyIn(s.found, ConfigIn(s.found, FileName(s)))
      BY <1>1
    <3>2. s.argv.cmd # "serve"
      BY <1>1
    <3> QED
      BY <1>1, <1>3, <1>5, <3>1, <3>2, LoadedFrom
  <2> HIDE DEF cfg, key
  <2>3. ASSUME r.cfg = cfg, s.cfg = cfg, r.key = key, s.key = key, cfg # NoConfig,
               RefusedByCommand(r) \/ Done(r), RefusedByCommand(s) \/ Done(s)
        PROVE  r.stdout = s.stdout /\ r.exit = s.exit
    <3>1. CommandChecks(r.argv, r.cfg, r.key) = CommandChecks(s.argv, s.cfg, s.key)
      BY <1>1, <2>3
    <3>2. CASE ~Passes(CommandChecks(r.argv, r.cfg, r.key))
      BY <2>3, <3>1, <3>2 DEF RefusedByCommand, Done
    <3>3. CASE Passes(CommandChecks(r.argv, r.cfg, r.key))
      <4>1. Done(r) /\ Done(s)
        BY <2>3, <3>1, <3>3 DEF RefusedByCommand
      <4>2. PICK v \in Walks : r.stdout = Stdout(r.argv, r.cfg, r.key, r.clock, v)
        BY <4>1 DEF Done
      <4>3. PICK w \in Walks : s.stdout = Stdout(s.argv, s.cfg, s.key, s.clock, w)
        BY <4>1 DEF Done
      <4>4. IsOrder(v) /\ IsOrder(w)
        BY NameOrderIsOrder
      <4>5. r.argv.cmd = "mint" /\ r.argv.at = NoTime /\ cfg.IssuedAt = LiveClock => r.clock = s.clock
        BY <1>1, <2>3 DEF ReadsClock
      <4>6. Stdout(r.argv, cfg, key, r.clock, v) = Stdout(r.argv, cfg, key, s.clock, w)
        BY <1>1, <1>5, <4>4, <4>5, FlagsSay, PrintedAnyhow
      <4>7. r.exit = OK /\ s.exit = OK
        BY <4>1 DEF Done
      <4> QED
        BY <1>1, <2>3, <4>2, <4>3, <4>6, <4>7
    <3> QED
      BY <3>2, <3>3
  <2>4. r.stdout = s.stdout /\ r.exit = s.exit
    BY <2>1, <2>2, <2>3
  <2> QED
    BY <2>4 DEF r, s
<1> QED
  BY <1>4, <1>5

(* "The same persona file mints the same token bytes on every machine":    *)
(* no command but serve shows, in what it prints or in its exit code,      *)
(* where it was run, how its file was named, how Go walked its maps, nor   *)
(* the clock unless it was to mint at the present (issuer.go, json.go). *)
THEOREM SameFilesSameBytes == Spec => []ByteStable
<1>1. Spec => []CommandInv
  BY CommandInvariant
<1> QED
  BY <1>1, StableBytes, PTL

===============================================================================
