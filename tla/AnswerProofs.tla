---------------------------- MODULE AnswerProofs ------------------------------
(***************************************************************************)
(* Lemmas about sequences and lists of checks, whoever decides by them,    *)
(* and induction over the natural numbers as a fact about sets.            *)
(***************************************************************************)
EXTENDS Answers, SequencesExt, SequenceTheorems, WellFoundedInduction, TLAPS

(* A set of numbers has a least element. *)
LEMMA LeastNumber ==
  ASSUME NEW S \in SUBSET Nat, S # {}
  PROVE  \E n \in S : \A m \in S : n <= m
<1>1. PICK n \in S : \A m \in S : ~(<<m, n>> \in OpToRel(<, Nat))
  BY NatLessThanWellFounded, WFMin
<1>2. ASSUME NEW m \in S PROVE n <= m
  <2>1. n \in Nat /\ m \in Nat
    OBVIOUS
  <2>2. ~(m < n)
    BY <1>1, <2>1 DEF OpToRel
  <2> QED
    BY <2>1, <2>2
<1> QED
  BY <1>2

(* Induction, for the set of the numbers that have a property. *)
LEMMA Induction ==
  ASSUME NEW S, 0 \in S, \A n \in Nat : n \in S => n + 1 \in S
  PROVE  Nat \subseteq S
<1> SUFFICES ASSUME Nat \ S # {} PROVE FALSE
  OBVIOUS
<1>1. PICK n \in Nat \ S : \A m \in Nat \ S : n <= m
  BY LeastNumber
<1>2. n - 1 \in Nat /\ n - 1 \in S
  BY <1>1
<1> QED
  BY <1>1, <1>2

(* Functions, whatever they are of. *)
IsFunctionOn(f, S) == f = [x \in S |-> f[x]]

LEMMA SameFunction ==
  ASSUME NEW S, NEW f, NEW g, IsFunctionOn(f, S), IsFunctionOn(g, S),
         \A x \in S : f[x] = g[x]
  PROVE  f = g
<1>1. [x \in S |-> f[x]] = [x \in S |-> g[x]]
  OBVIOUS
<1> QED
  BY <1>1, Zenon DEF IsFunctionOn

(* A recursion over the numbers from 1 to n, with its steps as a function. *)
Unfolds(f, n, start, step) ==
  f[0] = start /\ \A i \in 1..n : f[i] = step[<<i, f[i - 1]>>]

LEMMA Recursion ==
  ASSUME NEW n \in Nat, NEW X, NEW start \in X, NEW step \in [(1..n) \X X -> X]
  PROVE  \E f \in [0..n -> X] : Unfolds(f, n, start, step)
<1> DEFINE S == {m \in Nat : m <= n => \E f \in [0..m -> X] : Unfolds(f, m, start, step)}
<1>1. 0 \in S
  <2> DEFINE f == [i \in 0..0 |-> start]
  <2>1. f \in [0..0 -> X] /\ Unfolds(f, 0, start, step)
    BY DEF Unfolds
  <2> HIDE DEF f
  <2> QED
    BY <2>1
<1>2. ASSUME NEW m \in Nat, m \in S PROVE m + 1 \in S
  <2> SUFFICES ASSUME m + 1 <= n PROVE \E g \in [0..(m + 1) -> X] : Unfolds(g, m + 1, start, step)
    OBVIOUS
  <2>1. PICK f \in [0..m -> X] : Unfolds(f, m, start, step)
    BY <1>2
  <2> DEFINE last == step[<<m + 1, f[m]>>]
             g == [i \in 0..(m + 1) |-> IF i = m + 1 THEN last ELSE f[i]]
  <2>2. last \in X
    <3>1. f[m] \in X /\ m + 1 \in 1..n
      OBVIOUS
    <3> QED
      BY <3>1
  <2>3. g \in [0..(m + 1) -> X] /\ g[m + 1] = last /\ \A i \in 0..m : g[i] = f[i]
    <3> HIDE DEF last
    <3> QED
      BY <2>2
  <2> HIDE DEF g
  <2>4. g[0] = start
    BY <2>1, <2>3 DEF Unfolds
  <2>5. ASSUME NEW i \in 1..(m + 1) PROVE g[i] = step[<<i, g[i - 1]>>]
    <3>1. CASE i = m + 1
      <4>1. i - 1 = m /\ g[m] = f[m]
        BY <2>3, <3>1
      <4> QED
        BY <2>3, <3>1, <4>1
    <3>2. CASE i # m + 1
      <4>1. i \in 1..m /\ i \in 0..m /\ i - 1 \in 0..m
        BY <3>2
      <4>2. f[i] = step[<<i, f[i - 1]>>]
        BY <2>1, <4>1 DEF Unfolds
      <4> QED
        BY <2>3, <4>1, <4>2
    <3> QED
      BY <3>1, <3>2
  <2>6. Unfolds(g, m + 1, start, step)
    BY <2>4, <2>5 DEF Unfolds
  <2> QED
    BY <2>3, <2>6
<1> HIDE DEF S
<1>3. n \in S
  BY <1>1, <1>2, Induction
<1> QED
  BY <1>3 DEF S

LEMMA PassesEach ==
  ASSUME NEW checks, Passes(checks)
  PROVE  \A i \in DOMAIN checks : ~checks[i].fails
BY DEF Passes

Failing(checks) == {i \in DOMAIN checks : checks[i].fails}

(* Of the checks that fail there is a first, and its answer is given. *)
LEMMA FirstFailing ==
  ASSUME NEW checks, NEW n \in Nat, DOMAIN checks = 1..n, ~Passes(checks)
  PROVE  \E i \in Failing(checks) : /\ \A j \in Failing(checks) : i <= j
                                   /\ FirstFailure(checks) = checks[i].answer
<1> DEFINE First(i) == checks[i].fails /\ \A j \in DOMAIN checks : checks[j].fails => i <= j
           k == CHOOSE k \in DOMAIN checks : First(k)
<1>1. Failing(checks) \subseteq Nat /\ Failing(checks) # {}
  BY DEF Passes, Failing
<1>2. PICK i \in Failing(checks) : \A j \in Failing(checks) : i <= j
  BY <1>1, LeastNumber
<1>3. i \in DOMAIN checks /\ First(i)
  BY <1>2 DEF Failing
<1>4. k \in DOMAIN checks /\ First(k)
  BY <1>3
<1>5. FirstFailure(checks) = checks[k].answer
  BY DEF FirstFailure
<1>6. k \in Failing(checks) /\ \A j \in Failing(checks) : k <= j
  BY <1>4 DEF Failing
<1> HIDE DEF k
<1> QED
  BY <1>5, <1>6

-------------------------------------------------------------------------------
(* Sequences, whatever they contain. *)
IsSeq(s) == s \in Seq(ToSet(s))

LEMMA SeqFacts ==
  ASSUME NEW s, IsSeq(s)
  PROVE  DOMAIN s = 1..Len(s) /\ Len(s) \in Nat
BY DEF IsSeq

LEMMA MadeSeq ==
  ASSUME NEW C, NEW s \in Seq(C)
  PROVE  IsSeq(s) /\ ToSet(s) \subseteq C
<1>1. /\ Len(s) \in Nat /\ DOMAIN s = 1..Len(s) /\ s = [i \in 1..Len(s) |-> s[i]]
      /\ \A i \in 1..Len(s) : s[i] \in C
  OBVIOUS
<1>2. s \in [1..Len(s) -> ToSet(s)]
  BY <1>1 DEF ToSet
<1>3. s \in Seq(ToSet(s))
  BY <1>1, <1>2, SeqDef
<1> QED
  BY <1>1, <1>3 DEF IsSeq, ToSet

LEMMA NoItems ==
  ASSUME NEW s, IsSeq(s)
  PROVE  s = <<>> <=> DOMAIN s = {}
<1>1. s \in Seq(ToSet(s)) /\ Len(s) \in Nat /\ DOMAIN s = 1..Len(s)
  BY DEF IsSeq
<1>2. s = <<>> <=> Len(s) = 0
  BY <1>1, EmptySeq
<1> DEFINE n == Len(s)
<1>3. n \in Nat /\ DOMAIN s = 1..n
  BY <1>1
<1> HIDE DEF n
<1>4. n = 0 <=> 1..n = {}
  BY <1>3
<1> QED
  BY <1>2, <1>3, <1>4 DEF n

LEMMA EmptyList == IsSeq(<<>>) /\ ToSet(<<>>) = {} /\ DOMAIN <<>> = {}
BY DEF IsSeq, ToSet

LEMMA Listed ==
  ASSUME NEW C, NEW n \in Nat, NEW s \in [1..n -> C]
  PROVE  IsSeq(s) /\ s \in Seq(C) /\ Len(s) = n
<1>1. s \in Seq(C)
  BY SeqDef
<1> QED
  BY <1>1, MadeSeq

LEMMA Joined ==
  ASSUME NEW s, NEW t, IsSeq(s), IsSeq(t)
  PROVE  IsSeq(s \o t) /\ ToSet(s \o t) = ToSet(s) \union ToSet(t)
<1> DEFINE C == ToSet(s) \union ToSet(t)
           j == s \o t
<1>1. s \in Seq(C) /\ t \in Seq(C)
  BY DEF IsSeq
<1>2. /\ j \in Seq(C) /\ Len(j) = Len(s) + Len(t)
      /\ \A i \in 1..Len(s) : j[i] = s[i]
      /\ \A i \in 1..Len(t) : j[Len(s) + i] = t[i]
  BY <1>1, ConcatProperties
<1>3. Len(s) \in Nat /\ DOMAIN s = 1..Len(s) /\ Len(t) \in Nat /\ DOMAIN t = 1..Len(t)
  BY <1>1
<1> HIDE DEF j, C
<1>4. IsSeq(j) /\ DOMAIN j = 1..(Len(s) + Len(t))
  BY <1>2, MadeSeq
<1>5. ASSUME NEW i \in DOMAIN j PROVE j[i] \in ToSet(s) \union ToSet(t)
  <2>1. CASE i <= Len(s)
    BY <1>2, <1>3, <1>4, <2>1 DEF ToSet
  <2>2. CASE i > Len(s)
    <3>1. i - Len(s) \in 1..Len(t) /\ Len(s) + (i - Len(s)) = i
      BY <1>3, <1>4, <2>2
    <3> QED
      BY <1>2, <1>3, <3>1 DEF ToSet
  <2> QED
    BY <1>3, <1>4, <2>1, <2>2
<1>6. ASSUME NEW i \in DOMAIN s PROVE s[i] \in ToSet(j)
  BY <1>2, <1>3, <1>4 DEF ToSet
<1>7. ASSUME NEW i \in DOMAIN t PROVE t[i] \in ToSet(j)
  <2>1. Len(s) + i \in DOMAIN j /\ j[Len(s) + i] = t[i]
    BY <1>2, <1>3, <1>4
  <2> QED
    BY <2>1 DEF ToSet
<1>8. ToSet(j) = ToSet(s) \union ToSet(t)
  BY <1>5, <1>6, <1>7 DEF ToSet
<1> QED
  BY <1>4, <1>8 DEF j

(* Lists that are written out. *)
LEMMA OneItem == \A a : IsSeq(<<a>>) /\ ToSet(<<a>>) = {a}
BY DEF IsSeq, ToSet

LEMMA ItemAdded ==
  ASSUME NEW s, IsSeq(s), NEW a
  PROVE  IsSeq(s \o <<a>>) /\ ToSet(s \o <<a>>) = ToSet(s) \union {a}
<1> DEFINE t == <<a>>
<1>1. IsSeq(t) /\ ToSet(t) = {a}
  BY OneItem
<1> HIDE DEF t
<1>2. IsSeq(s \o t) /\ ToSet(s \o t) = ToSet(s) \union ToSet(t)
  BY <1>1, Joined
<1> QED
  BY <1>1, <1>2 DEF t

LEMMA TwoItems == \A a, b : IsSeq(<<a, b>>) /\ ToSet(<<a, b>>) = {a, b}
<1>1. \A a, b : ToSet(<<a, b>>) = {a, b}
  BY DEF ToSet
<1> QED
  BY <1>1 DEF IsSeq

LEMMA ThreeItems == \A a, b, c : IsSeq(<<a, b, c>>) /\ ToSet(<<a, b, c>>) = {a, b, c}
<1>1. \A a, b, c : ToSet(<<a, b, c>>) = {a, b, c}
  BY DEF ToSet
<1> QED
  BY <1>1 DEF IsSeq

LEMMA FourItems ==
  \A a, b, c, d : IsSeq(<<a, b, c, d>>) /\ ToSet(<<a, b, c, d>>) = {a, b, c, d}
<1>1. \A a, b, c, d : ToSet(<<a, b, c, d>>) = {a, b, c, d}
  BY DEF ToSet
<1> QED
  BY <1>1 DEF IsSeq

LEMMA SevenItems ==
  \A a, b, c, d, e, g, h : /\ IsSeq(<<a, b, c, d, e, g, h>>)
                           /\ ToSet(<<a, b, c, d, e, g, h>>) = {a, b, c, d, e, g, h}
<1>1. \A a, b, c, d, e, g, h :
        ToSet(<<a, b, c, d, e, g, h>>) = {a, b, c, d, e, g, h}
  BY DEF ToSet
<1> QED
  BY <1>1 DEF IsSeq

(* Lists of checks. *)
LEMMA PassingItems ==
  ASSUME NEW s
  PROVE  Passes(s) <=> \A x \in ToSet(s) : ~x.fails
BY DEF Passes, ToSet

LEMMA FailingItem ==
  ASSUME NEW s, IsSeq(s), ~Passes(s)
  PROVE  \E x \in ToSet(s) : x.fails /\ FirstFailure(s) = x.answer
<1>1. DOMAIN s = 1..Len(s) /\ Len(s) \in Nat
  BY SeqFacts
<1>2. PICK i \in Failing(s) : FirstFailure(s) = s[i].answer
  BY <1>1, FirstFailing
<1> QED
  BY <1>2 DEF Failing, ToSet

===============================================================================
