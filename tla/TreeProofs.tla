------------------------------ MODULE TreeProofs ------------------------------
(***************************************************************************)
(* The tree the TOML reader grows: it is one, it only grows, every table   *)
(* in it has one name, and every value is where the text says it belongs.  *)
(*                                                                         *)
(* A heap is described by its child relation.  Every line of a file makes  *)
(* steps of two kinds: a new table is hung under a key of an old one, or a *)
(* value is set under a key that is free.                                  *)
(***************************************************************************)
EXTENDS TomlTree, AnswerProofs, FiniteSetTheorems

(* Heaps, whatever they contain. *)
Entries ==
  [kind : {"scalar"}, line : Nat]
  \union [kind : {"array"}, elems : Seq(Nat), line : Nat]
  \union [kind : {"table"}, id : Nat]

Tables == UNION {[keys -> Entries] : keys \in SUBSET STRING}

Heaps == Seq(Tables) \ {<<>>}

(* Table c hangs under key k of table i. *)
Child(h, i, k, c) ==
  i \in DOMAIN h /\ k \in DOMAIN h[i] /\ c \in Children(h[i][k])

Unmixed(entry) ==
  entry.kind = "array" => 0 \notin ToSet(entry.elems) \/ ToSet(entry.elems) = {0}

IsTree(h) ==
  /\ h \in Heaps
  /\ \A i, k, c : Child(h, i, k, c) => c \in DOMAIN h /\ i < c
  /\ \A i, j, k, l, c : Child(h, i, k, c) /\ Child(h, j, l, c) => i = j /\ k = l
  /\ \A c \in DOMAIN h \ {Root} : \E i, k : Child(h, i, k, c)
  /\ \A i \in DOMAIN h : \A k \in DOMAIN h[i] : Unmixed(h[i][k])

(* The name of a table: the keys on the way to it. *)
IsNaming(name, h) ==
  /\ name[Root] = <<>>
  /\ \A i \in DOMAIN h : name[i] \in Seq(STRING)
  /\ \A i, k, c : Child(h, i, k, c) => name[c] = Append(name[i], k)

(* Whatever the heap old holds is in new, in the same place. *)
Grown(old, new) ==
  /\ DOMAIN old \subseteq DOMAIN new
  /\ \A i \in DOMAIN old : \A k \in DOMAIN old[i] :
        k \in DOMAIN new[i] /\ new[i][k] = old[i][k]

-------------------------------------------------------------------------------
(* Entries and their children *)

LEMMA EntryKinds ==
  ASSUME NEW e \in Entries
  PROVE  /\ e.kind = "scalar" => Children(e) = {}
         /\ e.kind = "table"  => e.id \in Nat /\ Children(e) = {e.id}
         /\ e.kind = "array"  => /\ e.elems \in Seq(Nat) /\ e.line \in Nat
                                 /\ Children(e) = ToSet(e.elems) \ {0}
         /\ e.kind \in {"scalar", "table", "array"}
BY DEF Entries, Children

LEMMA HeapFacts ==
  ASSUME NEW h \in Heaps
  PROVE  /\ DOMAIN h = 1..Len(h) /\ Len(h) \in Nat \ {0} /\ Root \in DOMAIN h
         /\ \A i \in DOMAIN h : /\ h[i] \in Tables /\ DOMAIN h[i] \subseteq STRING
                                /\ \A k \in DOMAIN h[i] : h[i][k] \in Entries
<1>1. h \in Seq(Tables) /\ Len(h) \in Nat /\ DOMAIN h = 1..Len(h) /\ Len(h) # 0
  BY EmptySeq DEF Heaps
<1>2. ASSUME NEW i \in DOMAIN h
      PROVE  /\ h[i] \in Tables /\ DOMAIN h[i] \subseteq STRING
             /\ \A k \in DOMAIN h[i] : h[i][k] \in Entries
  <2>1. h[i] \in Tables
    BY <1>1
  <2>2. PICK keys \in SUBSET STRING : h[i] \in [keys -> Entries]
    BY <2>1 DEF Tables
  <2> QED
    BY <2>1, <2>2
<1> QED
  BY <1>1, <1>2 DEF Root

(* Setting an entry. *)
Put(t, key, e) == [k \in DOMAIN t \union {key} |-> IF k = key THEN e ELSE t[k]]

LEMMA PutIsTable ==
  ASSUME NEW t \in Tables, NEW key \in STRING, NEW e \in Entries
  PROVE  /\ Put(t, key, e) \in Tables
         /\ DOMAIN Put(t, key, e) = DOMAIN t \union {key}
         /\ Put(t, key, e)[key] = e
         /\ \A k \in DOMAIN t \ {key} : Put(t, key, e)[k] = t[k]
<1>1. PICK keys \in SUBSET STRING : t \in [keys -> Entries]
  BY DEF Tables
<1>2. Put(t, key, e) \in [keys \union {key} -> Entries]
  BY <1>1 DEF Put
<1>3. keys \union {key} \in SUBSET STRING
  OBVIOUS
<1>4. Put(t, key, e) \in Tables
  BY <1>2, <1>3 DEF Tables
<1> QED
  BY <1>4 DEF Put

LEMMA SetEntryIsPut ==
  ASSUME NEW place, NEW key, NEW e
  PROVE  SetEntry(place, key, e) =
           [place.heap EXCEPT ![place.at] = Put(place.heap[place.at], key, e)]
BY DEF SetEntry, Put

LEMMA NewTableIsTable == NewTable \in Tables /\ DOMAIN NewTable = {}
<1>1. NewTable \in [{} -> Entries]
  BY DEF NewTable
<1> QED
  BY <1>1 DEF Tables, NewTable

-------------------------------------------------------------------------------
(* The two kinds of steps *)

(* A new table is hung under a key, beside the tables there already.       *)
IsHung(h, at, key, e, h2) ==
  /\ h2 \in Heaps
  /\ DOMAIN h2 = DOMAIN h \union {Len(h) + 1} /\ Len(h) + 1 \notin DOMAIN h
  /\ DOMAIN h2[Len(h) + 1] = {}
  /\ DOMAIN h2[at] = DOMAIN h[at] \union {key} /\ h2[at][key] = e
  /\ \A k \in DOMAIN h[at] \ {key} : h2[at][k] = h[at][k]
  /\ \A i \in DOMAIN h \ {at} : h2[i] = h[i]

LEMMA Hung ==
  ASSUME NEW h \in Heaps, NEW at \in DOMAIN h, NEW key \in STRING, NEW e \in Entries
  PROVE  IsHung(h, at, key, e, Append([h EXCEPT ![at] = Put(h[at], key, e)], NewTable))
<1> DEFINE h1 == [h EXCEPT ![at] = Put(h[at], key, e)]
           h2 == Append(h1, NewTable)
           new == Len(h) + 1
<1>1. DOMAIN h = 1..Len(h) /\ Len(h) \in Nat \ {0} /\ h[at] \in Tables /\ h \in Seq(Tables)
  BY HeapFacts DEF Heaps
<1>2. /\ Put(h[at], key, e) \in Tables
      /\ DOMAIN Put(h[at], key, e) = DOMAIN h[at] \union {key}
      /\ Put(h[at], key, e)[key] = e
      /\ \A k \in DOMAIN h[at] \ {key} : Put(h[at], key, e)[k] = h[at][k]
  <2>1. h[at] \in Tables
    BY <1>1
  <2> QED
    BY <2>1, PutIsTable, ZenonT(30), SMTT(30)
<1>3. h1 \in Seq(Tables) /\ Len(h1) = Len(h) /\ DOMAIN h1 = DOMAIN h
  <2> DEFINE t == Put(h[at], key, e)
  <2>1. t \in Tables
    BY <1>2
  <2> HIDE DEF t
  <2> DEFINE g == [h EXCEPT ![at] = t]
  <2>2. g \in Seq(Tables) /\ Len(g) = Len(h) /\ DOMAIN g = DOMAIN h
    BY <1>1, <2>1, ExceptSeq, SMTT(30)
  <2> QED
    BY <2>2 DEF t
<1>4. h1[at] = Put(h[at], key, e) /\ \A i \in DOMAIN h \ {at} : h1[i] = h[i]
  BY <1>1, <1>2
<1> HIDE DEF h1
<1>5. /\ h2 \in Seq(Tables) /\ h2 # <<>> /\ Len(h2) = new
      /\ \A i \in 1..Len(h) : h2[i] = h1[i]
      /\ h2[new] = NewTable
  BY <1>1, <1>3, NewTableIsTable, AppendProperties
<1> HIDE DEF h2
<1>6. DOMAIN h2 = DOMAIN h \union {new} /\ new \notin DOMAIN h
  BY <1>1, <1>5
<1>7. h2 \in Heaps
  BY <1>5 DEF Heaps
<1>8. h2[at] = Put(h[at], key, e) /\ \A i \in DOMAIN h \ {at} : h2[i] = h[i]
  BY <1>1, <1>4, <1>5
<1>9. DOMAIN h2[new] = {}
  BY <1>5, NewTableIsTable
<1>10. IsHung(h, at, key, e, h2)
  BY <1>2, <1>6, <1>7, <1>8, <1>9 DEF IsHung
<1> QED
  BY <1>10 DEF h1, h2

(* Only one pair of parent and child is new. *)
AddsChild(h, at, key, h2) ==
  \A i, k, c : Child(h2, i, k, c) <=>
                 Child(h, i, k, c) \/ (i = at /\ k = key /\ c = Len(h) + 1)

KidsAt(h, at, key) == IF key \in DOMAIN h[at] THEN Children(h[at][key]) ELSE {}

LEMMA HungChild ==
  ASSUME NEW h, NEW at \in DOMAIN h, NEW key, NEW e, NEW h2, IsHung(h, at, key, e, h2),
         Children(e) = KidsAt(h, at, key) \union {Len(h) + 1}
  PROVE  AddsChild(h, at, key, h2)
<1> DEFINE new == Len(h) + 1
<1> SUFFICES ASSUME NEW i, NEW k, NEW c
             PROVE  Child(h2, i, k, c) <=> Child(h, i, k, c) \/ (i = at /\ k = key /\ c = new)
  BY DEF AddsChild
<1>1. CASE i = at /\ k = key
  BY <1>1 DEF Child, KidsAt, IsHung
<1>2. CASE i = at /\ k # key
  BY <1>2 DEF Child, IsHung
<1>3. CASE i # at /\ i # new
  BY <1>3 DEF Child, IsHung
<1>4. CASE i = new
  BY <1>4 DEF Child, IsHung
<1> QED
  BY <1>1, <1>2, <1>3, <1>4

LEMMA HungTree ==
  ASSUME NEW h, IsTree(h), NEW at \in DOMAIN h, NEW key \in STRING, NEW e \in Entries,
         Unmixed(e), NEW h2, IsHung(h, at, key, e, h2), AddsChild(h, at, key, h2)
  PROVE  IsTree(h2)
<1> DEFINE new == Len(h) + 1
<1>1. /\ DOMAIN h2 = DOMAIN h \union {new} /\ new \notin DOMAIN h
      /\ at < new /\ DOMAIN h \subseteq Nat /\ new \in Nat
  BY HeapFacts DEF IsTree, IsHung
<1>2. \A i, k, c : Child(h2, i, k, c) <=>
                     Child(h, i, k, c) \/ (i = at /\ k = key /\ c = new)
  BY DEF AddsChild
<1>3. \A i, k, c : Child(h, i, k, c) => c \in DOMAIN h /\ i < c
  BY DEF IsTree
<1>4. \A i, j, k, l, c : Child(h, i, k, c) /\ Child(h, j, l, c) => i = j /\ k = l
  BY DEF IsTree
<1>5. \A i, k, c : Child(h2, i, k, c) => c \in DOMAIN h2 /\ i < c
  BY <1>1, <1>2, <1>3
<1>6. \A i, j, k, l, c : Child(h2, i, k, c) /\ Child(h2, j, l, c) => i = j /\ k = l
  <2> SUFFICES ASSUME NEW i, NEW j, NEW k, NEW l, NEW c, Child(h2, i, k, c), Child(h2, j, l, c)
               PROVE  i = j /\ k = l
    OBVIOUS
  <2>1. /\ Child(h, i, k, c) \/ (i = at /\ k = key /\ c = new)
        /\ Child(h, j, l, c) \/ (j = at /\ l = key /\ c = new)
    BY <1>2
  <2>2. CASE c = new
    BY <1>1, <1>3, <2>1, <2>2
  <2>3. CASE c # new
    BY <1>4, <2>1, <2>3
  <2> QED
    BY <2>2, <2>3
<1>7. \A c \in DOMAIN h2 \ {Root} : \E i, k : Child(h2, i, k, c)
  BY <1>1, <1>2 DEF IsTree
<1>8. ASSUME NEW i \in DOMAIN h2, NEW k \in DOMAIN h2[i] PROVE Unmixed(h2[i][k])
  BY <1>1 DEF IsTree, IsHung
<1> QED
  BY <1>5, <1>6, <1>7, <1>8 DEF IsTree, IsHung

(* Every naming of the old tables names the new one. *)
NamesMore(name, h, at, key, longer) ==
  /\ \A i \in DOMAIN h : longer[i] = name[i]
  /\ longer[Len(h) + 1] = Append(name[at], key)

LEMMA HungName ==
  ASSUME NEW h, IsTree(h), NEW at \in DOMAIN h, NEW key \in STRING, NEW e, NEW h2,
         IsHung(h, at, key, e, h2), AddsChild(h, at, key, h2), NEW name, IsNaming(name, h)
  PROVE  \E longer : IsNaming(longer, h2) /\ NamesMore(name, h, at, key, longer)
<1> DEFINE new == Len(h) + 1
           longer == [i \in DOMAIN h \union {new} |->
                        IF i = new THEN Append(name[at], key) ELSE name[i]]
<1>1. DOMAIN h2 = DOMAIN h \union {new} /\ new \notin DOMAIN h /\ Root \in DOMAIN h
  BY HeapFacts DEF IsTree, IsHung
<1>2. longer[new] = Append(name[at], key) /\ \A i \in DOMAIN h : longer[i] = name[i]
  BY <1>1
<1>3. \A i \in DOMAIN h2 : longer[i] \in Seq(STRING)
  <2>1. name[at] \in Seq(STRING)
    BY DEF IsNaming
  <2>2. Append(name[at], key) \in Seq(STRING)
    BY <2>1, AppendProperties
  <2> QED
    BY <1>1, <1>2, <2>2 DEF IsNaming
<1> HIDE DEF longer
<1>4. ASSUME NEW i, NEW k, NEW c, Child(h2, i, k, c) PROVE longer[c] = Append(longer[i], k)
  <2>1. CASE Child(h, i, k, c)
    <3>1. c \in DOMAIN h /\ i \in DOMAIN h
      BY <2>1 DEF IsTree, Child
    <3> QED
      BY <1>2, <2>1, <3>1 DEF IsNaming
  <2>2. CASE i = at /\ k = key /\ c = new
    BY <1>2, <2>2
  <2>3. Child(h, i, k, c) \/ (i = at /\ k = key /\ c = new)
    BY <1>4 DEF AddsChild
  <2> QED
    BY <2>1, <2>2, <2>3
<1>5. IsNaming(longer, h2)
  BY <1>1, <1>2, <1>3, <1>4 DEF IsNaming
<1> QED
  BY <1>2, <1>5 DEF NamesMore

(* A value is set under a key that is free. *)
IsPut(h, at, key, e, h2) ==
  /\ h2 \in Heaps /\ DOMAIN h2 = DOMAIN h
  /\ DOMAIN h2[at] = DOMAIN h[at] \union {key} /\ h2[at][key] = e
  /\ \A k \in DOMAIN h[at] \ {key} : h2[at][k] = h[at][k]
  /\ \A i \in DOMAIN h \ {at} : h2[i] = h[i]

LEMMA PutHeap ==
  ASSUME NEW h \in Heaps, NEW at \in DOMAIN h, NEW key \in STRING, NEW e \in Entries
  PROVE  IsPut(h, at, key, e, [h EXCEPT ![at] = Put(h[at], key, e)])
<1> DEFINE h2 == [h EXCEPT ![at] = Put(h[at], key, e)]
<1>1. h \in Seq(Tables) /\ h[at] \in Tables /\ Len(h) # 0
  BY HeapFacts DEF Heaps
<1>2. /\ Put(h[at], key, e) \in Tables
      /\ DOMAIN Put(h[at], key, e) = DOMAIN h[at] \union {key}
      /\ Put(h[at], key, e)[key] = e
      /\ \A k \in DOMAIN h[at] \ {key} : Put(h[at], key, e)[k] = h[at][k]
  <2>1. h[at] \in Tables
    BY <1>1
  <2> QED
    BY <2>1, PutIsTable, ZenonT(30), SMTT(30)
<1>3. /\ h2 \in Seq(Tables) /\ Len(h2) = Len(h) /\ DOMAIN h2 = DOMAIN h
      /\ h2[at] = Put(h[at], key, e)
      /\ \A i \in DOMAIN h \ {at} : h2[i] = h[i]
  BY <1>1, <1>2, ExceptSeq
<1> HIDE DEF h2
<1>4. h2 \in Heaps
  BY <1>1, <1>3, EmptySeq DEF Heaps
<1>5. IsPut(h, at, key, e, h2)
  BY <1>2, <1>3, <1>4 DEF IsPut
<1> QED
  BY <1>5 DEF h2

SameChildren(h, h2) == \A i, k, c : Child(h2, i, k, c) <=> Child(h, i, k, c)

LEMMA PutTree ==
  ASSUME NEW h, IsTree(h), NEW at \in DOMAIN h, NEW key, key \notin DOMAIN h[at],
         NEW e \in Entries, Unmixed(e), Children(e) = {}, NEW h2, IsPut(h, at, key, e, h2)
  PROVE  IsTree(h2) /\ Grown(h, h2) /\ SameChildren(h, h2)
<1>1. SameChildren(h, h2)
  <2> SUFFICES ASSUME NEW i, NEW k, NEW c PROVE Child(h2, i, k, c) <=> Child(h, i, k, c)
    BY DEF SameChildren
  <2>1. CASE i = at /\ k = key
    BY <2>1 DEF Child, IsPut
  <2>2. CASE i = at /\ k # key
    BY <2>2 DEF Child, IsPut
  <2>3. CASE i # at
    BY <2>3 DEF Child, IsPut
  <2> QED
    BY <2>1, <2>2, <2>3
<1>2. \A i \in DOMAIN h2 : \A k \in DOMAIN h2[i] : Unmixed(h2[i][k])
  BY DEF IsTree, IsPut
<1>3. IsTree(h2)
  BY <1>1, <1>2 DEF IsTree, IsPut, SameChildren
<1>4. Grown(h, h2)
  BY DEF Grown, IsPut
<1> QED
  BY <1>1, <1>3, <1>4

-------------------------------------------------------------------------------
(* The latest table under key k of table i: an array is its last element.  *)
Leads(entry, c) ==
  \/ entry.kind = "table" /\ entry.id = c
  \/ /\ entry.kind = "array" /\ entry.elems # <<>>
     /\ Last(entry.elems) # 0 /\ Last(entry.elems) = c

Newest(h, i, k, c) == i \in DOMAIN h /\ k \in DOMAIN h[i] /\ Leads(h[i][k], c)

LEMMA LeadsToChild ==
  ASSUME NEW h, IsTree(h), NEW i, NEW k, NEW c, Newest(h, i, k, c)
  PROVE  Child(h, i, k, c) /\ c \in DOMAIN h
<1>1. i \in DOMAIN h /\ k \in DOMAIN h[i] /\ h[i][k] \in Entries
  BY HeapFacts DEF Newest, IsTree
<1> DEFINE e == h[i][k]
<1>2. c \in Children(e)
  <2> HIDE DEF e
  <2>0. Leads(e, c) /\ e \in Entries
    BY <1>1 DEF Newest, e
  <2>1. CASE e.kind = "table" /\ e.id = c
    BY <2>0, <2>1, EntryKinds
  <2>2. CASE /\ e.kind = "array" /\ e.elems # <<>>
             /\ Last(e.elems) # 0 /\ Last(e.elems) = c
    <3>1. e.elems \in Seq(Nat) /\ Len(e.elems) \in DOMAIN e.elems
      BY <2>0, <2>2, EntryKinds, EmptySeq
    <3> QED
      BY <2>0, <2>2, <3>1, EntryKinds DEF Last, ToSet
  <2> QED
    BY <2>0, <2>1, <2>2 DEF Leads
<1>3. Child(h, i, k, c)
  BY <1>1, <1>2 DEF Child
<1> QED
  BY <1>3 DEF IsTree

(* Walks.  A step along a key, be it of a header or of a dotted key, stops *)
(* for good, creates the table, goes to the latest one, or stops.          *)
StepsTo(place, key, next) ==
  \/ place.why # "" /\ next = place
  \/ place.why = "" /\ ~Has(place, key) /\ next = Create(place, key)
  \/ /\ place.why = ""
     /\ \E c : Newest(place.heap, place.at, key, c) /\ next = Place(place.heap, c, "")
  \/ place.why = "" /\ next = Place(place.heap, place.at, "not a table")

LEMMA IntoSteps ==
  ASSUME NEW place, place.at \in DOMAIN place.heap, NEW key
  PROVE  StepsTo(place, key, Into(place, key))
<1>1. CASE place.why # "" \/ ~Has(place, key)
  BY <1>1 DEF StepsTo, Into
<1>2. CASE place.why = "" /\ Has(place, key)
  <2> DEFINE entry == place.heap[place.at][key]
  <2>1. key \in DOMAIN place.heap[place.at] /\ Entry(place, key) = entry
    BY <1>2 DEF Has, Entry
  <2>2. \A c : Leads(entry, c) => Newest(place.heap, place.at, key, c)
    BY <2>1 DEF Newest
  <2> HIDE DEF entry
  <2>3. CASE entry.kind = "table"
    <3>1. Into(place, key) = Place(place.heap, entry.id, "")
      BY <1>2, <2>1, <2>3 DEF Into
    <3> QED
      BY <1>2, <2>2, <2>3, <3>1 DEF StepsTo, Leads
  <2>4. CASE entry.kind = "array" /\ entry.elems # <<>> /\ Last(entry.elems) # 0
    <3>1. Into(place, key) = Place(place.heap, Last(entry.elems), "")
      BY <1>2, <2>1, <2>4 DEF Into
    <3> QED
      BY <1>2, <2>2, <2>4, <3>1 DEF StepsTo, Leads
  <2>5. CASE entry.kind # "table"
             /\ ~(entry.kind = "array" /\ entry.elems # <<>> /\ Last(entry.elems) # 0)
    <3>1. Into(place, key) = Place(place.heap, place.at, "not a table")
      BY <1>2, <2>1, <2>5 DEF Into
    <3> QED
      BY <1>2, <3>1 DEF StepsTo
  <2> QED
    BY <2>3, <2>4, <2>5
<1> QED
  BY <1>1, <1>2

LEMMA UnderSteps ==
  ASSUME NEW place, place.at \in DOMAIN place.heap, NEW key
  PROVE  StepsTo(place, key, Under(place, key))
<1>1. CASE place.why # "" \/ ~Has(place, key) \/ Entry(place, key).kind # "table"
  BY <1>1 DEF StepsTo, Under
<1>2. CASE place.why = "" /\ Has(place, key) /\ Entry(place, key).kind = "table"
  <2>1. Newest(place.heap, place.at, key, Entry(place, key).id)
    BY <1>2 DEF Newest, Leads, Has, Entry
  <2>2. Under(place, key) = Place(place.heap, Entry(place, key).id, "")
    BY <1>2 DEF Under
  <2> QED
    BY <1>2, <2>1, <2>2 DEF StepsTo
<1> QED
  BY <1>1, <1>2

(* A place a walk from the heap h has come to by the keys of trail, when   *)
(* name names the tables of h: still a tree, in which all of h is in its   *)
(* place, and in which the table that has been reached is named trail.     *)
Sound(h, name, trail, place) ==
  /\ IsTree(place.heap) /\ place.at \in DOMAIN place.heap /\ Grown(h, place.heap)
  /\ \E longer : /\ IsNaming(longer, place.heap)
                 /\ \A i \in DOMAIN h : longer[i] = name[i]
                 /\ place.why = "" => longer[place.at] = trail

LEMMA GrownTrans ==
  ASSUME NEW h, NEW h1, NEW h2, Grown(h, h1), Grown(h1, h2)
  PROVE  Grown(h, h2)
BY DEF Grown

LEMMA Created ==
  ASSUME NEW place, IsTree(place.heap), place.at \in DOMAIN place.heap,
         NEW key \in STRING, ~Has(place, key)
  PROVE  LET next == Create(place, key) IN
         /\ IsHung(place.heap, place.at, key, Table(Len(place.heap) + 1), next.heap)
         /\ AddsChild(place.heap, place.at, key, next.heap)
         /\ IsTree(next.heap) /\ Grown(place.heap, next.heap)
         /\ next.at = Len(place.heap) + 1 /\ next.at \in DOMAIN next.heap /\ next.why = ""
<1> DEFINE h == place.heap
           at == place.at
           new == Len(h) + 1
           h2 == Create(place, key).heap
<1>1. h \in Heaps /\ Len(h) \in Nat /\ new \in Nat
  BY HeapFacts DEF IsTree
<1>2. Table(new) \in Entries /\ Table(new).kind = "table" /\ Table(new).id = new
  BY <1>1 DEF Table, Entries
<1>3. Children(Table(new)) = {new} /\ Unmixed(Table(new))
  BY <1>2, EntryKinds DEF Unmixed
<1>4. key \notin DOMAIN h[at]
  BY DEF Has
<1>5. h2 = Append([h EXCEPT ![at] = Put(h[at], key, Table(new))], NewTable)
  BY SetEntryIsPut DEF Create, Place
<1>6. IsHung(h, at, key, Table(new), h2)
  BY <1>1, <1>2, <1>5, Hung
<1>7. Children(Table(new)) = KidsAt(h, at, key) \union {new}
  BY <1>3, <1>4 DEF KidsAt
<1>8. AddsChild(h, at, key, h2)
  BY <1>6, <1>7, HungChild
<1>9. IsTree(h2)
  BY <1>2, <1>3, <1>6, <1>8, HungTree
<1>10. Grown(h, h2)
  BY <1>4, <1>6 DEF Grown, IsHung
<1>11. Create(place, key).at = new /\ Create(place, key).why = ""
  BY DEF Create, Place
<1>12. new \in DOMAIN h2
  BY <1>6 DEF IsHung
<1> QED
  BY <1>6, <1>8, <1>9, <1>10, <1>11, <1>12

LEMMA StepSound ==
  ASSUME NEW h, NEW name, NEW trail, NEW place, Sound(h, name, trail, place),
         NEW key \in STRING, NEW next, StepsTo(place, key, next)
  PROVE  Sound(h, name, Append(trail, key), next)
<1>0. /\ IsTree(place.heap) /\ place.at \in DOMAIN place.heap /\ Grown(h, place.heap)
      /\ DOMAIN h \subseteq DOMAIN place.heap
  BY DEF Sound, Grown
<1>1. PICK longer : /\ IsNaming(longer, place.heap)
                    /\ \A i \in DOMAIN h : longer[i] = name[i]
                    /\ place.why = "" => longer[place.at] = trail
  BY DEF Sound
<1>2. CASE place.why # "" /\ next = place
  BY <1>0, <1>1, <1>2 DEF Sound
<1>3. CASE place.why = "" /\ ~Has(place, key) /\ next = Create(place, key)
  <2>1. /\ IsHung(place.heap, place.at, key, Table(Len(place.heap) + 1), next.heap)
        /\ AddsChild(place.heap, place.at, key, next.heap)
        /\ IsTree(next.heap) /\ Grown(place.heap, next.heap)
        /\ next.at = Len(place.heap) + 1 /\ next.at \in DOMAIN next.heap /\ next.why = ""
    BY <1>0, <1>3, Created
  <2>2. PICK more : /\ IsNaming(more, next.heap)
                    /\ NamesMore(longer, place.heap, place.at, key, more)
    BY <1>0, <1>1, <2>1, HungName
  <2>3. Grown(h, next.heap)
    BY <1>0, <2>1, GrownTrans
  <2>4. more[next.at] = Append(trail, key) /\ \A i \in DOMAIN h : more[i] = name[i]
    BY <1>0, <1>1, <1>3, <2>1, <2>2 DEF NamesMore
  <2> QED
    BY <2>1, <2>2, <2>3, <2>4 DEF Sound
<1>4. CASE /\ place.why = ""
           /\ \E c : Newest(place.heap, place.at, key, c) /\ next = Place(place.heap, c, "")
  <2>1. PICK c : Child(place.heap, place.at, key, c) /\ next = Place(place.heap, c, "")
    BY <1>0, <1>4, LeadsToChild
  <2>2. next.heap = place.heap /\ next.at = c /\ c \in DOMAIN place.heap
    BY <1>0, <2>1 DEF Place, IsTree
  <2>3. longer[c] = Append(trail, key)
    <3>1. longer[c] = Append(longer[place.at], key)
      BY <1>1, <2>1 DEF IsNaming
    <3>2. longer[place.at] = trail
      BY <1>1, <1>4
    <3> QED
      BY <3>1, <3>2
  <2> QED
    BY <1>0, <1>1, <2>2, <2>3 DEF Sound
<1>5. CASE place.why = "" /\ next = Place(place.heap, place.at, "not a table")
  <2>1. next.heap = place.heap /\ next.at = place.at /\ next.why # ""
    BY <1>5 DEF Place
  <2> QED
    BY <1>0, <1>1, <2>1 DEF Sound
<1> QED
  BY <1>2, <1>3, <1>4, <1>5 DEF StepsTo

(* The recursion of Descend and of Dotted is defined. *)

AtRoot    == Place(tables, Root, "")
AtCurrent == Place(tables, current, "")

IsDescent(w, path, m) ==
  /\ IsFunctionOn(w, 0..m) /\ w[0] = AtRoot
  /\ \A n \in 1..m : w[n] = Into(w[n - 1], path[n])

LEMMA DescendExists ==
  ASSUME NEW path
  PROVE  \A m \in Nat : \E w : IsDescent(w, path, m)
<1> DEFINE S == {m \in Nat : \E w : IsDescent(w, path, m)}
<1>1. 0 \in S
  <2> DEFINE w == [n \in 0..0 |-> AtRoot]
  <2>1. IsFunctionOn(w, 0..0) /\ w[0] = AtRoot
    BY DEF IsFunctionOn
  <2> HIDE DEF w
  <2>2. IsDescent(w, path, 0)
    BY <2>1 DEF IsDescent
  <2> QED
    BY <2>2
<1>2. ASSUME NEW m \in Nat, m \in S PROVE m + 1 \in S
  <2>1. PICK w : IsDescent(w, path, m)
    BY <1>2
  <2> DEFINE w2 == [n \in 0..(m + 1) |->
                      IF n = m + 1 THEN Into(w[m], path[m + 1]) ELSE w[n]]
  <2>2. IsFunctionOn(w2, 0..(m + 1))
    BY DEF IsFunctionOn
  <2>3. w2[m + 1] = Into(w[m], path[m + 1]) /\ \A n \in 0..m : w2[n] = w[n]
    OBVIOUS
  <2> HIDE DEF w2
  <2>4. w2[0] = AtRoot
    BY <2>1, <2>3 DEF IsDescent
  <2>5. ASSUME NEW n \in 1..(m + 1) PROVE w2[n] = Into(w2[n - 1], path[n])
    <3>1. CASE n = m + 1
      <4>1. n - 1 = m /\ m \in 0..m
        BY <3>1
      <4> QED
        BY <2>3, <3>1, <4>1
    <3>2. CASE n # m + 1
      <4>1. n \in 1..m /\ n \in 0..m /\ n - 1 \in 0..m
        BY <3>2
      <4>2. w[n] = Into(w[n - 1], path[n])
        BY <2>1, <4>1 DEF IsDescent
      <4> QED
        BY <2>3, <4>1, <4>2
    <3> QED
      BY <3>1, <3>2
  <2>6. IsDescent(w2, path, m + 1)
    BY <2>2, <2>4, <2>5 DEF IsDescent
  <2> QED
    BY <2>6
<1> HIDE DEF S
<1>3. Nat \subseteq S
  BY <1>1, <1>2, Induction
<1> QED
  BY <1>3 DEF S

LEMMA DescendWalk ==
  ASSUME NEW path \in Seq(STRING)
  PROVE  \E walk : IsDescent(walk, path, Len(path)) /\ Descend(tables, path) = walk[Len(path)]
<1> DEFINE Def(w) == [n \in 0..Len(path) |->
                       IF n = 0 THEN AtRoot ELSE Into(w[n - 1], path[n])]
<1>1. PICK w : IsDescent(w, path, Len(path))
  BY DescendExists
<1>2. IsFunctionOn(Def(w), 0..Len(path))
  BY DEF IsFunctionOn
<1>3. ASSUME NEW n \in 0..Len(path) PROVE w[n] = Def(w)[n]
  <2>1. CASE n = 0
    BY <1>1, <2>1 DEF IsDescent
  <2>2. CASE n # 0
    BY <1>1, <2>2 DEF IsDescent
  <2> QED
    BY <2>1, <2>2
<1>4. w = Def(w)
  <2> HIDE DEF Def
  <2> QED
    BY <1>1, <1>2, <1>3, SameFunction DEF IsDescent
<1> DEFINE walk == CHOOSE u : u = Def(u)
<1>5. Descend(tables, path) = walk[Len(path)]
  BY DEF Descend, AtRoot
<1>6. walk = Def(walk)
  <2> HIDE DEF Def
  <2> QED
    BY <1>4
<1> HIDE DEF walk
<1>7. IsFunctionOn(walk, 0..Len(path))
  <2>1. IsFunctionOn(Def(walk), 0..Len(path))
    BY DEF IsFunctionOn
  <2> HIDE DEF Def
  <2> QED
    BY <1>6, <2>1
<1>8. ASSUME NEW n \in 0..Len(path)
      PROVE  walk[n] = IF n = 0 THEN AtRoot ELSE Into(walk[n - 1], path[n])
  <2>1. Def(walk)[n] = IF n = 0 THEN AtRoot ELSE Into(walk[n - 1], path[n])
    OBVIOUS
  <2> HIDE DEF Def
  <2> QED
    BY <1>6, <2>1
<1>9. IsDescent(walk, path, Len(path))
  <2>1. Len(path) \in Nat
    OBVIOUS
  <2>2. walk[0] = AtRoot
    BY <1>8, <2>1
  <2>3. ASSUME NEW n \in 1..Len(path) PROVE walk[n] = Into(walk[n - 1], path[n])
    BY <1>8, <2>1
  <2> QED
    BY <1>7, <2>2, <2>3 DEF IsDescent
<1> QED
  BY <1>5, <1>9

IsRide(w, path, m) ==
  /\ IsFunctionOn(w, 0..m) /\ w[0] = AtCurrent
  /\ \A n \in 1..m : w[n] = Under(w[n - 1], path[n])

LEMMA DottedExists ==
  ASSUME NEW path
  PROVE  \A m \in Nat : \E w : IsRide(w, path, m)
<1> DEFINE S == {m \in Nat : \E w : IsRide(w, path, m)}
<1>1. 0 \in S
  <2> DEFINE w == [n \in 0..0 |-> AtCurrent]
  <2>1. IsFunctionOn(w, 0..0) /\ w[0] = AtCurrent
    BY DEF IsFunctionOn
  <2> HIDE DEF w
  <2>2. IsRide(w, path, 0)
    BY <2>1 DEF IsRide
  <2> QED
    BY <2>2
<1>2. ASSUME NEW m \in Nat, m \in S PROVE m + 1 \in S
  <2>1. PICK w : IsRide(w, path, m)
    BY <1>2
  <2> DEFINE w2 == [n \in 0..(m + 1) |->
                      IF n = m + 1 THEN Under(w[m], path[m + 1]) ELSE w[n]]
  <2>2. IsFunctionOn(w2, 0..(m + 1))
    BY DEF IsFunctionOn
  <2>3. w2[m + 1] = Under(w[m], path[m + 1]) /\ \A n \in 0..m : w2[n] = w[n]
    OBVIOUS
  <2> HIDE DEF w2
  <2>4. w2[0] = AtCurrent
    BY <2>1, <2>3 DEF IsRide
  <2>5. ASSUME NEW n \in 1..(m + 1) PROVE w2[n] = Under(w2[n - 1], path[n])
    <3>1. CASE n = m + 1
      <4>1. n - 1 = m /\ m \in 0..m
        BY <3>1
      <4> QED
        BY <2>3, <3>1, <4>1
    <3>2. CASE n # m + 1
      <4>1. n \in 1..m /\ n \in 0..m /\ n - 1 \in 0..m
        BY <3>2
      <4>2. w[n] = Under(w[n - 1], path[n])
        BY <2>1, <4>1 DEF IsRide
      <4> QED
        BY <2>3, <4>1, <4>2
    <3> QED
      BY <3>1, <3>2
  <2>6. IsRide(w2, path, m + 1)
    BY <2>2, <2>4, <2>5 DEF IsRide
  <2> QED
    BY <2>6
<1> HIDE DEF S
<1>3. Nat \subseteq S
  BY <1>1, <1>2, Induction
<1> QED
  BY <1>3 DEF S

LEMMA DottedWalk ==
  ASSUME NEW path \in Seq(STRING)
  PROVE  \E walk : IsRide(walk, path, Len(path)) /\ Dotted(tables, current, path) = walk[Len(path)]
<1> DEFINE Def(w) == [n \in 0..Len(path) |->
                       IF n = 0 THEN AtCurrent ELSE Under(w[n - 1], path[n])]
<1>1. PICK w : IsRide(w, path, Len(path))
  BY DottedExists
<1>2. IsFunctionOn(Def(w), 0..Len(path))
  BY DEF IsFunctionOn
<1>3. ASSUME NEW n \in 0..Len(path) PROVE w[n] = Def(w)[n]
  <2>1. CASE n = 0
    BY <1>1, <2>1 DEF IsRide
  <2>2. CASE n # 0
    BY <1>1, <2>2 DEF IsRide
  <2> QED
    BY <2>1, <2>2
<1>4. w = Def(w)
  <2> HIDE DEF Def
  <2> QED
    BY <1>1, <1>2, <1>3, SameFunction DEF IsRide
<1> DEFINE walk == CHOOSE u : u = Def(u)
<1>5. Dotted(tables, current, path) = walk[Len(path)]
  BY DEF Dotted, AtCurrent
<1>6. walk = Def(walk)
  <2> HIDE DEF Def
  <2> QED
    BY <1>4
<1> HIDE DEF walk
<1>7. IsFunctionOn(walk, 0..Len(path))
  <2>1. IsFunctionOn(Def(walk), 0..Len(path))
    BY DEF IsFunctionOn
  <2> HIDE DEF Def
  <2> QED
    BY <1>6, <2>1
<1>8. ASSUME NEW n \in 0..Len(path)
      PROVE  walk[n] = IF n = 0 THEN AtCurrent ELSE Under(walk[n - 1], path[n])
  <2>1. Def(walk)[n] = IF n = 0 THEN AtCurrent ELSE Under(walk[n - 1], path[n])
    OBVIOUS
  <2> HIDE DEF Def
  <2> QED
    BY <1>6, <2>1
<1>9. IsRide(walk, path, Len(path))
  <2>1. Len(path) \in Nat
    OBVIOUS
  <2>2. walk[0] = AtCurrent
    BY <1>8, <2>1
  <2>3. ASSUME NEW n \in 1..Len(path) PROVE walk[n] = Under(walk[n - 1], path[n])
    BY <1>8, <2>1
  <2> QED
    BY <1>7, <2>2, <2>3 DEF IsRide
<1> QED
  BY <1>5, <1>9

(* What holds of each key of a walk and the place it comes to holds of the *)
(* keys of the whole path and of the last place.                           *)
LEMMA WalkAlong ==
  ASSUME NEW G, NEW walk, NEW path \in Seq(STRING), NEW begin \in Seq(STRING),
         <<begin, walk[0]>> \in G,
         \A n \in 1..Len(path) : \A trail \in Seq(STRING) :
           <<trail, walk[n - 1]>> \in G => <<Append(trail, path[n]), walk[n]>> \in G
  PROVE  <<begin \o path, walk[Len(path)]>> \in G
<1> DEFINE Trail(n) == begin \o SubSeq(path, 1, n)
           S == {n \in Nat : n <= Len(path) => <<Trail(n), walk[n]>> \in G}
<1>0. Len(path) \in Nat
  OBVIOUS
<1>1. 0 \in S
  <2>1. Trail(0) = begin
    OBVIOUS
  <2> QED
    BY <2>1
<1>2. ASSUME NEW n \in Nat, n \in S PROVE n + 1 \in S
  <2> SUFFICES ASSUME n + 1 <= Len(path) PROVE <<Trail(n + 1), walk[n + 1]>> \in G
    OBVIOUS
  <2>1. <<Trail(n), walk[n]>> \in G
    BY <1>0, <1>2
  <2>2. path[n + 1] \in STRING /\ SubSeq(path, 1, n) \in Seq(STRING)
    BY <1>0
  <2>3. Trail(n + 1) = Append(Trail(n), path[n + 1])
    <3>1. SubSeq(path, 1, n + 1) = Append(SubSeq(path, 1, n), path[n + 1])
      BY <1>0
    <3> QED
      BY <2>2, <3>1
  <2>4. Trail(n) \in Seq(STRING)
    BY <2>2
  <2>5. n + 1 \in 1..Len(path) /\ (n + 1) - 1 = n
    BY <1>0
  <2>6. <<Append(Trail(n), path[n + 1]), walk[n + 1]>> \in G
    <3> HIDE DEF Trail
    <3> QED
      BY <2>1, <2>4, <2>5
  <2> QED
    BY <2>3, <2>6
<1> HIDE DEF S
<1>3. Nat \subseteq S
  BY <1>1, <1>2, Induction
<1>4. <<Trail(Len(path)), walk[Len(path)]>> \in G
  <2> HIDE DEF Trail
  <2> DEFINE m == Len(path)
  <2>1. m \in S /\ m \in Nat
    BY <1>0, <1>3
  <2>2. m <= Len(path)
    BY <1>0
  <2> QED
    BY <2>1, <2>2 DEF S
<1>5. Trail(Len(path)) = begin \o path
  <2>1. SubSeq(path, 1, Len(path)) = path
    OBVIOUS
  <2> QED
    BY <2>1
<1> QED
  BY <1>4, <1>5

(* A walk whose steps are steps is sound all the way.                      *)
LEMMA WalkSound ==
  ASSUME NEW h, NEW name, NEW walk, NEW path \in Seq(STRING), NEW begin \in Seq(STRING),
         Sound(h, name, begin, walk[0]),
         \A n \in 1..Len(path) :
           walk[n - 1].at \in DOMAIN walk[n - 1].heap => StepsTo(walk[n - 1], path[n], walk[n])
  PROVE  Sound(h, name, begin \o path, walk[Len(path)])
<1> DEFINE Visited == {walk[n] : n \in 0..Len(path)}
           G == {x \in Seq(STRING) \X Visited : Sound(h, name, x[1], x[2])}
<1>1. \A trail, place : <<trail, place>> \in G <=>
         (trail \in Seq(STRING) /\ place \in Visited /\ Sound(h, name, trail, place))
  OBVIOUS
<1>2. <<begin, walk[0]>> \in G
  BY <1>1
<1>3. ASSUME NEW n \in 1..Len(path), NEW trail \in Seq(STRING), <<trail, walk[n - 1]>> \in G
      PROVE  <<Append(trail, path[n]), walk[n]>> \in G
  <2>1. Sound(h, name, trail, walk[n - 1]) /\ path[n] \in STRING
    BY <1>1, <1>3
  <2>2. StepsTo(walk[n - 1], path[n], walk[n])
    BY <2>1 DEF Sound
  <2>3. Sound(h, name, Append(trail, path[n]), walk[n])
    BY <2>1, <2>2, StepSound
  <2>4. Append(trail, path[n]) \in Seq(STRING) /\ walk[n] \in Visited
    BY <2>1
  <2> QED
    BY <1>1, <2>3, <2>4
<1> HIDE DEF G
<1>4. <<begin \o path, walk[Len(path)]>> \in G
  BY <1>2, <1>3, WalkAlong
<1> QED
  BY <1>1, <1>4

LEMMA StartSound ==
  ASSUME NEW h, IsTree(h), NEW name, IsNaming(name, h), NEW at \in DOMAIN h
  PROVE  Sound(h, name, name[at], Place(h, at, ""))
<1>1. Place(h, at, "").heap = h /\ Place(h, at, "").at = at
  BY DEF Place
<1>2. Grown(h, h)
  BY DEF Grown
<1> QED
  BY <1>1, <1>2 DEF Sound

(* Descend finds the table of that name, or makes it. *)
LEMMA DescendSound ==
  ASSUME IsTree(tables), NEW name, IsNaming(name, tables), NEW path \in Seq(STRING)
  PROVE  Sound(tables, name, path, Descend(tables, path))
<1>1. PICK walk : IsDescent(walk, path, Len(path)) /\ Descend(tables, path) = walk[Len(path)]
  BY DescendWalk
<1>2. Sound(tables, name, <<>>, walk[0])
  <2>1. Root \in DOMAIN tables /\ name[Root] = <<>>
    BY HeapFacts DEF IsTree, IsNaming
  <2>2. Sound(tables, name, name[Root], AtRoot)
    BY <2>1, StartSound DEF AtRoot
  <2> QED
    BY <1>1, <2>1, <2>2 DEF IsDescent
<1>3. ASSUME NEW n \in 1..Len(path), walk[n - 1].at \in DOMAIN walk[n - 1].heap
      PROVE  StepsTo(walk[n - 1], path[n], walk[n])
  <2>1. walk[n] = Into(walk[n - 1], path[n])
    BY <1>1 DEF IsDescent
  <2> QED
    BY <1>3, <2>1, IntoSteps
<1>4. Sound(tables, name, <<>> \o path, walk[Len(path)])
  <2> DEFINE begin == <<>>
  <2>1. begin \in Seq(STRING)
    OBVIOUS
  <2>2. Sound(tables, name, begin, walk[0])
    BY <1>2
  <2> HIDE DEF begin
  <2>3. Sound(tables, name, begin \o path, walk[Len(path)])
    BY <1>3, <2>1, <2>2, WalkSound
  <2> QED
    BY <2>3 DEF begin
<1> QED
  BY <1>1, <1>4

LEMMA DottedSound ==
  ASSUME IsTree(tables), NEW name, IsNaming(name, tables), NEW path \in Seq(STRING),
         current \in DOMAIN tables
  PROVE  Sound(tables, name, name[current] \o path, Dotted(tables, current, path))
<1>1. PICK walk : IsRide(walk, path, Len(path)) /\ Dotted(tables, current, path) = walk[Len(path)]
  BY DottedWalk
<1>2. Sound(tables, name, name[current], walk[0])
  <2>1. Sound(tables, name, name[current], AtCurrent)
    BY StartSound DEF AtCurrent
  <2> QED
    BY <1>1, <2>1 DEF IsRide
<1>3. ASSUME NEW n \in 1..Len(path), walk[n - 1].at \in DOMAIN walk[n - 1].heap
      PROVE  StepsTo(walk[n - 1], path[n], walk[n])
  <2>1. walk[n] = Under(walk[n - 1], path[n])
    BY <1>1 DEF IsRide
  <2> QED
    BY <1>3, <2>1, UnderSteps
<1>4. name[current] \in Seq(STRING)
  BY DEF IsNaming
<1>5. Sound(tables, name, name[current] \o path, walk[Len(path)])
  BY <1>2, <1>3, <1>4, WalkSound
<1> QED
  BY <1>1, <1>5

-------------------------------------------------------------------------------
(* What a line does to the tree *)

KeptIn(h, h2) ==
  \A i \in DOMAIN h : \A k \in DOMAIN h[i] :
    /\ i \in DOMAIN h2 /\ k \in DOMAIN h2[i]
    /\ Keeps(h[i][k], h2[i][k])

(* The tree h2 has all of h in its place and under its old name. *)
Follows(h, name, h2) ==
  /\ IsTree(h2) /\ DOMAIN h \subseteq DOMAIN h2 /\ KeptIn(h, h2)
  /\ \E longer : IsNaming(longer, h2) /\ \A i \in DOMAIN h : longer[i] = name[i]

LEMMA SoundFollows ==
  ASSUME NEW h, NEW name, NEW trail, NEW place, Sound(h, name, trail, place)
  PROVE  Follows(h, name, place.heap)
<1>1. DOMAIN h \subseteq DOMAIN place.heap /\ KeptIn(h, place.heap)
  BY DEF Sound, Grown, KeptIn, Keeps
<1>2. \E longer : IsNaming(longer, place.heap) /\ \A i \in DOMAIN h : longer[i] = name[i]
  BY DEF Sound
<1> QED
  BY <1>1, <1>2 DEF Follows, Sound

(* The array that [[path]] makes of what the last key holds. *)
Longer(old, id) == Array(Append(old.elems, id), old.line)

LEMMA LongerArray ==
  ASSUME NEW old \in Entries, Unmixed(old), Extendable(old), NEW id \in Nat \ {0}
  PROVE  /\ Longer(old, id) \in Entries /\ Unmixed(Longer(old, id))
         /\ Children(Longer(old, id)) = Children(old) \union {id}
         /\ Keeps(old, Longer(old, id))
<1> DEFINE new == Longer(old, id)
<1>1. /\ old.kind = "array" /\ old.elems \in Seq(Nat) /\ old.line \in Nat
      /\ Children(old) = ToSet(old.elems) \ {0}
  BY EntryKinds DEF Extendable
<1>2. /\ Append(old.elems, id) \in Seq(Nat)
      /\ DOMAIN Append(old.elems, id) = DOMAIN old.elems \union {Len(old.elems) + 1}
      /\ Len(old.elems) + 1 \notin DOMAIN old.elems
      /\ \A i \in DOMAIN old.elems : Append(old.elems, id)[i] = old.elems[i]
      /\ Append(old.elems, id)[Len(old.elems) + 1] = id
  BY <1>1
<1>3. /\ new \in Entries /\ new.kind = "array" /\ new.elems = Append(old.elems, id)
      /\ new.line = old.line
  BY <1>1, <1>2 DEF Longer, Array, Entries
<1> HIDE DEF new
<1>4. ToSet(new.elems) = ToSet(old.elems) \union {id}
  BY <1>2, <1>3 DEF ToSet
<1>5. 0 \notin ToSet(old.elems)
  <2>1. CASE old.elems = <<>>
    BY <2>1 DEF ToSet
  <2>2. CASE old.elems # <<>>
    <3>1. Len(old.elems) \in DOMAIN old.elems
      BY <1>1, <2>2, EmptySeq
    <3>2. Last(old.elems) \in ToSet(old.elems) /\ Last(old.elems) # 0
      BY <1>1, <2>2, <3>1 DEF Last, ToSet, Extendable
    <3> QED
      BY <1>1, <3>2 DEF Unmixed
  <2> QED
    BY <2>1, <2>2
<1>6. Unmixed(new)
  BY <1>4, <1>5 DEF Unmixed
<1>7. Children(new) = Children(old) \union {id}
  <2>1. Children(new) = ToSet(new.elems) \ {0}
    BY <1>3, EntryKinds
  <2> QED
    BY <1>1, <1>4, <2>1
<1>8. Keeps(old, new)
  <2>1. IsPrefix(old.elems, new.elems)
    BY <1>1, <1>2, <1>3 DEF IsPrefix
  <2>2. \A i \in DOMAIN new.elems \ DOMAIN old.elems : new.elems[i] # 0
    BY <1>2, <1>3
  <2> QED
    BY <1>1, <1>3, <2>1, <2>2 DEF Keeps
<1> QED
  BY <1>3, <1>6, <1>7, <1>8 DEF new

LEMMA FirstElement ==
  ASSUME NEW id \in Nat \ {0}
  PROVE  LET e == Longer(Array(<<>>, 0), id) IN
         e \in Entries /\ Unmixed(e) /\ Children(e) = {id}
<1> DEFINE none == Array(<<>>, 0)
<1>1. none \in Entries /\ none.kind = "array" /\ none.elems = <<>>
  BY DEF Array, Entries
<1>2. Children(none) = {} /\ Unmixed(none) /\ Extendable(none)
  BY <1>1, EntryKinds DEF ToSet, Unmixed, Extendable
<1> HIDE DEF none
<1>3. /\ Longer(none, id) \in Entries /\ Unmixed(Longer(none, id))
      /\ Children(Longer(none, id)) = Children(none) \union {id}
  BY <1>1, <1>2, LongerArray
<1> QED
  BY <1>2, <1>3 DEF none

(* [[path]]: the heap after Extend. *)
ExtendedHeap(parent, name) ==
  LET old == IF Has(parent, name) THEN Entry(parent, name) ELSE Array(<<>>, 0)
      id  == Len(parent.heap) + 1
  IN Append(SetEntry(parent, name, Longer(old, id)), NewTable)

LEMMA ExtendFollows ==
  ASSUME NEW h, NEW name, NEW trail, NEW place, Sound(h, name, trail, place),
         NEW key \in STRING, Has(place, key) => Extendable(Entry(place, key))
  PROVE  /\ Follows(h, name, ExtendedHeap(place, key))
         /\ Len(place.heap) + 1 \in DOMAIN ExtendedHeap(place, key)
<1> DEFINE g == place.heap
           at == place.at
           new == Len(g) + 1
           old == IF Has(place, key) THEN Entry(place, key) ELSE Array(<<>>, 0)
           e == Longer(old, new)
           h2 == ExtendedHeap(place, key)
<1>0. IsTree(g) /\ at \in DOMAIN g /\ g \in Heaps /\ new \in Nat \ {0}
  <2>1. IsTree(g) /\ at \in DOMAIN g
    BY DEF Sound
  <2>2. g \in Heaps
    BY <2>1 DEF IsTree
  <2> QED
    BY <2>1, <2>2, HeapFacts
<1>1. e \in Entries /\ Unmixed(e) /\ Children(e) = KidsAt(g, at, key) \union {new}
  <2>1. CASE Has(place, key)
    <3>1. key \in DOMAIN g[at] /\ old = g[at][key] /\ Extendable(old)
      BY <2>1 DEF Has, Entry
    <3>2. old \in Entries /\ Unmixed(old) /\ KidsAt(g, at, key) = Children(old)
      BY <1>0, <3>1, HeapFacts DEF IsTree, KidsAt
    <3> QED
      BY <1>0, <3>1, <3>2, LongerArray
  <2>2. CASE ~Has(place, key)
    <3>1. KidsAt(g, at, key) = {}
      BY <2>2 DEF Has, KidsAt
    <3> QED
      BY <1>0, <2>2, <3>1, FirstElement
  <2> QED
    BY <2>1, <2>2
<1>2. h2 = Append([g EXCEPT ![at] = Put(g[at], key, e)], NewTable)
  BY SetEntryIsPut DEF ExtendedHeap
<1>3. key \in DOMAIN g[at] => Keeps(g[at][key], e)
  <2> SUFFICES ASSUME key \in DOMAIN g[at] PROVE Keeps(g[at][key], e)
    OBVIOUS
  <2>1. Has(place, key) /\ old = g[at][key] /\ Extendable(old)
    BY DEF Has, Entry
  <2>2. old \in Entries /\ Unmixed(old)
    BY <1>0, <2>1, HeapFacts DEF IsTree
  <2> QED
    BY <1>0, <2>1, <2>2, LongerArray
<1> HIDE DEF e, h2, old
<1>4. IsHung(g, at, key, e, h2)
  BY <1>0, <1>1, <1>2, Hung
<1>5. AddsChild(g, at, key, h2)
  BY <1>0, <1>1, <1>4, HungChild
<1>6. IsTree(h2)
  BY <1>0, <1>1, <1>4, <1>5, HungTree
<1>7. PICK longer : IsNaming(longer, g) /\ \A i \in DOMAIN h : longer[i] = name[i]
  BY DEF Sound
<1>8. PICK more : IsNaming(more, h2) /\ NamesMore(longer, g, at, key, more)
  BY <1>0, <1>4, <1>5, <1>7, HungName
<1>9. Grown(h, g) /\ DOMAIN h \subseteq DOMAIN g
  BY DEF Sound, Grown
<1>10. DOMAIN h \subseteq DOMAIN h2 /\ new \in DOMAIN h2
  BY <1>4, <1>9 DEF IsHung
<1>11. KeptIn(h, h2)
  <2> SUFFICES ASSUME NEW i \in DOMAIN h, NEW k \in DOMAIN h[i]
               PROVE  k \in DOMAIN h2[i] /\ Keeps(h[i][k], h2[i][k])
    BY <1>10 DEF KeptIn
  <2>1. i \in DOMAIN g /\ k \in DOMAIN g[i] /\ g[i][k] = h[i][k]
    BY <1>9 DEF Grown
  <2>2. CASE i = at /\ k = key
    BY <1>3, <1>4, <2>1, <2>2 DEF IsHung
  <2>3. CASE i # at \/ k # key
    BY <1>4, <2>1, <2>3 DEF IsHung, Keeps
  <2> QED
    BY <2>2, <2>3
<1>12. \A i \in DOMAIN h : more[i] = name[i]
  BY <1>7, <1>8, <1>9 DEF NamesMore
<1>13. Follows(h, name, h2)
  BY <1>6, <1>8, <1>10, <1>11, <1>12 DEF Follows
<1> QED
  BY <1>10, <1>13 DEF h2

(* path = value *)
LEMMA ValueFacts ==
  ASSUME NEW v \in {"scalar", "empty", "filled"}, NEW line \in Nat
  PROVE  /\ ValueOf(v, line) \in Entries /\ Unmixed(ValueOf(v, line))
         /\ Children(ValueOf(v, line)) = {}
<1>1. CASE v = "scalar"
  <2>1. ValueOf(v, line) = Scalar(line)
    BY <1>1 DEF ValueOf
  <2>2. Scalar(line) \in Entries /\ Scalar(line).kind = "scalar"
    BY DEF Scalar, Entries
  <2> QED
    BY <2>1, <2>2, EntryKinds DEF Unmixed
<1>2. CASE v = "empty"
  <2>1. ValueOf(v, line) = Array(<<>>, line)
    BY <1>2 DEF ValueOf
  <2>2. Array(<<>>, line) \in Entries /\ Array(<<>>, line).kind = "array"
        /\ Array(<<>>, line).elems = <<>>
    BY DEF Array, Entries
  <2> QED
    BY <2>1, <2>2, EntryKinds DEF Unmixed, ToSet
<1>3. CASE v = "filled"
  <2>1. ValueOf(v, line) = Array(<<0>>, line)
    BY <1>3 DEF ValueOf
  <2>2. Array(<<0>>, line) \in Entries /\ Array(<<0>>, line).kind = "array"
        /\ Array(<<0>>, line).elems = <<0>>
    BY DEF Array, Entries
  <2>3. ToSet(<<0>>) = {0}
    BY DEF ToSet
  <2> QED
    BY <2>1, <2>2, <2>3, EntryKinds DEF Unmixed
<1> QED
  BY <1>1, <1>2, <1>3

LEMMA SetFollows ==
  ASSUME NEW h, NEW name, NEW trail, NEW place, Sound(h, name, trail, place),
         NEW key \in STRING, ~Has(place, key), NEW e \in Entries, Unmixed(e), Children(e) = {}
  PROVE  Follows(h, name, SetEntry(place, key, e))
<1> DEFINE g == place.heap
           at == place.at
           h2 == SetEntry(place, key, e)
<1>0. IsTree(g) /\ at \in DOMAIN g /\ g \in Heaps
  BY DEF Sound, IsTree
<1>1. h2 = [g EXCEPT ![at] = Put(g[at], key, e)] /\ key \notin DOMAIN g[at]
  BY SetEntryIsPut DEF Has
<1> HIDE DEF h2
<1>2. IsPut(g, at, key, e, h2)
  BY <1>0, <1>1, PutHeap
<1>3. IsTree(h2) /\ Grown(g, h2) /\ SameChildren(g, h2)
  BY <1>0, <1>1, <1>2, PutTree
<1>4. Grown(h, h2)
  <2>1. Grown(h, g)
    BY DEF Sound
  <2> QED
    BY <1>3, <2>1, GrownTrans
<1>5. DOMAIN h \subseteq DOMAIN h2 /\ KeptIn(h, h2)
  BY <1>4 DEF Grown, KeptIn, Keeps
<1>6. PICK longer : IsNaming(longer, g) /\ \A i \in DOMAIN h : longer[i] = name[i]
  BY DEF Sound
<1>7. IsNaming(longer, h2)
  BY <1>2, <1>3, <1>6 DEF IsNaming, SameChildren, IsPut
<1>8. Follows(h, name, h2)
  BY <1>3, <1>5, <1>6, <1>7 DEF Follows
<1> QED
  BY <1>8 DEF h2

-------------------------------------------------------------------------------
(* The reader *)

Lines == [kind : {"table", "array", "key"}, path : Paths]

(* Every header's table has the header's name, so that two of them cannot  *)
(* be the same table.                                                      *)
OpenedUnderTheirNames(name) ==
  \A i \in DOMAIN opened : opened[i] \in DOMAIN tables /\ name[opened[i]] \in explicit

(* The inductive invariant. *)
TreeInv ==
  /\ IsTree(tables) /\ current \in DOMAIN tables
  /\ lines \in Seq(Lines) /\ opened \in Seq(Nat) /\ IsInjective(opened)
  /\ \E name : IsNaming(name, tables) /\ OpenedUnderTheirNames(name)

(* What every line does. *)
LineKeeps == DOMAIN tables \subseteq DOMAIN tables' /\ KeptIn(tables, tables')

LEMMA PathParts ==
  ASSUME NEW path \in Paths
  PROVE  /\ Front(path) \in Seq(STRING) /\ Last(path) \in STRING
         /\ path = Append(Front(path), Last(path))
<1>1. path \in Seq(STRING) /\ Len(path) \in Nat \ {0}
  BY EmptySeq DEF Paths
<1> QED
  BY <1>1 DEF Front, Last

LEMMA ReadLine ==
  ASSUME NEW kind \in {"table", "array", "key"}, NEW path \in Paths,
         lines \in Seq(Lines), Read(kind, path)
  PROVE  lines' \in Seq(Lines)
<1>1. [kind |-> kind, path |-> path] \in Lines
  BY DEF Lines
<1> QED
  BY <1>1 DEF Read

LEMMA StayInv ==
  ASSUME TreeInv, UNCHANGED <<tables, current, explicit, opened>>, lines' \in Seq(Lines)
  PROVE  TreeInv' /\ LineKeeps
<1>1. TreeInv'
  BY DEF TreeInv, OpenedUnderTheirNames
<1>2. LineKeeps
  BY DEF LineKeeps, KeptIn, Keeps
<1> QED
  BY <1>1, <1>2

(* A line that opens no table. *)
LEMMA FollowInv ==
  ASSUME TreeInv, NEW name, IsNaming(name, tables), OpenedUnderTheirNames(name),
         Follows(tables, name, tables'), current' \in DOMAIN tables',
         UNCHANGED <<explicit, opened>>, lines' \in Seq(Lines)
  PROVE  TreeInv' /\ LineKeeps
<1>1. PICK longer : IsNaming(longer, tables') /\ \A i \in DOMAIN tables : longer[i] = name[i]
  BY DEF Follows
<1>2. OpenedUnderTheirNames(longer)'
  BY <1>1 DEF OpenedUnderTheirNames, Follows
<1>3. TreeInv'
  BY <1>1, <1>2 DEF TreeInv, Follows
<1>4. LineKeeps
  BY DEF LineKeeps, Follows
<1> QED
  BY <1>3, <1>4

(* What a line does, if it is not refused. *)

LEMMA TableOpens ==
  ASSUME NEW path, OpenTable(path)
  PROVE  \/ refused' # "" /\ UNCHANGED <<tables, current, explicit, opened>>
         \/ LET place == Descend(tables, path) IN
            /\ path \notin explicit /\ place.why = ""
            /\ tables' = place.heap /\ current' = place.at
            /\ opened' = Append(opened, place.at) /\ explicit' = explicit \union {path}
<1> DEFINE place == TableOpened(tables, explicit, path)
<1>1. place.why = "" => path \notin explicit
  BY Zenon DEF TableOpened, Place
<1>2. path \notin explicit => place = Descend(tables, path)
  BY DEF TableOpened
<1>3. \/ place.why # "" /\ GiveUp(place.why)
      \/ /\ place.why = "" /\ tables' = place.heap /\ current' = place.at
         /\ opened' = Append(opened, place.at) /\ explicit' = explicit \union {path}
  BY DEF OpenTable
<1> HIDE DEF place
<1> QED
  BY <1>1, <1>2, <1>3 DEF GiveUp

LEMMA ArrayOpens ==
  ASSUME NEW path, OpenArrayTable(path)
  PROVE  \/ refused' # "" /\ UNCHANGED <<tables, current, explicit, opened>>
         \/ LET parent == Descend(tables, Front(path))
                key    == Last(path)
            IN /\ parent.why = "" /\ (Has(parent, key) => Extendable(Entry(parent, key)))
               /\ tables' = ExtendedHeap(parent, key) /\ current' = Len(parent.heap) + 1
               /\ UNCHANGED <<explicit, opened>>
<1> DEFINE place  == ArrayExtended(tables, path)
           parent == Descend(tables, Front(path))
           key    == Last(path)
<1>1. place.why = "" =>
        /\ parent.why = "" /\ (Has(parent, key) => Extendable(Entry(parent, key)))
        /\ place = Extend(parent, key)
  <2> DEFINE clash == Has(parent, key) /\ ~Extendable(Entry(parent, key))
  <2>1. place = IF parent.why # "" THEN parent
                ELSE IF clash THEN Place(tables, Root, "cannot extend") ELSE Extend(parent, key)
    BY DEF ArrayExtended
  <2>2. Place(tables, Root, "cannot extend").why # ""
    BY Zenon DEF Place
  <2> HIDE DEF place, parent, key
  <2> QED
    BY <2>1, <2>2, Zenon
<1>2. /\ Extend(parent, key).heap = ExtendedHeap(parent, key)
      /\ Extend(parent, key).at = Len(parent.heap) + 1
  <2> HIDE DEF parent, key
  <2> QED
    BY DEF Extend, ExtendedHeap, Longer, Place
<1>3. \/ place.why # "" /\ GiveUp(place.why)
      \/ /\ place.why = "" /\ tables' = place.heap /\ current' = place.at
         /\ UNCHANGED <<explicit, opened>>
  BY DEF OpenArrayTable
<1> HIDE DEF place, parent, key
<1>4. CASE place.why # "" /\ GiveUp(place.why)
  BY <1>4 DEF GiveUp
<1>5. CASE /\ place.why = "" /\ tables' = place.heap /\ current' = place.at
           /\ UNCHANGED <<explicit, opened>>
  <2>1. /\ parent.why = "" /\ (Has(parent, key) => Extendable(Entry(parent, key)))
        /\ tables' = ExtendedHeap(parent, key) /\ current' = Len(parent.heap) + 1
    BY <1>1, <1>2, <1>5
  <2> QED
    BY <1>5, <2>1 DEF parent, key
<1> QED
  BY <1>3, <1>4, <1>5

LEMMA KeyIsSet ==
  ASSUME NEW path, NEW v, KeyValue(path, v)
  PROVE  \/ refused' # "" /\ UNCHANGED <<tables, current, explicit, opened>>
         \/ LET place == Dotted(tables, current, Front(path)) IN
            /\ place.why = "" /\ ~Has(place, Last(path))
            /\ tables' = SetEntry(place, Last(path), ValueOf(v, Len(lines) + 1))
            /\ UNCHANGED <<current, explicit, opened>>
<1> DEFINE value == ValueOf(v, Len(lines) + 1)
           set   == KeySet(tables, current, path, value)
           place == Dotted(tables, current, Front(path))
           key   == Last(path)
<1>1. set.why = "" => /\ place.why = "" /\ ~Has(place, key)
                      /\ set.heap = SetEntry(place, key, value)
  <2>1. set = IF place.why # "" THEN place
              ELSE IF Has(place, key) THEN Place(tables, current, "set twice")
              ELSE Place(SetEntry(place, key, value), current, "")
    BY DEF KeySet
  <2>2. Place(tables, current, "set twice").why # ""
    BY Zenon DEF Place
  <2>3. Place(SetEntry(place, key, value), current, "").heap = SetEntry(place, key, value)
    BY DEF Place
  <2> HIDE DEF set, place, key, value
  <2> QED
    BY <2>1, <2>2, <2>3, Zenon
<1>2. \/ set.why # "" /\ GiveUp(set.why)
      \/ /\ set.why = "" /\ tables' = set.heap
         /\ UNCHANGED <<current, explicit, opened>>
  BY DEF KeyValue
<1> HIDE DEF set, place, key, value
<1>3. CASE set.why # "" /\ GiveUp(set.why)
  BY <1>3 DEF GiveUp
<1>4. CASE /\ set.why = "" /\ tables' = set.heap
           /\ UNCHANGED <<current, explicit, opened>>
  <2>1. place.why = "" /\ ~Has(place, key) /\ tables' = SetEntry(place, key, value)
    BY <1>1, <1>4
  <2> QED
    BY <1>4, <2>1 DEF place, key, value
<1> QED
  BY <1>2, <1>3, <1>4

LEMMA OpenTableInv ==
  ASSUME TreeInv, NEW path \in Paths, OpenTable(path)
  PROVE  TreeInv' /\ LineKeeps
<1> DEFINE place == Descend(tables, path)
<1>1. lines' \in Seq(Lines)
  BY ReadLine DEF OpenTable, TreeInv
<1>2. CASE UNCHANGED <<tables, current, explicit, opened>>
  BY <1>1, <1>2, StayInv
<1>3. CASE /\ path \notin explicit /\ place.why = ""
           /\ tables' = place.heap /\ current' = place.at
           /\ opened' = Append(opened, place.at) /\ explicit' = explicit \union {path}
  <2> HIDE DEF place
  <2>1. PICK name : IsNaming(name, tables) /\ OpenedUnderTheirNames(name)
    BY DEF TreeInv
  <2>2. Sound(tables, name, path, place)
    <3>1. path \in Seq(STRING) /\ IsTree(tables)
      BY DEF Paths, TreeInv
    <3> QED
      BY <2>1, <3>1, DescendSound DEF place
  <2>3. Follows(tables, name, tables')
    BY <1>3, <2>2, SoundFollows
  <2>4. PICK longer : /\ IsNaming(longer, tables')
                      /\ \A i \in DOMAIN tables : longer[i] = name[i]
                      /\ longer[place.at] = path
    BY <1>3, <2>2 DEF Sound
  <2>5. place.at \in DOMAIN tables' /\ place.at \in Nat
    <3>1. place.at \in DOMAIN tables' /\ tables' \in Heaps
      BY <1>3, <2>2 DEF Sound, IsTree
    <3> QED
      BY <3>1, HeapFacts
  <2>6. /\ opened' \in Seq(Nat) /\ DOMAIN opened' = DOMAIN opened \union {Len(opened) + 1}
        /\ opened'[Len(opened) + 1] = place.at
        /\ \A i \in DOMAIN opened : opened'[i] = opened[i]
    <3>1. opened \in Seq(Nat) /\ opened' = Append(opened, place.at)
      BY <1>3 DEF TreeInv
    <3> QED
      BY <2>5, <3>1, AppendProperties
  <2>7. \A i \in DOMAIN opened : opened[i] # place.at
    BY <1>3, <2>1, <2>4 DEF OpenedUnderTheirNames
  <2>8. IsInjective(opened')
    BY <2>6, <2>7 DEF IsInjective, TreeInv
  <2>9. OpenedUnderTheirNames(longer)'
    <3>1. longer[place.at] \in explicit'
      BY <1>3, <2>1, <2>4
    <3>2. ASSUME NEW i \in DOMAIN opened
          PROVE  opened'[i] \in DOMAIN tables' /\ longer[opened'[i]] \in explicit'
      <4>1. opened'[i] = opened[i] /\ opened[i] \in DOMAIN tables /\ name[opened[i]] \in explicit
        BY <2>1, <2>6 DEF OpenedUnderTheirNames
      <4>2. DOMAIN tables \subseteq DOMAIN tables' /\ explicit \subseteq explicit'
        BY <1>3, <2>3 DEF Follows
      <4> QED
        BY <2>4, <4>1, <4>2
    <3> QED
      BY <2>5, <2>6, <3>1, <3>2 DEF OpenedUnderTheirNames
  <2>10. TreeInv'
    BY <1>1, <1>3, <2>3, <2>4, <2>5, <2>6, <2>8, <2>9 DEF TreeInv, Follows
  <2>11. LineKeeps
    BY <2>3 DEF LineKeeps, Follows
  <2> QED
    BY <2>10, <2>11
<1> QED
  BY <1>2, <1>3, TableOpens

LEMMA OpenArrayTableInv ==
  ASSUME TreeInv, NEW path \in Paths, OpenArrayTable(path)
  PROVE  TreeInv' /\ LineKeeps
<1> DEFINE parent == Descend(tables, Front(path))
           key == Last(path)
<1>1. lines' \in Seq(Lines)
  BY ReadLine DEF OpenArrayTable, TreeInv
<1>2. CASE UNCHANGED <<tables, current, explicit, opened>>
  BY <1>1, <1>2, StayInv
<1>3. CASE /\ Has(parent, key) => Extendable(Entry(parent, key))
           /\ tables' = ExtendedHeap(parent, key) /\ current' = Len(parent.heap) + 1
           /\ UNCHANGED <<explicit, opened>>
  <2>1. PICK name : IsNaming(name, tables) /\ OpenedUnderTheirNames(name)
    BY DEF TreeInv
  <2>2. Sound(tables, name, Front(path), parent) /\ key \in STRING
    BY <2>1, PathParts, DescendSound DEF TreeInv
  <2> HIDE DEF parent, key
  <2>3. Follows(tables, name, tables') /\ current' \in DOMAIN tables'
    BY <1>3, <2>2, ExtendFollows
  <2> QED
    BY <1>1, <1>3, <2>1, <2>3, FollowInv
<1> QED
  BY <1>2, <1>3, ArrayOpens

LEMMA KeyValueInv ==
  ASSUME TreeInv, NEW path \in Paths, NEW v \in {"scalar", "empty", "filled"},
         KeyValue(path, v)
  PROVE  TreeInv' /\ LineKeeps
<1> DEFINE place == Dotted(tables, current, Front(path))
           key == Last(path)
           value == ValueOf(v, Len(lines) + 1)
<1>1. lines' \in Seq(Lines)
  BY ReadLine DEF KeyValue, TreeInv
<1>2. CASE UNCHANGED <<tables, current, explicit, opened>>
  BY <1>1, <1>2, StayInv
<1>3. CASE /\ ~Has(place, key) /\ tables' = SetEntry(place, key, value)
           /\ UNCHANGED <<current, explicit, opened>>
  <2>1. PICK name : IsNaming(name, tables) /\ OpenedUnderTheirNames(name)
    BY DEF TreeInv
  <2>2. Sound(tables, name, name[current] \o Front(path), place) /\ key \in STRING
    BY <2>1, PathParts, DottedSound DEF TreeInv
  <2>3. value \in Entries /\ Unmixed(value) /\ Children(value) = {}
    <3>1. Len(lines) + 1 \in Nat
      BY DEF TreeInv
    <3> QED
      BY <3>1, ValueFacts
  <2> HIDE DEF place, key, value
  <2>4. Follows(tables, name, tables')
    BY <1>3, <2>2, <2>3, SetFollows
  <2>5. current' \in DOMAIN tables'
    BY <1>3, <2>4 DEF Follows, TreeInv
  <2> QED
    BY <1>1, <1>3, <2>1, <2>4, <2>5, FollowInv
<1> QED
  BY <1>2, <1>3, KeyIsSet

LEMMA TreeInit == Init => TreeInv
<1> SUFFICES ASSUME Init PROVE TreeInv
  OBVIOUS
<1>1. tables \in Heaps /\ DOMAIN tables = {Root} /\ DOMAIN tables[Root] = {}
  <2>1. tables = <<NewTable>>
    BY DEF Init
  <2>2. NewTable \in Tables /\ DOMAIN NewTable = {}
    BY NewTableIsTable
  <2>3. /\ <<NewTable>> \in Seq(Tables) /\ <<NewTable>> # <<>>
        /\ DOMAIN <<NewTable>> = {1} /\ <<NewTable>>[1] = NewTable
    <3> HIDE DEF NewTable
    <3> QED
      BY <2>2
  <2> QED
    BY <2>1, <2>2, <2>3 DEF Heaps, Root
<1>2. \A i, k, c : ~Child(tables, i, k, c)
  BY <1>1 DEF Child
<1>3. IsTree(tables)
  BY <1>1, <1>2 DEF IsTree
<1>4. IsNaming([i \in {Root} |-> <<>>], tables)
  BY <1>1, <1>2 DEF IsNaming
<1>5. \A name : OpenedUnderTheirNames(name)
  <2>1. DOMAIN opened = {}
    <3>1. opened = <<>>
      BY DEF Init
    <3>2. DOMAIN <<>> = {}
      OBVIOUS
    <3> QED
      BY <3>1, <3>2
  <2> QED
    BY <2>1 DEF OpenedUnderTheirNames
<1>6. opened \in Seq(Nat) /\ lines \in Seq(Lines) /\ IsInjective(opened)
  <2>1. opened = <<>> /\ lines = <<>>
    BY DEF Init
  <2>2. <<>> \in Seq(Nat) /\ <<>> \in Seq(Lines)
    OBVIOUS
  <2>3. IsInjective(<<>>)
    BY DEF IsInjective
  <2> QED
    BY <2>1, <2>2, <2>3
<1> QED
  BY <1>1, <1>3, <1>4, <1>5, <1>6 DEF TreeInv, Init

LEMMA TreeNext ==
  ASSUME TreeInv, [Next]_tomlVars
  PROVE  TreeInv' /\ LineKeeps
<1>1. ASSUME NEW path \in TablePaths, OpenTable(path) PROVE TreeInv' /\ LineKeeps
  BY <1>1, TomlAssumption, OpenTableInv
<1>2. ASSUME NEW path \in ArrayPaths, OpenArrayTable(path) PROVE TreeInv' /\ LineKeeps
  BY <1>2, TomlAssumption, OpenArrayTableInv
<1>3. ASSUME NEW kv \in KeyValues, KeyValue(kv[1], kv[2]) PROVE TreeInv' /\ LineKeeps
  <2>1. kv[1] \in Paths /\ kv[2] \in {"scalar", "empty", "filled"}
    BY TomlAssumption
  <2> QED
    BY <1>3, <2>1, KeyValueInv
<1>4. CASE UNCHANGED tomlVars
  <2>1. UNCHANGED <<tables, current, explicit, opened>> /\ lines' \in Seq(Lines)
    BY <1>4 DEF tomlVars, TreeInv
  <2> QED
    BY <2>1, StayInv
<1> QED
  BY <1>1, <1>2, <1>3, <1>4 DEF Next

THEOREM TreeInvariant == Spec => []TreeInv
<1>1. TreeInv /\ [Next]_tomlVars => TreeInv'
  BY TreeNext
<1> QED
  BY <1>1, TreeInit, PTL DEF Spec

-------------------------------------------------------------------------------
(* What follows *)

LEMMA TreeTyped == TreeInv => TreeTypeOK
<1> SUFFICES ASSUME TreeInv PROVE TreeTypeOK
  OBVIOUS
<1>1. IsTree(tables) /\ tables \in Heaps /\ current \in DOMAIN tables
  BY DEF TreeInv, IsTree
<1>2. DOMAIN tables = 1..Len(tables) /\ Len(tables) \in Nat
  BY <1>1, HeapFacts
<1>3. \A id, at : at \in Parents(id) <=> \E i, k : at = <<i, k>> /\ Child(tables, i, k, id)
  BY DEF Parents, Child
<1>4. Parents(Root) = {}
  <2>1. \A i, k : ~Child(tables, i, k, Root)
    BY <1>1, <1>2 DEF IsTree, Child, Root
  <2> QED
    BY <1>3, <2>1
<1>5. ASSUME NEW id \in DOMAIN tables \ {Root}
      PROVE  Cardinality(Parents(id)) = 1 /\ \A at \in Parents(id) : at[1] < id
  <2>1. PICK i, k : Child(tables, i, k, id)
    BY <1>1 DEF IsTree
  <2>2. ASSUME NEW j, NEW l, Child(tables, j, l, id) PROVE j = i /\ l = k
    BY <1>1, <2>1, <2>2 DEF IsTree
  <2>3. Parents(id) = {<<i, k>>}
    BY <1>3, <2>1, <2>2
  <2>4. i < id
    BY <1>1, <2>1 DEF IsTree
  <2>5. Cardinality(Parents(id)) = 1
    <3> DEFINE at == <<i, k>>
    <3>1. Parents(id) = {at}
      BY <2>3
    <3> HIDE DEF at
    <3> QED
      BY <3>1, FS_Singleton
  <2>6. \A at \in Parents(id) : at[1] < id
    BY <2>3, <2>4
  <2> QED
    BY <2>5, <2>6
<1>6. ASSUME NEW id \in DOMAIN tables, NEW k \in DOMAIN tables[id],
             tables[id][k].kind = "array"
      PROVE  \/ 0 \notin ToSet(tables[id][k].elems)
             \/ ToSet(tables[id][k].elems) = {0}
  BY <1>1, <1>6 DEF IsTree, Unmixed
<1> QED
  BY <1>1, <1>4, <1>5, <1>6 DEF TreeTypeOK

(* The tables of a persona file form a tree below the root, however its    *)
(* headers, arrays of tables and dotted keys are mixed: no table is shared *)
(* by two entries, none is cut off, and no array mixes tables and values.  *)
THEOREM TreeIsTyped == Spec => []TreeTypeOK
BY TreeInvariant, TreeTyped, PTL

(* No two [path] headers of a file that is accepted so far have opened the *)
(* same table: the set of headers seen is enough to reject a redefinition. *)
THEOREM TablesOpenOnce == Spec => []NoTableReopened
<1>1. TreeInv => NoTableReopened
  BY DEF TreeInv, NoTableReopened
<1> QED
  BY <1>1, TreeInvariant, PTL

(* A line never changes what an earlier one has set: keys and values stay  *)
(* where they are, and an array only gets tables at its end.               *)
THEOREM ReaderOnlyAdds == Spec => NothingOverwritten
<1> DEFINE Kept == \A id \in DOMAIN tables : \A k \in DOMAIN tables[id] :
                     /\ id \in DOMAIN tables' /\ k \in DOMAIN tables'[id]
                     /\ Keeps(tables[id][k], tables'[id][k])
<1>1. TreeInv /\ [Next]_tomlVars => [Kept]_tomlVars
  BY TreeNext DEF LineKeeps, KeptIn
<1> QED
  BY <1>1, TreeInvariant, PTL DEF Spec, NothingOverwritten

-------------------------------------------------------------------------------
(* Where values land.  The text names tables by their paths; the latest    *)
(* table of a name is the one a header leads to.  The map `at` from paths  *)
(* to these tables is what the reader keeps without keeping it.            *)

(* Where an entry leads, and how many tables it holds in a row.            *)
LeadsOnlyTo(entry, id) == \A c : Leads(entry, c) <=> c = id

Size(entry) ==
  IF entry.kind = "array" /\ 0 \notin ToSet(entry.elems) THEN Len(entry.elems) ELSE 0

IsLatest(at, h) ==
  /\ DOMAIN at \subseteq Seq(STRING) /\ <<>> \in DOMAIN at /\ at[<<>>] = Root
  /\ \A p \in DOMAIN at : at[p] \in DOMAIN h
  /\ \A p \in DOMAIN at : \A k, c :
        Newest(h, at[p], k, c) => Append(p, k) \in DOMAIN at /\ at[Append(p, k)] = c
  /\ \A p \in Seq(STRING), k \in STRING :
        Append(p, k) \in DOMAIN at => p \in DOMAIN at /\ Newest(h, at[p], k, at[Append(p, k)])
  /\ \A p, q \in DOMAIN at : at[p] = at[q] => p = q

Tally(h, at, p, k) ==
  IF p \in DOMAIN at /\ k \in DOMAIN h[at[p]] THEN Size(h[at[p]][k]) ELSE 0

(* The elements counted in the text are those in the tree. *)
Counted(at, h, E) ==
  \A p \in Seq(STRING), k \in STRING : E[Append(p, k)] = Tally(h, at, p, k)

Extends(at, more) == \A p \in DOMAIN at : p \in DOMAIN more /\ more[p] = at[p]

-------------------------------------------------------------------------------
(* Names *)

Below(p, q) == IsStrictPrefix(p, q)

LEMMA AppendEach ==
  ASSUME NEW p \in Seq(STRING), NEW k \in STRING
  PROVE  /\ Append(p, k) \in Seq(STRING) /\ Append(p, k) # <<>>
         /\ Len(Append(p, k)) = Len(p) + 1 /\ Len(p) \in Nat
         /\ \A i \in 1..Len(p) : Append(p, k)[i] = p[i]
         /\ Append(p, k)[Len(p) + 1] = k
<1>1. Append(p, k) \in Seq(STRING) /\ Append(p, k) # <<>>
  BY AppendProperties
<1>2. Len(Append(p, k)) = Len(p) + 1 /\ Len(p) \in Nat
  BY AppendProperties
<1>3. \A i \in 1..Len(p) : Append(p, k)[i] = p[i]
  BY AppendProperties
<1>4. Append(p, k)[Len(p) + 1] = k
  BY AppendProperties
<1> QED
  BY <1>1, <1>2, <1>3, <1>4

IsNameOf(name, q, l) ==
  \A p \in Seq(STRING), k \in STRING : Append(p, k) = name <=> (p = q /\ k = l)

LEMMA NameParts ==
  ASSUME NEW q \in Seq(STRING), NEW l \in STRING
  PROVE  IsNameOf(Append(q, l), q, l)
<1> SUFFICES ASSUME NEW p \in Seq(STRING), NEW k \in STRING
             PROVE  Append(p, k) = Append(q, l) <=> (p = q /\ k = l)
  BY DEF IsNameOf
<1> DEFINE r == Append(p, k)
           s == Append(q, l)
<1>1. Len(r) = Len(p) + 1 /\ Len(p) \in Nat
  BY AppendEach
<1>2. \A i \in 1..Len(p) : r[i] = p[i]
  BY AppendEach
<1>3. r[Len(p) + 1] = k
  BY AppendEach
<1>4. Len(s) = Len(q) + 1 /\ Len(q) \in Nat
  BY AppendEach
<1>5. \A i \in 1..Len(q) : s[i] = q[i]
  BY AppendEach
<1>6. s[Len(q) + 1] = l
  BY AppendEach
<1>7. (p = q /\ k = l) => r = s
  OBVIOUS
<1> HIDE DEF r, s
<1>8. ASSUME r = s PROVE p = q /\ k = l
  <2>0. Len(p) = Len(q)
    BY <1>1, <1>4, <1>8
  <2>1. Len(p) = Len(q) /\ k = l
    BY <1>3, <1>6, <1>8, <2>0
  <2>2. \A i \in 1..Len(p) : p[i] = q[i]
    BY <1>2, <1>5, <1>8, <2>1
  <2>3. p = q
    BY <2>1, <2>2, SeqEqual
  <2> QED
    BY <2>1, <2>3
<1>9. r = s <=> (p = q /\ k = l)
  BY <1>7, <1>8
<1> QED
  BY <1>9 DEF r, s

(* A prefix, one place after the other. *)
LEMMA PrefixEach ==
  ASSUME NEW p \in Seq(STRING), NEW q \in Seq(STRING)
  PROVE  IsPrefix(p, q) <=> Len(p) <= Len(q) /\ \A i \in 1..Len(p) : p[i] = q[i]
<1> DEFINE m == Len(p)
<1>1. m \in Nat /\ Len(q) \in Nat /\ DOMAIN p = 1..m /\ DOMAIN q = 1..Len(q)
  OBVIOUS
<1>2. SubSeq(p, 1, m) = p
  OBVIOUS
<1>3. ASSUME m <= Len(q)
      PROVE  SubSeq(q, 1, m) = p <=> \A i \in 1..m : p[i] = q[i]
  <2>0. \A i \in 1..m : q[i] \in STRING
    BY <1>1, <1>3
  <2>1. /\ SubSeq(q, 1, m) \in Seq(STRING)
        /\ Len(SubSeq(q, 1, m)) = IF 1 <= m THEN m - 1 + 1 ELSE 0
        /\ \A i \in 1..(m - 1 + 1) : SubSeq(q, 1, m)[i] = q[1 + i - 1]
    BY <1>1, <2>0, SubSeqProperties
  <2>2. Len(SubSeq(q, 1, m)) = m
    BY <1>1, <2>1
  <2>3. \A i \in 1..m : SubSeq(q, 1, m)[i] = q[i]
    BY <1>1, <2>1
  <2> DEFINE s == SubSeq(q, 1, m)
  <2>4. s \in Seq(STRING) /\ Len(s) = m /\ \A i \in 1..m : s[i] = q[i]
    BY <2>1, <2>2, <2>3
  <2> HIDE DEF s
  <2>5. s = p <=> \A i \in 1..m : p[i] = q[i]
    <3>1. ASSUME \A i \in 1..m : p[i] = q[i] PROVE s = p
      <4>1. \A i \in 1..m : s[i] = p[i]
        BY <2>4, <3>1
      <4> QED
        BY <2>4, <4>1, SeqEqual
    <3>2. ASSUME s = p PROVE \A i \in 1..m : p[i] = q[i]
      BY <2>4, <3>2
    <3> QED
      BY <3>1, <3>2
  <2> QED
    BY <2>5 DEF s
<1> QED
  BY <1>1, <1>2, <1>3 DEF IsPrefix

LEMMA BelowEach ==
  ASSUME NEW p \in Seq(STRING), NEW q \in Seq(STRING)
  PROVE  Below(p, q) <=> Len(p) < Len(q) /\ \A i \in 1..Len(p) : p[i] = q[i]
<1>1. Len(p) \in Nat /\ Len(q) \in Nat
  OBVIOUS
<1>2. IsPrefix(p, q) <=> Len(p) <= Len(q) /\ \A i \in 1..Len(p) : p[i] = q[i]
  BY PrefixEach
<1>3. ASSUME Len(p) = Len(q), \A i \in 1..Len(p) : p[i] = q[i] PROVE p = q
  BY <1>3, SeqEqual
<1> QED
  BY <1>1, <1>2, <1>3 DEF Below, IsStrictPrefix

LEMMA BelowAppend ==
  ASSUME NEW p \in Seq(STRING), NEW q \in Seq(STRING), NEW k \in STRING
  PROVE  Below(p, Append(q, k)) <=> p = q \/ Below(p, q)
<1> DEFINE r == Append(q, k)
<1>0. \A i \in 1..Len(q) : r[i] = q[i]
  BY AppendEach
<1>1. r \in Seq(STRING) /\ Len(r) = Len(q) + 1
  BY AppendEach
<1> HIDE DEF r
<1>2. Len(p) \in Nat /\ Len(q) \in Nat
  OBVIOUS
<1>3. Below(p, r) <=> Len(p) < Len(r) /\ \A i \in 1..Len(p) : p[i] = r[i]
  BY <1>1, BelowEach
<1>4. Below(p, q) <=> Len(p) < Len(q) /\ \A i \in 1..Len(p) : p[i] = q[i]
  BY BelowEach
<1>5. ASSUME Len(p) = Len(q), \A i \in 1..Len(p) : p[i] = q[i] PROVE p = q
  BY <1>5, SeqEqual
<1>6. Len(p) < Len(r) <=> Len(p) < Len(q) \/ Len(p) = Len(q)
  BY <1>1, <1>2
<1>7. Len(p) < Len(r) => \A i \in 1..Len(p) : r[i] = q[i]
  BY <1>0, <1>1, <1>2
<1>8. Below(p, r) <=> p = q \/ Below(p, q)
  BY <1>3, <1>4, <1>5, <1>6, <1>7
<1> QED
  BY <1>8 DEF r

LEMMA NotBelow ==
  ASSUME NEW p \in Seq(STRING), NEW k \in STRING
  PROVE  ~Below(p, p) /\ ~Below(Append(p, k), p) /\ Append(p, k) # p
<1> DEFINE r == Append(p, k)
<1>1. r \in Seq(STRING) /\ Len(r) = Len(p) + 1 /\ Len(p) \in Nat
  BY AppendEach
<1> HIDE DEF r
<1>2. ~Below(p, p) /\ ~Below(r, p) /\ r # p
  BY <1>1, BelowEach
<1> QED
  BY <1>2 DEF r

LEMMA NothingAbove ==
  ASSUME NEW p \in Seq(STRING)
  PROVE  ~Below(p, <<>>)
<1> DEFINE none == <<>>
<1>1. none \in Seq(STRING) /\ Len(none) = 0 /\ Len(p) \in Nat
  OBVIOUS
<1> HIDE DEF none
<1>3. Below(p, none) <=> (Len(p) < Len(none) /\ \A i \in 1..Len(p) : p[i] = none[i])
  <2>1. none \in Seq(STRING)
    BY <1>1
  <2> QED
    BY <2>1, BelowEach
<1>2. ~Below(p, none)
  BY <1>1, <1>3
<1> QED
  BY <1>2 DEF none

-------------------------------------------------------------------------------
(* The three ways in which a line changes the tree *)

LEMMA OneNewest ==
  ASSUME NEW h, NEW i, NEW k, NEW c, NEW d, Newest(h, i, k, c), Newest(h, i, k, d)
  PROVE  c = d
BY DEF Newest, Leads

(* One entry is set or changed; new tables are empty. *)
LEMMA HungNewest ==
  ASSUME NEW h, NEW i \in DOMAIN h, NEW key, NEW e, NEW h2, IsHung(h, i, key, e, h2)
  PROVE  /\ \A c : Newest(h2, i, key, c) <=> Leads(e, c)
         /\ \A j \in DOMAIN h : \A k, c :
              j # i \/ k # key => (Newest(h2, j, k, c) <=> Newest(h, j, k, c))
         /\ \A k, c : ~Newest(h2, Len(h) + 1, k, c)
<1>1. /\ DOMAIN h2 = DOMAIN h \union {Len(h) + 1} /\ Len(h) + 1 \notin DOMAIN h
      /\ DOMAIN h2[Len(h) + 1] = {}
      /\ DOMAIN h2[i] = DOMAIN h[i] \union {key} /\ h2[i][key] = e
      /\ \A k \in DOMAIN h[i] \ {key} : h2[i][k] = h[i][k]
      /\ \A j \in DOMAIN h \ {i} : h2[j] = h[j]
  BY DEF IsHung
<1>2. \A c : Newest(h2, i, key, c) <=> Leads(e, c)
  BY <1>1 DEF Newest
<1>3. ASSUME NEW j \in DOMAIN h, NEW k, NEW c, j # i \/ k # key
      PROVE  Newest(h2, j, k, c) <=> Newest(h, j, k, c)
  <2>1. CASE j # i
    BY <1>1, <2>1 DEF Newest
  <2>2. CASE j = i /\ k # key
    BY <1>1, <2>2 DEF Newest
  <2> QED
    BY <1>3, <2>1, <2>2
<1>4. \A k, c : ~Newest(h2, Len(h) + 1, k, c)
  BY <1>1 DEF Newest
<1> QED
  BY <1>2, <1>3, <1>4

(* The names that survive when a table is hung under the name p.key.       *)
Survive(D, at, h, p, key) ==
  /\ D \subseteq DOMAIN at /\ <<>> \in D /\ p \in D /\ Append(p, key) \notin D
  /\ \A q \in Seq(STRING), k \in STRING : Append(q, k) \in D => q \in D
  /\ \A q \in D, k \in STRING :
        Append(q, k) \in DOMAIN at /\ Append(q, k) # Append(p, key) => Append(q, k) \in D

Renamed(D, at, name, id) == [q \in D \union {name} |-> IF q = name THEN id ELSE at[q]]

LEMMA HungLatest ==
  ASSUME NEW h, IsTree(h), NEW at, IsLatest(at, h), NEW p \in DOMAIN at, NEW key \in STRING,
         NEW e, LeadsOnlyTo(e, Len(h) + 1),
         NEW h2, IsHung(h, at[p], key, e, h2),
         NEW D, Survive(D, at, h, p, key)
  PROVE  IsLatest(Renamed(D, at, Append(p, key), Len(h) + 1), h2)
<1> DEFINE P == Append(p, key)
           new == Len(h) + 1
           at2 == Renamed(D, at, P, new)
<1>1. /\ D \subseteq DOMAIN at /\ <<>> \in D /\ p \in D /\ P \notin D
      /\ \A q \in Seq(STRING), k \in STRING : Append(q, k) \in D => q \in D
      /\ \A q \in D, k \in STRING :
            Append(q, k) \in DOMAIN at /\ Append(q, k) # P => Append(q, k) \in D
  BY DEF Survive
<1>2. DOMAIN at \subseteq Seq(STRING) /\ p \in Seq(STRING) /\ at[<<>>] = Root
  BY DEF IsLatest
<1>3. P \in Seq(STRING) /\ P # <<>>
  BY <1>2, AppendEach
<1>4. IsNameOf(P, p, key)
  BY <1>2, NameParts
<1>5. /\ DOMAIN at2 = D \union {P} /\ at2[P] = new
      /\ \A q \in D : q # P /\ at2[q] = at[q]
  <2> HIDE DEF P, new
  <2> QED
    BY <1>1 DEF Renamed
<1>6. /\ at[p] \in DOMAIN h /\ new \notin DOMAIN h /\ DOMAIN h2 = DOMAIN h \union {new}
      /\ \A q \in DOMAIN at : at[q] \in DOMAIN h
  BY DEF IsLatest, IsHung
<1>7. /\ \A c : Newest(h2, at[p], key, c) <=> Leads(e, c)
      /\ \A j \in DOMAIN h : \A k, c :
           j # at[p] \/ k # key => (Newest(h2, j, k, c) <=> Newest(h, j, k, c))
      /\ \A k, c : ~Newest(h2, new, k, c)
  BY <1>6, HungNewest
<1>8. \A q, r \in DOMAIN at : at[q] = at[r] => q = r
  BY DEF IsLatest
<1>16. \A c : Newest(h2, at[p], key, c) <=> c = new
  BY <1>7 DEF LeadsOnlyTo
<1> HIDE DEF P, new, at2
<1>9. ASSUME NEW q \in D, NEW k, NEW c, q # p \/ k # key
      PROVE  Newest(h2, at2[q], k, c) <=> Newest(h, at[q], k, c)
  <2>1. at2[q] = at[q] /\ at[q] \in DOMAIN h
    BY <1>1, <1>5, <1>6
  <2>2. at[q] # at[p] \/ k # key
    BY <1>1, <1>8, <1>9
  <2> QED
    BY <1>7, <2>1, <2>2
<1>10. DOMAIN at2 \subseteq Seq(STRING) /\ <<>> \in DOMAIN at2 /\ at2[<<>>] = Root
  BY <1>1, <1>2, <1>3, <1>5
<1>11. \A q \in DOMAIN at2 : at2[q] \in DOMAIN h2
  BY <1>1, <1>5, <1>6
<1>12. ASSUME NEW q \in DOMAIN at2, NEW k, NEW c, Newest(h2, at2[q], k, c)
       PROVE  Append(q, k) \in DOMAIN at2 /\ at2[Append(q, k)] = c
  <2>1. q \in D
    BY <1>5, <1>7, <1>12
  <2>2. CASE q = p /\ k = key
    <3>1. c = new
      BY <1>1, <1>5, <1>16, <1>12, <2>2
    <3> QED
      BY <1>5, <2>2, <3>1 DEF P
  <2>3. CASE q # p \/ k # key
    <3>1. Newest(h, at[q], k, c)
      BY <1>9, <1>12, <2>1, <2>3
    <3>2. k \in STRING
      BY <3>1, HeapFacts DEF Newest, IsTree
    <3>3. Append(q, k) \in DOMAIN at /\ at[Append(q, k)] = c
      BY <1>1, <2>1, <3>1 DEF IsLatest
    <3>4. Append(q, k) # P
      BY <1>1, <1>2, <1>4, <2>1, <2>3, <3>2 DEF IsNameOf
    <3>5. Append(q, k) \in D
      BY <1>1, <2>1, <3>2, <3>3, <3>4
    <3> QED
      BY <1>5, <3>3, <3>5
  <2> QED
    BY <2>2, <2>3
<1>13. ASSUME NEW q \in Seq(STRING), NEW k \in STRING, Append(q, k) \in DOMAIN at2
       PROVE  q \in DOMAIN at2 /\ Newest(h2, at2[q], k, at2[Append(q, k)])
  <2>1. CASE Append(q, k) = P
    <3>1. q = p /\ k = key
      BY <1>4, <2>1 DEF IsNameOf
    <3> QED
      BY <1>1, <1>5, <1>16, <2>1, <3>1
  <2>2. CASE Append(q, k) # P
    <3>1. Append(q, k) \in D /\ q \in D
      BY <1>1, <1>5, <1>13, <2>2
    <3>2. Newest(h, at[q], k, at[Append(q, k)])
      BY <1>1, <3>1 DEF IsLatest
    <3>3. q # p \/ k # key
      BY <1>4, <2>2 DEF IsNameOf
    <3>4. Newest(h2, at2[q], k, at[Append(q, k)])
      BY <1>9, <3>1, <3>2, <3>3
    <3> QED
      BY <1>5, <3>1, <3>4
  <2> QED
    BY <2>1, <2>2
<1>14. ASSUME NEW q \in DOMAIN at2, NEW r \in DOMAIN at2, at2[q] = at2[r] PROVE q = r
  <2>1. CASE q \in D /\ r \in D
    BY <1>1, <1>5, <1>8, <1>14, <2>1
  <2>2. CASE q \notin D \/ r \notin D
    BY <1>1, <1>5, <1>6, <1>14, <2>2
  <2> QED
    BY <2>1, <2>2
<1>15. IsLatest(at2, h2)
  BY <1>10, <1>11, <1>12, <1>13, <1>14 DEF IsLatest
<1> QED
  BY <1>15 DEF at2, P, new

LEMMA HungTally ==
  ASSUME NEW h, NEW at, IsLatest(at, h), NEW p \in DOMAIN at, NEW key \in STRING,
         NEW e, NEW h2, IsHung(h, at[p], key, e, h2),
         NEW D, Survive(D, at, h, p, key), NEW q \in Seq(STRING), NEW k \in STRING
  PROVE  Tally(h2, Renamed(D, at, Append(p, key), Len(h) + 1), q, k) =
           IF Append(q, k) = Append(p, key) THEN Size(e)
           ELSE IF q \in D THEN Tally(h, at, q, k) ELSE 0
<1> DEFINE P == Append(p, key)
           new == Len(h) + 1
           at2 == Renamed(D, at, P, new)
<1>1. D \subseteq DOMAIN at /\ p \in D /\ P \notin D
  BY DEF Survive
<1>2. p \in Seq(STRING) /\ \A r \in DOMAIN at : at[r] \in DOMAIN h
  BY DEF IsLatest
<1>3. Append(q, k) = P <=> (q = p /\ k = key)
  <2>1. IsNameOf(P, p, key)
    BY <1>2, NameParts
  <2> HIDE DEF P
  <2> QED
    BY <2>1 DEF IsNameOf
<1>4. /\ DOMAIN at2 = D \union {P} /\ at2[P] = new
      /\ \A r \in D : r # P /\ at2[r] = at[r]
  <2> HIDE DEF P, new
  <2> QED
    BY <1>1 DEF Renamed
<1>5. /\ DOMAIN h2[new] = {}
      /\ DOMAIN h2[at[p]] = DOMAIN h[at[p]] \union {key} /\ h2[at[p]][key] = e
      /\ \A l \in DOMAIN h[at[p]] \ {key} : h2[at[p]][l] = h[at[p]][l]
      /\ \A j \in DOMAIN h \ {at[p]} : h2[j] = h[j]
  BY DEF IsHung
<1>6. \A r, s \in DOMAIN at : at[r] = at[s] => r = s
  BY DEF IsLatest
<1> HIDE DEF P, new, at2
<1>7. CASE q = p /\ k = key
  <2>1. Tally(h2, at2, q, k) = Size(e)
    BY <1>1, <1>4, <1>5, <1>7 DEF Tally
  <2> QED
    BY <1>3, <1>7, <2>1 DEF at2, P, new
<1>8. CASE q \in D /\ ~(q = p /\ k = key)
  <2>1. q \in DOMAIN at2 /\ at2[q] = at[q] /\ at[q] \in DOMAIN h /\ q \in DOMAIN at
    BY <1>1, <1>2, <1>4, <1>8
  <2>2. /\ k \in DOMAIN h2[at[q]] <=> k \in DOMAIN h[at[q]]
        /\ k \in DOMAIN h[at[q]] => h2[at[q]][k] = h[at[q]][k]
    <3>1. CASE q = p
      BY <1>5, <1>8, <3>1
    <3>2. CASE q # p
      <4>1. at[q] # at[p]
        BY <1>6, <2>1, <3>2
      <4>2. h2[at[q]] = h[at[q]]
        BY <1>5, <2>1, <4>1
      <4> QED
        BY <4>2
    <3> QED
      BY <3>1, <3>2
  <2>3. Tally(h2, at2, q, k) = Tally(h, at, q, k)
    BY <2>1, <2>2 DEF Tally
  <2> QED
    BY <1>3, <1>8, <2>3 DEF at2, P, new
<1>9. CASE q \notin D
  <2>1. Tally(h2, at2, q, k) = 0
    BY <1>4, <1>5, <1>9 DEF Tally
  <2> QED
    BY <1>1, <1>3, <1>9, <2>1 DEF at2, P, new
<1> QED
  BY <1>7, <1>8, <1>9

LEMMA CreatedLatest ==
  ASSUME NEW place, IsTree(place.heap), NEW at, IsLatest(at, place.heap), NEW E,
         Counted(at, place.heap, E), NEW p \in DOMAIN at, at[p] = place.at,
         NEW key \in STRING, ~Has(place, key)
  PROVE  \E more : /\ IsLatest(more, Create(place, key).heap)
                   /\ Counted(more, Create(place, key).heap, E) /\ Extends(at, more)
                   /\ Append(p, key) \in DOMAIN more
                   /\ more[Append(p, key)] = Create(place, key).at
<1> DEFINE h == place.heap
           h2 == Create(place, key).heap
           new == Len(h) + 1
           P == Append(p, key)
           e == Table(new)
           more == Renamed(DOMAIN at, at, P, new)
<1>1. place.at \in DOMAIN h /\ DOMAIN at \subseteq Seq(STRING) /\ p \in Seq(STRING)
  BY DEF IsLatest
<1>2. IsHung(h, at[p], key, e, h2) /\ Create(place, key).at = new
  BY <1>1, Created
<1>3. key \notin DOMAIN h[at[p]]
  BY DEF Has
<1>4. LeadsOnlyTo(e, new) /\ Size(e) = 0
  BY DEF LeadsOnlyTo, Leads, Size, Table
<1>5. IsNameOf(P, p, key)
  BY <1>1, NameParts
<1> HIDE DEF P
<1>6. P \notin DOMAIN at
  BY <1>1, <1>3 DEF IsLatest, Newest, P
<1>7. Survive(DOMAIN at, at, h, p, key)
  BY <1>6 DEF Survive, IsLatest, P
<1>8. IsLatest(more, h2)
  <2> HIDE DEF e, h2
  <2> QED
    BY <1>2, <1>4, <1>7, HungLatest DEF P
<1>9. Counted(more, h2, E)
  <2> SUFFICES ASSUME NEW q \in Seq(STRING), NEW k \in STRING
               PROVE  E[Append(q, k)] = Tally(h2, more, q, k)
    BY DEF Counted
  <2>1. Tally(h2, more, q, k) =
           IF Append(q, k) = P THEN Size(e)
           ELSE IF q \in DOMAIN at THEN Tally(h, at, q, k) ELSE 0
    <3> HIDE DEF e, h2
    <3> QED
      BY <1>2, <1>7, HungTally DEF P
  <2>2. E[Append(q, k)] = Tally(h, at, q, k)
    BY DEF Counted
  <2> HIDE DEF e, more, h2, h
  <2>3. CASE Append(q, k) = P
    <3>1. q = p /\ k = key
      BY <1>5, <2>3 DEF IsNameOf
    <3>2. Tally(h, at, q, k) = 0
      BY <1>3, <3>1 DEF Tally
    <3> QED
      BY <1>4, <2>1, <2>2, <2>3, <3>2
  <2>4. CASE Append(q, k) # P /\ q \in DOMAIN at
    BY <2>1, <2>2, <2>4
  <2>5. CASE Append(q, k) # P /\ q \notin DOMAIN at
    <3>1. Tally(h, at, q, k) = 0
      BY <2>5 DEF Tally
    <3> QED
      BY <2>1, <2>2, <2>5, <3>1
  <2> QED
    BY <2>3, <2>4, <2>5
<1>10. P \in DOMAIN more /\ more[P] = new /\ Extends(at, more)
  <2> HIDE DEF new
  <2> QED
    BY <1>6 DEF Renamed, Extends
<1> HIDE DEF more, h2
<1>11. \E m : /\ IsLatest(m, h2) /\ Counted(m, h2, E) /\ Extends(at, m)
              /\ P \in DOMAIN m /\ m[P] = Create(place, key).at
  BY <1>2, <1>8, <1>9, <1>10
<1> QED
  BY <1>11 DEF P, h2

LEMMA LongerRow ==
  ASSUME NEW old \in Entries, Unmixed(old), Extendable(old), NEW id \in Nat \ {0}
  PROVE  LeadsOnlyTo(Longer(old, id), id) /\ Size(Longer(old, id)) = Size(old) + 1
<1> DEFINE new == Longer(old, id)
           row == Append(old.elems, id)
<1>1. old.kind = "array" /\ old.elems \in Seq(Nat)
  BY EntryKinds DEF Extendable
<1>2. new.kind = "array" /\ new.elems = row
  BY DEF Longer, Array
<1>3. row \in Seq(Nat) /\ Len(row) = Len(old.elems) + 1 /\ Len(old.elems) \in Nat
  BY <1>1
<1>4. row[Len(old.elems) + 1] = id
  BY <1>1
<1>5. DOMAIN row = DOMAIN old.elems \union {Len(old.elems) + 1}
  BY <1>1
<1>6. \A i \in DOMAIN old.elems : row[i] = old.elems[i]
  BY <1>1
<1> HIDE DEF new, row
<1>7. row # <<>> /\ Last(row) = id
  BY <1>3, <1>4 DEF Last
<1>8. LeadsOnlyTo(new, id)
  BY <1>2, <1>7 DEF LeadsOnlyTo, Leads
<1>9. 0 \notin ToSet(old.elems)
  <2>1. CASE old.elems = <<>>
    BY <2>1 DEF ToSet
  <2>2. CASE old.elems # <<>>
    <3>1. Len(old.elems) \in DOMAIN old.elems
      BY <1>1, <2>2, EmptySeq
    <3>2. Last(old.elems) \in ToSet(old.elems) /\ Last(old.elems) # 0
      BY <1>1, <2>2, <3>1 DEF Last, ToSet, Extendable
    <3> QED
      BY <1>1, <3>2 DEF Unmixed
  <2> QED
    BY <2>1, <2>2
<1>10. 0 \notin ToSet(row)
  BY <1>4, <1>5, <1>6, <1>9 DEF ToSet
<1>11. Size(new) = Len(row) /\ Size(old) = Len(old.elems)
  BY <1>1, <1>2, <1>9, <1>10 DEF Size
<1> QED
  BY <1>3, <1>8, <1>11 DEF new

(* [[path]] in the text: one element more of that name, none yet below it. *)
OneMore(E, name, E2) ==
  \A r \in Seq(STRING) :
    E2[r] = IF r = name THEN 1 + E[r] ELSE IF Below(name, r) THEN 0 ELSE E[r]

LEMMA ExtendedHung ==
  ASSUME NEW place, IsTree(place.heap), place.at \in DOMAIN place.heap, NEW key \in STRING,
         Has(place, key) => Extendable(Entry(place, key))
  PROVE  \E e : /\ IsHung(place.heap, place.at, key, e, ExtendedHeap(place, key))
                /\ LeadsOnlyTo(e, Len(place.heap) + 1)
                /\ Size(e) = 1 + IF Has(place, key) THEN Size(Entry(place, key)) ELSE 0
<1> DEFINE g == place.heap
           new == Len(g) + 1
           old == IF Has(place, key) THEN Entry(place, key) ELSE Array(<<>>, 0)
           e == Longer(old, new)
<1>1. g \in Heaps
  BY DEF IsTree
<1>2. new \in Nat \ {0}
  BY <1>1, HeapFacts
<1>3. /\ old \in Entries /\ Unmixed(old) /\ Extendable(old)
      /\ Size(old) = IF Has(place, key) THEN Size(Entry(place, key)) ELSE 0
  <2>1. CASE Has(place, key)
    <3>1. key \in DOMAIN g[place.at] /\ old = g[place.at][key] /\ Extendable(old)
      BY <2>1 DEF Has, Entry
    <3>2. old \in Entries /\ Unmixed(old)
      BY <1>1, <3>1, HeapFacts DEF IsTree
    <3> QED
      BY <2>1, <3>1, <3>2
  <2>2. CASE ~Has(place, key)
    <3>1. old = Array(<<>>, 0)
      BY <2>2
    <3>2. Array(<<>>, 0) \in Entries /\ Array(<<>>, 0).kind = "array"
          /\ Array(<<>>, 0).elems = <<>>
      BY DEF Array, Entries
    <3>3. ToSet(<<>>) = {} /\ Len(<<>>) = 0
      BY DEF ToSet
    <3> HIDE DEF old
    <3>4. Unmixed(old) /\ Extendable(old) /\ Size(old) = 0
      BY <3>1, <3>2, <3>3 DEF Unmixed, Extendable, Size
    <3> QED
      BY <2>2, <3>1, <3>2, <3>4
  <2> QED
    BY <2>1, <2>2
<1>4. ExtendedHeap(place, key) = Append([g EXCEPT ![place.at] = Put(g[place.at], key, e)], NewTable)
  BY SetEntryIsPut DEF ExtendedHeap
<1> HIDE DEF old
<1>5. e \in Entries /\ LeadsOnlyTo(e, new) /\ Size(e) = Size(old) + 1
  <2> HIDE DEF new
  <2> QED
    BY <1>2, <1>3, LongerArray, LongerRow
<1>6. Size(old) \in Nat
  <2>1. old.kind = "array" => old.elems \in Seq(Nat)
    BY <1>3, EntryKinds
  <2> QED
    BY <2>1 DEF Size
<1> HIDE DEF e
<1>7. IsHung(g, place.at, key, e, ExtendedHeap(place, key))
  BY <1>1, <1>4, <1>5, Hung
<1>8. Size(e) = 1 + IF Has(place, key) THEN Size(Entry(place, key)) ELSE 0
  BY <1>3, <1>5, <1>6
<1> QED
  BY <1>5, <1>7, <1>8

LEMMA ExtendSurvive ==
  ASSUME NEW h, NEW at, IsLatest(at, h), NEW p \in DOMAIN at, NEW key \in STRING,
         NEW P, P = Append(p, key)
  PROVE  Survive({q \in DOMAIN at : q # P /\ ~Below(P, q)}, at, h, p, key)
<1> DEFINE D == {q \in DOMAIN at : q # P /\ ~Below(P, q)}
<1>1. DOMAIN at \subseteq Seq(STRING) /\ <<>> \in DOMAIN at /\ p \in Seq(STRING)
  BY DEF IsLatest
<1>2. P \in Seq(STRING) /\ P # <<>> /\ Len(P) = Len(p) + 1 /\ Len(p) \in Nat
  BY <1>1, AppendEach
<1>3. <<>> \in D
  <2>1. ~Below(P, <<>>)
    BY <1>2, NothingAbove
  <2> QED
    BY <1>1, <1>2, <2>1
<1>4. p \in D /\ P \notin D
  BY <1>1, NotBelow
<1>5. ASSUME NEW q \in Seq(STRING), NEW k \in STRING
      PROVE  Below(P, Append(q, k)) <=> (P = q \/ Below(P, q))
  BY <1>2, BelowAppend
<1>6. ASSUME NEW q \in Seq(STRING), NEW k \in STRING, Append(q, k) \in D PROVE q \in D
  <2>1. Append(q, k) \in DOMAIN at /\ ~Below(P, Append(q, k))
    BY <1>6
  <2>2. q \in DOMAIN at
    BY <2>1 DEF IsLatest
  <2> QED
    BY <1>5, <2>1, <2>2
<1>7. ASSUME NEW q \in D, NEW k \in STRING, Append(q, k) \in DOMAIN at, Append(q, k) # P
      PROVE  Append(q, k) \in D
  <2>1. q \in Seq(STRING) /\ q # P /\ ~Below(P, q)
    BY <1>1
  <2>2. ~Below(P, Append(q, k))
    BY <1>5, <2>1
  <2> QED
    BY <1>7, <2>2
<1>8. D \subseteq DOMAIN at
  OBVIOUS
<1> HIDE DEF D
<1>9. Survive(D, at, h, p, key)
  BY <1>3, <1>4, <1>6, <1>7, <1>8 DEF Survive
<1> QED
  BY <1>9 DEF D

IsExtended(place, p, key, E2) ==
  \E more : /\ IsLatest(more, ExtendedHeap(place, key))
            /\ Counted(more, ExtendedHeap(place, key), E2)
            /\ Append(p, key) \in DOMAIN more
            /\ more[Append(p, key)] = Len(place.heap) + 1

LEMMA ExtendedLatest ==
  ASSUME NEW place, IsTree(place.heap), NEW at, IsLatest(at, place.heap), NEW E,
         Counted(at, place.heap, E), NEW p \in DOMAIN at, at[p] = place.at,
         NEW key \in STRING, Has(place, key) => Extendable(Entry(place, key)),
         NEW E2, OneMore(E, Append(p, key), E2)
  PROVE  IsExtended(place, p, key, E2)
<1> DEFINE h == place.heap
           h2 == ExtendedHeap(place, key)
           new == Len(h) + 1
           P == Append(p, key)
           D == {q \in DOMAIN at : q # P /\ ~Below(P, q)}
           more == Renamed(D, at, P, new)
<1>1. place.at \in DOMAIN h /\ DOMAIN at \subseteq Seq(STRING) /\ p \in Seq(STRING)
  BY DEF IsLatest
<1>2. PICK e : /\ IsHung(h, at[p], key, e, h2) /\ LeadsOnlyTo(e, new)
               /\ Size(e) = 1 + IF Has(place, key) THEN Size(Entry(place, key)) ELSE 0
  BY <1>1, ExtendedHung
<1>3. IsNameOf(P, p, key) /\ P \in Seq(STRING)
  BY <1>1, NameParts, AppendEach
<1>4. Survive(D, at, h, p, key)
  BY ExtendSurvive
<1>5. IsLatest(more, h2)
  <2> HIDE DEF h2, D
  <2> QED
    BY <1>2, <1>4, HungLatest
<1>6. P \in DOMAIN more /\ more[P] = new
  <2> HIDE DEF P, D, new
  <2> QED
    BY DEF Renamed
<1>7. Counted(more, h2, E2)
  <2> SUFFICES ASSUME NEW q \in Seq(STRING), NEW k \in STRING
               PROVE  E2[Append(q, k)] = Tally(h2, more, q, k)
    BY DEF Counted
  <2> DEFINE r == Append(q, k)
  <2>1. Tally(h2, more, q, k) =
           IF r = P THEN Size(e) ELSE IF q \in D THEN Tally(h, at, q, k) ELSE 0
    <3> HIDE DEF h2, D
    <3> QED
      BY <1>2, <1>4, HungTally
  <2>2. r \in Seq(STRING)
    BY AppendEach
  <2>3. E[r] = Tally(h, at, q, k)
    BY DEF Counted
  <2>4. Below(P, r) <=> (P = q \/ Below(P, q))
    BY <1>3, BelowAppend
  <2>5. E2[r] = IF r = P THEN 1 + E[r] ELSE IF Below(P, r) THEN 0 ELSE E[r]
    BY <2>2 DEF OneMore
  <2>6. r = P <=> (q = p /\ k = key)
    BY <1>3 DEF IsNameOf
  <2> HIDE DEF r, P, more, h2, new, h
  <2>7. ASSUME r = P PROVE E2[r] = Tally(h2, more, q, k)
    <3>1. Tally(h, at, q, k) = IF Has(place, key) THEN Size(Entry(place, key)) ELSE 0
      BY <2>6, <2>7 DEF Tally, Has, Entry, h
    <3> QED
      BY <1>2, <2>1, <2>3, <2>5, <2>7, <3>1
  <2>8. ASSUME r # P, Below(P, r) PROVE E2[r] = Tally(h2, more, q, k)
    <3>1. q \notin D
      BY <2>4, <2>8
    <3> QED
      BY <2>1, <2>5, <2>8, <3>1
  <2>9. ASSUME r # P, ~Below(P, r) PROVE E2[r] = Tally(h2, more, q, k)
    <3>1. q \in DOMAIN at => q \in D
      BY <2>4, <2>9
    <3>2. q \notin D => Tally(h, at, q, k) = 0
      BY <3>1 DEF Tally
    <3> HIDE DEF D
    <3> QED
      BY <2>1, <2>3, <2>5, <2>9, <3>2
  <2>10. E2[r] = Tally(h2, more, q, k)
    BY <2>7, <2>8, <2>9
  <2> QED
    BY <2>10 DEF r
<1> HIDE DEF more, h2
<1>8. \E m : IsLatest(m, h2) /\ Counted(m, h2, E2) /\ P \in DOMAIN m /\ m[P] = new
  BY <1>5, <1>6, <1>7
<1> QED
  BY <1>8 DEF h2, IsExtended

LEMMA SetLatest ==
  ASSUME NEW h, NEW i \in DOMAIN h, NEW key, key \notin DOMAIN h[i],
         NEW e, \A c : ~Leads(e, c), Size(e) = 0, NEW h2, IsPut(h, i, key, e, h2),
         NEW at, IsLatest(at, h), NEW E, Counted(at, h, E)
  PROVE  IsLatest(at, h2) /\ Counted(at, h2, E)
<1>1. /\ DOMAIN h2 = DOMAIN h
      /\ DOMAIN h2[i] = DOMAIN h[i] \union {key} /\ h2[i][key] = e
      /\ \A k \in DOMAIN h[i] \ {key} : h2[i][k] = h[i][k]
      /\ \A j \in DOMAIN h \ {i} : h2[j] = h[j]
  BY DEF IsPut
<1>2. ASSUME NEW j, NEW k, NEW c PROVE Newest(h2, j, k, c) <=> Newest(h, j, k, c)
  <2>1. CASE j # i
    BY <1>1, <2>1 DEF Newest
  <2>2. CASE j = i /\ k # key
    BY <1>1, <2>2 DEF Newest
  <2>3. CASE j = i /\ k = key
    BY <1>1, <2>3 DEF Newest
  <2> QED
    BY <2>1, <2>2, <2>3
<1>3. IsLatest(at, h2)
  <2>1. /\ DOMAIN at \subseteq Seq(STRING) /\ <<>> \in DOMAIN at /\ at[<<>>] = Root
        /\ \A p, q \in DOMAIN at : at[p] = at[q] => p = q
    BY DEF IsLatest
  <2>2. \A p \in DOMAIN at : at[p] \in DOMAIN h2
    BY <1>1 DEF IsLatest
  <2>3. \A p \in DOMAIN at : \A k, c :
           Newest(h2, at[p], k, c) => Append(p, k) \in DOMAIN at /\ at[Append(p, k)] = c
    BY <1>2 DEF IsLatest
  <2>4. \A p \in Seq(STRING), k \in STRING :
           Append(p, k) \in DOMAIN at => p \in DOMAIN at /\ Newest(h2, at[p], k, at[Append(p, k)])
    BY <1>2 DEF IsLatest
  <2> QED
    BY <2>1, <2>2, <2>3, <2>4 DEF IsLatest
<1>4. ASSUME NEW p, NEW k PROVE Tally(h2, at, p, k) = Tally(h, at, p, k)
  <2>1. CASE p \notin DOMAIN at
    BY <2>1 DEF Tally
  <2>2. CASE p \in DOMAIN at /\ at[p] # i
    <3>1. at[p] \in DOMAIN h
      BY <2>2 DEF IsLatest
    <3>2. h2[at[p]] = h[at[p]]
      BY <1>1, <2>2, <3>1
    <3> QED
      BY <3>2 DEF Tally
  <2>3. CASE p \in DOMAIN at /\ at[p] = i /\ k # key
    BY <1>1, <2>3 DEF Tally
  <2>4. CASE p \in DOMAIN at /\ at[p] = i /\ k = key
    BY <1>1, <2>4 DEF Tally
  <2> QED
    BY <2>1, <2>2, <2>3, <2>4
<1>5. Counted(at, h2, E)
  BY <1>4 DEF Counted
<1> QED
  BY <1>3, <1>5

LEMMA ValueLeadsNowhere ==
  ASSUME NEW v \in {"scalar", "empty", "filled"}, NEW line
  PROVE  (\A c : ~Leads(ValueOf(v, line), c)) /\ Size(ValueOf(v, line)) = 0
<1>1. CASE v = "scalar"
  BY <1>1 DEF ValueOf, Scalar, Leads, Size
<1>2. CASE v = "empty"
  <2>1. ValueOf(v, line) = Array(<<>>, line)
    BY <1>2 DEF ValueOf
  <2>2. Len(<<>>) = 0
    OBVIOUS
  <2> QED
    BY <2>1, <2>2 DEF Array, Leads, Size
<1>3. CASE v = "filled"
  <2>1. ValueOf(v, line) = Array(<<0>>, line)
    BY <1>3 DEF ValueOf
  <2>2. Last(<<0>>) = 0 /\ 0 \in ToSet(<<0>>)
    BY DEF Last, ToSet
  <2> QED
    BY <2>1, <2>2 DEF Array, Leads, Size
<1> QED
  BY <1>1, <1>2, <1>3

-------------------------------------------------------------------------------
(* Walks keep track of the latest tables: a place that is reached by the   *)
(* keys of trail is the latest table of that name.                         *)
Tracked(at, E, trail, place) ==
  /\ IsTree(place.heap) /\ place.at \in DOMAIN place.heap
  /\ \E more : /\ IsLatest(more, place.heap) /\ Counted(more, place.heap, E)
               /\ Extends(at, more)
               /\ place.why = "" => trail \in DOMAIN more /\ more[trail] = place.at

LEMMA StepTracked ==
  ASSUME NEW at, NEW E, NEW trail, NEW place, Tracked(at, E, trail, place),
         NEW key \in STRING, NEW next, StepsTo(place, key, next)
  PROVE  Tracked(at, E, Append(trail, key), next)
<1>0. IsTree(place.heap) /\ place.at \in DOMAIN place.heap
  BY DEF Tracked
<1>1. PICK more : /\ IsLatest(more, place.heap) /\ Counted(more, place.heap, E)
                  /\ Extends(at, more)
                  /\ place.why = "" => trail \in DOMAIN more /\ more[trail] = place.at
  BY DEF Tracked
<1>2. CASE place.why # "" /\ next = place
  BY <1>0, <1>1, <1>2 DEF Tracked
<1>3. CASE place.why = "" /\ ~Has(place, key) /\ next = Create(place, key)
  <2>1. IsTree(next.heap) /\ next.at \in DOMAIN next.heap
    BY <1>0, <1>3, Created
  <2>2. PICK m : /\ IsLatest(m, next.heap) /\ Counted(m, next.heap, E) /\ Extends(more, m)
                 /\ Append(trail, key) \in DOMAIN m /\ m[Append(trail, key)] = next.at
    <3>1. trail \in DOMAIN more /\ more[trail] = place.at
      BY <1>1, <1>3
    <3>2. \E m : /\ IsLatest(m, Create(place, key).heap)
                 /\ Counted(m, Create(place, key).heap, E) /\ Extends(more, m)
                 /\ Append(trail, key) \in DOMAIN m
                 /\ m[Append(trail, key)] = Create(place, key).at
      BY <1>0, <1>1, <1>3, <3>1, CreatedLatest
    <3> QED
      BY <1>3, <3>2
  <2>3. Extends(at, m)
    BY <1>1, <2>2 DEF Extends
  <2> QED
    BY <2>1, <2>2, <2>3 DEF Tracked
<1>4. CASE /\ place.why = ""
           /\ \E c : Newest(place.heap, place.at, key, c) /\ next = Place(place.heap, c, "")
  <2>1. PICK c : Newest(place.heap, place.at, key, c) /\ next = Place(place.heap, c, "")
    BY <1>4
  <2>2. next.heap = place.heap /\ next.at = c
    BY <2>1 DEF Place
  <2>3. c \in DOMAIN place.heap
    BY <1>0, <2>1, LeadsToChild
  <2>4. Append(trail, key) \in DOMAIN more /\ more[Append(trail, key)] = c
    <3>1. trail \in DOMAIN more /\ Newest(place.heap, more[trail], key, c)
      BY <1>1, <1>4, <2>1
    <3> QED
      BY <1>1, <3>1 DEF IsLatest
  <2> QED
    BY <1>0, <1>1, <2>2, <2>3, <2>4 DEF Tracked
<1>5. CASE place.why = "" /\ next = Place(place.heap, place.at, "not a table")
  <2>1. next.heap = place.heap /\ next.at = place.at /\ next.why # ""
    BY <1>5 DEF Place
  <2> QED
    BY <1>0, <1>1, <2>1 DEF Tracked
<1> QED
  BY <1>2, <1>3, <1>4, <1>5 DEF StepsTo

LEMMA WalkTracked ==
  ASSUME NEW at, NEW E, NEW walk, NEW path \in Seq(STRING), NEW begin \in Seq(STRING),
         Tracked(at, E, begin, walk[0]),
         \A n \in 1..Len(path) :
           walk[n - 1].at \in DOMAIN walk[n - 1].heap => StepsTo(walk[n - 1], path[n], walk[n])
  PROVE  Tracked(at, E, begin \o path, walk[Len(path)])
<1> DEFINE Visited == {walk[n] : n \in 0..Len(path)}
           G == {x \in Seq(STRING) \X Visited : Tracked(at, E, x[1], x[2])}
<1>1. \A trail, place : <<trail, place>> \in G <=>
         (trail \in Seq(STRING) /\ place \in Visited /\ Tracked(at, E, trail, place))
  OBVIOUS
<1>2. <<begin, walk[0]>> \in G
  BY <1>1
<1>3. ASSUME NEW n \in 1..Len(path), NEW trail \in Seq(STRING), <<trail, walk[n - 1]>> \in G
      PROVE  <<Append(trail, path[n]), walk[n]>> \in G
  <2>1. Tracked(at, E, trail, walk[n - 1]) /\ path[n] \in STRING
    BY <1>1, <1>3
  <2>2. StepsTo(walk[n - 1], path[n], walk[n])
    BY <2>1 DEF Tracked
  <2>3. Tracked(at, E, Append(trail, path[n]), walk[n])
    BY <2>1, <2>2, StepTracked
  <2>4. Append(trail, path[n]) \in Seq(STRING) /\ walk[n] \in Visited
    BY <2>1
  <2> QED
    BY <1>1, <2>3, <2>4
<1> HIDE DEF G
<1>4. <<begin \o path, walk[Len(path)]>> \in G
  BY <1>2, <1>3, WalkAlong
<1> QED
  BY <1>1, <1>4

LEMMA StartTracked ==
  ASSUME NEW h, IsTree(h), NEW at, IsLatest(at, h), NEW E, Counted(at, h, E), NEW p \in DOMAIN at
  PROVE  Tracked(at, E, p, Place(h, at[p], ""))
<1>1. Place(h, at[p], "").heap = h /\ Place(h, at[p], "").at = at[p]
  BY DEF Place
<1>2. at[p] \in DOMAIN h /\ Extends(at, at)
  BY DEF IsLatest, Extends
<1> QED
  BY <1>1, <1>2 DEF Tracked

LEMMA DescendTracked ==
  ASSUME IsTree(tables), NEW at, IsLatest(at, tables), NEW E, Counted(at, tables, E),
         NEW path \in Seq(STRING)
  PROVE  Tracked(at, E, path, Descend(tables, path))
<1>1. PICK walk : IsDescent(walk, path, Len(path)) /\ Descend(tables, path) = walk[Len(path)]
  BY DescendWalk
<1> DEFINE begin == <<>>
<1>2. begin \in Seq(STRING) /\ begin \in DOMAIN at /\ at[begin] = Root
  BY DEF IsLatest
<1>3. begin \o path = path
  OBVIOUS
<1> HIDE DEF begin
<1>4. Tracked(at, E, begin, walk[0])
  <2>1. Tracked(at, E, begin, AtRoot)
    BY <1>2, StartTracked DEF AtRoot
  <2> QED
    BY <1>1, <2>1 DEF IsDescent
<1>5. ASSUME NEW n \in 1..Len(path), walk[n - 1].at \in DOMAIN walk[n - 1].heap
      PROVE  StepsTo(walk[n - 1], path[n], walk[n])
  <2>1. walk[n] = Into(walk[n - 1], path[n])
    BY <1>1 DEF IsDescent
  <2> QED
    BY <1>5, <2>1, IntoSteps
<1>6. Tracked(at, E, begin \o path, walk[Len(path)])
  BY <1>2, <1>4, <1>5, WalkTracked
<1> QED
  BY <1>1, <1>3, <1>6

LEMMA DottedTracked ==
  ASSUME IsTree(tables), NEW at, IsLatest(at, tables), NEW E, Counted(at, tables, E),
         NEW p \in DOMAIN at, at[p] = current, NEW path \in Seq(STRING)
  PROVE  Tracked(at, E, p \o path, Dotted(tables, current, path))
<1>1. PICK walk : IsRide(walk, path, Len(path)) /\ Dotted(tables, current, path) = walk[Len(path)]
  BY DottedWalk
<1>2. Tracked(at, E, p, walk[0])
  <2>1. Tracked(at, E, p, AtCurrent)
    BY StartTracked DEF AtCurrent
  <2> QED
    BY <1>1, <2>1 DEF IsRide
<1>3. ASSUME NEW n \in 1..Len(path), walk[n - 1].at \in DOMAIN walk[n - 1].heap
      PROVE  StepsTo(walk[n - 1], path[n], walk[n])
  <2>1. walk[n] = Under(walk[n - 1], path[n])
    BY <1>1 DEF IsRide
  <2> QED
    BY <1>3, <2>1, UnderSteps
<1>4. p \in Seq(STRING)
  BY DEF IsLatest
<1>5. Tracked(at, E, p \o path, walk[Len(path)])
  BY <1>2, <1>3, <1>4, WalkTracked
<1> QED
  BY <1>1, <1>5

-------------------------------------------------------------------------------
(* The text above a line: the header it is under and, for each name, the   *)
(* elements begun so far.                                                  *)
Begun(ls, n, prefix) ==
  {i \in 1..n :
    /\ ls[i].kind = "array" /\ ls[i].path = prefix
    /\ \A j \in i..n : ls[j].kind = "array" => ~Below(ls[j].path, prefix)}

HeadersIn(ls, n) == {i \in 1..n : ls[i].kind # "key"}

HeaderIn(ls, n) ==
  IF HeadersIn(ls, n) = {} THEN <<>> ELSE ls[Max(HeadersIn(ls, n))].path

Count(ls, n) == [prefix \in Seq(STRING) |-> Cardinality(Begun(ls, n, prefix))]

LEMMA TextOfLines ==
  /\ \A n : HeaderOf(n) = HeaderIn(lines, n)
  /\ \A n, prefix : Elements(n, prefix) = Cardinality(Begun(lines, n, prefix))
<1>1. \A n : HeaderOf(n) = HeaderIn(lines, n)
  BY DEF HeaderOf, HeaderIn, HeadersIn
<1>2. \A n, prefix : Elements(n, prefix) = Cardinality(Begun(lines, n, prefix))
  BY DEF Elements, Begun, Below
<1> QED
  BY <1>1, <1>2

LEMMA MaxOf ==
  ASSUME NEW n \in Nat, NEW S \in SUBSET (1..n), S # {}
  PROVE  Max(S) \in S /\ \A y \in S : Max(S) >= y
<1> DEFINE T == {n - x : x \in S}
<1>0. \A x \in S : x \in Nat /\ n - x \in Nat
  OBVIOUS
<1>1. T \in SUBSET Nat /\ T # {}
  BY <1>0
<1>2. PICK m \in T : \A t \in T : m <= t
  BY <1>1, LeastNumber
<1>3. PICK x \in S : m = n - x
  BY <1>2
<1>4. \A y \in S : x >= y
  <2> TAKE y \in S
  <2>1. n - x <= n - y
    BY <1>2, <1>3
  <2>2. x \in Int /\ y \in Int
    OBVIOUS
  <2> QED
    BY <2>1, <2>2
<1> QED
  BY <1>4 DEF Max

SameUpTo(n, ls, ms) == n \in Nat /\ \A i \in 1..n : ms[i] = ls[i]

LEMMA SameText ==
  ASSUME NEW n, NEW ls, NEW ms, SameUpTo(n, ls, ms)
  PROVE  HeaderIn(ms, n) = HeaderIn(ls, n) /\ \A p : Begun(ms, n, p) = Begun(ls, n, p)
<1>1. n \in Nat /\ \A i \in 1..n : ms[i] = ls[i]
  BY DEF SameUpTo
<1>2. ASSUME NEW p PROVE Begun(ms, n, p) = Begun(ls, n, p)
  <2>1. ASSUME NEW i \in 1..n PROVE i \in Begun(ms, n, p) <=> i \in Begun(ls, n, p)
    <3>1. \A j \in i..n : ms[j] = ls[j]
      BY <1>1
    <3> QED
      BY <1>1, <3>1 DEF Begun
  <2>2. Begun(ms, n, p) \subseteq 1..n /\ Begun(ls, n, p) \subseteq 1..n
    BY DEF Begun
  <2> QED
    BY <2>1, <2>2
<1>3. HeadersIn(ms, n) = HeadersIn(ls, n)
  BY <1>1 DEF HeadersIn
<1>4. HeadersIn(ls, n) # {} => ms[Max(HeadersIn(ls, n))] = ls[Max(HeadersIn(ls, n))]
  <2>1. HeadersIn(ls, n) \in SUBSET (1..n)
    BY DEF HeadersIn
  <2> QED
    BY <1>1, <2>1, MaxOf
<1>5. HeaderIn(ms, n) = HeaderIn(ls, n)
  BY <1>3, <1>4 DEF HeaderIn
<1> QED
  BY <1>2, <1>5

LEMMA HeaderBelow ==
  ASSUME NEW n, NEW ls, NEW ms, SameUpTo(n, ls, ms)
  PROVE  HeaderIn(ms, n + 1) = IF ms[n + 1].kind = "key" THEN HeaderIn(ls, n) ELSE ms[n + 1].path
<1>1. n \in Nat
  BY DEF SameUpTo
<1>2. CASE ms[n + 1].kind = "key"
  <2>1. HeadersIn(ms, n + 1) = HeadersIn(ms, n)
    BY <1>1, <1>2 DEF HeadersIn
  <2>2. HeaderIn(ms, n + 1) = HeaderIn(ms, n)
    BY <2>1 DEF HeaderIn
  <2> QED
    BY <1>2, <2>2, SameText
<1>3. CASE ms[n + 1].kind # "key"
  <2> DEFINE S == HeadersIn(ms, n + 1)
  <2>1. n + 1 \in S /\ S \in SUBSET (1..(n + 1)) /\ n + 1 \in Nat
    BY <1>1, <1>3 DEF HeadersIn
  <2> HIDE DEF S
  <2>2. Max(S) \in S /\ Max(S) >= n + 1
    BY <2>1, MaxOf
  <2>3. Max(S) = n + 1
    <3>1. Max(S) \in 1..(n + 1)
      BY <2>1, <2>2
    <3> QED
      BY <1>1, <2>2, <3>1
  <2> QED
    BY <1>3, <2>1, <2>3 DEF HeaderIn, S
<1> QED
  BY <1>2, <1>3

LEMMA BegunFinite ==
  ASSUME NEW ls, NEW n \in Nat, NEW p
  PROVE  IsFiniteSet(Begun(ls, n, p)) /\ Cardinality(Begun(ls, n, p)) \in Nat
<1>1. Begun(ls, n, p) \in SUBSET (1..n)
  BY DEF Begun
<1>2. IsFiniteSet(1..n)
  BY FS_Interval
<1> QED
  BY <1>1, <1>2, FS_Subset, FS_CardinalityType

LEMMA CountSame ==
  ASSUME NEW n, NEW ls, NEW ms, SameUpTo(n, ls, ms), ms[n + 1].kind # "array"
  PROVE  Count(ms, n + 1) = Count(ls, n)
<1>1. n \in Nat
  BY DEF SameUpTo
<1>2. ASSUME NEW p PROVE Begun(ms, n + 1, p) = Begun(ms, n, p)
  <2>1. ASSUME NEW i \in 1..n PROVE i \in Begun(ms, n + 1, p) <=> i \in Begun(ms, n, p)
    <3>1. \A j \in i..(n + 1) : j \in i..n \/ j = n + 1
      BY <1>1
    <3>2. \A j \in i..n : j \in i..(n + 1)
      BY <1>1
    <3>3. i \in 1..(n + 1)
      BY <1>1
    <3> QED
      BY <3>1, <3>2, <3>3 DEF Begun
  <2>2. Begun(ms, n + 1, p) \subseteq 1..n
    <3>1. \A i \in 1..(n + 1) : i \in 1..n \/ i = n + 1
      BY <1>1
    <3> QED
      BY <3>1 DEF Begun
  <2>3. Begun(ms, n, p) \subseteq 1..n
    BY DEF Begun
  <2> QED
    BY <2>1, <2>2, <2>3
<1>3. \A p : Begun(ms, n + 1, p) = Begun(ls, n, p)
  BY <1>2, SameText
<1> QED
  BY <1>3 DEF Count

LEMMA CountMore ==
  ASSUME NEW n, NEW ls, NEW ms, SameUpTo(n, ls, ms), ms[n + 1].kind = "array",
         NEW P \in Seq(STRING), ms[n + 1].path = P
  PROVE  OneMore(Count(ls, n), P, Count(ms, n + 1))
<1>1. n \in Nat
  BY DEF SameUpTo
<1> SUFFICES ASSUME NEW r \in Seq(STRING)
             PROVE  Count(ms, n + 1)[r] =
                      IF r = P THEN 1 + Count(ls, n)[r]
                      ELSE IF Below(P, r) THEN 0 ELSE Count(ls, n)[r]
  BY DEF OneMore
<1>2. /\ Count(ms, n + 1)[r] = Cardinality(Begun(ms, n + 1, r))
      /\ Count(ls, n)[r] = Cardinality(Begun(ls, n, r))
  BY DEF Count
<1>3. Begun(ms, n, r) = Begun(ls, n, r)
  BY SameText
<1>4. /\ \A i \in 1..n : i \in 1..(n + 1) /\ n + 1 \in i..(n + 1)
      /\ \A i \in 1..n : \A j \in i..(n + 1) : j \in i..n \/ j = n + 1
      /\ \A i \in 1..n : \A j \in i..n : j \in i..(n + 1)
      /\ \A i \in 1..(n + 1) : i \in 1..n \/ i = n + 1
      /\ n + 1 \in 1..(n + 1) /\ n + 1 \notin 1..n
      /\ \A j \in (n + 1)..(n + 1) : j = n + 1
      /\ n + 1 \in (n + 1)..(n + 1)
  BY <1>1
<1>5. CASE ~Below(P, r)
  <2>1. ASSUME NEW i \in 1..n PROVE i \in Begun(ms, n + 1, r) <=> i \in Begun(ms, n, r)
    BY <1>4, <1>5 DEF Begun
  <2>2. n + 1 \in Begun(ms, n + 1, r) <=> r = P
    BY <1>4, <1>5 DEF Begun
  <2>3. Begun(ms, n + 1, r) \subseteq 1..(n + 1) /\ Begun(ms, n, r) \subseteq 1..n
    BY DEF Begun
  <2>4. CASE r = P
    <3>1. Begun(ms, n + 1, r) = Begun(ls, n, r) \union {n + 1} /\ n + 1 \notin Begun(ls, n, r)
      BY <1>3, <1>4, <2>1, <2>2, <2>3, <2>4
    <3>2. IsFiniteSet(Begun(ls, n, r)) /\ Cardinality(Begun(ls, n, r)) \in Nat
      BY <1>1, BegunFinite
    <3>3. Cardinality(Begun(ms, n + 1, r)) = Cardinality(Begun(ls, n, r)) + 1
      <4> DEFINE B == Begun(ls, n, r)
                 x == n + 1
      <4>1. IsFiniteSet(B) /\ x \notin B /\ Begun(ms, n + 1, r) = B \union {x}
        BY <3>1, <3>2
      <4> HIDE DEF B, x
      <4>2. Cardinality(B \union {x}) = Cardinality(B) + 1
        BY <4>1, FS_AddElement
      <4> QED
        BY <4>1, <4>2 DEF B
    <3> QED
      BY <1>2, <2>4, <3>2, <3>3
  <2>5. CASE r # P
    <3>1. Begun(ms, n + 1, r) \subseteq 1..n
      BY <1>4, <2>2, <2>3, <2>5
    <3>2. Begun(ms, n + 1, r) = Begun(ms, n, r)
      BY <2>1, <2>3, <3>1
    <3>3. Begun(ms, n + 1, r) = Begun(ls, n, r)
      BY <1>3, <3>2
    <3> QED
      BY <1>2, <1>5, <2>5, <3>3
  <2> QED
    BY <2>4, <2>5
<1>6. CASE Below(P, r)
  <2>1. r # P
    BY <1>6 DEF Below, IsStrictPrefix
  <2>2. Begun(ms, n + 1, r) = {}
    BY <1>4, <1>6, <2>1 DEF Begun
  <2>3. Cardinality({}) = 0
    BY FS_EmptySet
  <2> QED
    BY <1>2, <1>6, <2>1, <2>2, <2>3
<1> QED
  BY <1>5, <1>6

-------------------------------------------------------------------------------
(* Addresses.  A route follows the parts of an address from the root.      *)
StepIn(h, ids, part) ==
  {child \in DOMAIN h : \E id \in ids :
     /\ part[1] \in DOMAIN h[id]
     /\ LET entry == h[id][part[1]]
        IN \/ entry.kind = "table" /\ entry.id = child
           \/ /\ entry.kind = "array" /\ part[2] \in DOMAIN entry.elems
              /\ entry.elems[part[2]] = child}

LEMMA StepInside ==
  ASSUME NEW h, NEW ids, NEW part
  PROVE  StepIn(h, ids, part) \subseteq DOMAIN h
BY DEF StepIn

LEMMA StepsInto ==
  ASSUME NEW h, NEW ids, NEW part, NEW id \in ids, NEW child \in DOMAIN h, part[1] \in DOMAIN h[id],
         NEW entry, entry = h[id][part[1]],
         \/ entry.kind = "table" /\ entry.id = child
         \/ entry.kind = "array" /\ part[2] \in DOMAIN entry.elems /\ entry.elems[part[2]] = child
  PROVE  child \in StepIn(h, ids, part)
BY DEF StepIn

ReachIn(h, address) ==
  LET walk[n \in 0..Len(address)] ==
        IF n = 0 THEN {Root} ELSE StepIn(h, walk[n - 1], address[n])
  IN walk[Len(address)]

IsRoute(w, h, address, m) ==
  /\ IsFunctionOn(w, 0..m) /\ w[0] = {Root}
  /\ \A n \in 1..m : w[n] = StepIn(h, w[n - 1], address[n])

LEMMA RouteExists ==
  ASSUME NEW h, Root \in DOMAIN h, NEW address, NEW m \in Nat
  PROVE  \E w : IsRoute(w, h, address, m)
<1> DEFINE X == SUBSET DOMAIN h
           step == [x \in (1..m) \X X |-> StepIn(h, x[2], address[x[1]])]
           start == {Root}
<1>1. start \in X
  BY SMTT(30), ZenonT(30)
<1>2. step \in [(1..m) \X X -> X]
  BY DEF StepIn
<1>3. \A i \in 1..m, ids \in X : step[<<i, ids>>] = StepIn(h, ids, address[i])
  OBVIOUS
<1> HIDE DEF step, X, start
<1>4. PICK w \in [0..m -> X] : Unfolds(w, m, start, step)
  BY <1>1, <1>2, Recursion
<1>5. ASSUME NEW n \in 1..m PROVE w[n] = StepIn(h, w[n - 1], address[n])
  <2>1. w[n - 1] \in X
    <3>1. n - 1 \in 0..m
      OBVIOUS
    <3> QED
      BY <1>4, <3>1
  <2> QED
    BY <1>3, <1>4, <2>1 DEF Unfolds
<1>6. IsFunctionOn(w, 0..m) /\ w[0] = {Root}
  BY <1>4 DEF IsFunctionOn, Unfolds, start
<1> QED
  BY <1>5, <1>6 DEF IsRoute

LEMMA ReachIsRoute ==
  ASSUME NEW h, Root \in DOMAIN h, NEW address, Len(address) \in Nat
  PROVE  \E w : IsRoute(w, h, address, Len(address)) /\ ReachIn(h, address) = w[Len(address)]
<1> DEFINE m == Len(address)
           Def(w) == [n \in 0..Len(address) |->
                       IF n = 0 THEN {Root} ELSE StepIn(h, w[n - 1], address[n])]
<1>1. PICK w : IsRoute(w, h, address, m)
  BY RouteExists
<1>2. IsFunctionOn(Def(w), 0..m)
  BY DEF IsFunctionOn
<1>3. ASSUME NEW n \in 0..m PROVE w[n] = Def(w)[n]
  <2>1. CASE n = 0
    BY <1>1, <2>1 DEF IsRoute
  <2>2. CASE n # 0
    BY <1>1, <2>2 DEF IsRoute
  <2> QED
    BY <2>1, <2>2
<1>4. w = Def(w)
  <2> HIDE DEF Def
  <2> QED
    BY <1>1, <1>2, <1>3, SameFunction DEF IsRoute
<1> DEFINE walk == CHOOSE u : u = Def(u)
<1>5. ReachIn(h, address) = walk[Len(address)]
  BY DEF ReachIn
<1>6. walk = Def(walk)
  <2> HIDE DEF Def
  <2> QED
    BY <1>4
<1> HIDE DEF walk
<1>7. IsFunctionOn(walk, 0..m)
  <2>1. IsFunctionOn(Def(walk), 0..m)
    BY DEF IsFunctionOn
  <2> HIDE DEF Def
  <2> QED
    BY <1>6, <2>1
<1>8. ASSUME NEW n \in 0..m
      PROVE  walk[n] = IF n = 0 THEN {Root} ELSE StepIn(h, walk[n - 1], address[n])
  <2>1. Def(walk)[n] = IF n = 0 THEN {Root} ELSE StepIn(h, walk[n - 1], address[n])
    OBVIOUS
  <2> HIDE DEF Def
  <2> QED
    BY <1>6, <2>1
<1>9. IsRoute(walk, h, address, m)
  <2>1. walk[0] = {Root}
    BY <1>8
  <2>2. ASSUME NEW n \in 1..m PROVE walk[n] = StepIn(h, walk[n - 1], address[n])
    BY <1>8
  <2> QED
    BY <1>7, <2>1, <2>2 DEF IsRoute
<1> QED
  BY <1>5, <1>9

LEMMA PrefixKeeps ==
  ASSUME NEW s \in Seq(Nat), NEW t \in Seq(Nat), IsPrefix(s, t), NEW i \in DOMAIN s
  PROVE  i \in DOMAIN t /\ t[i] = s[i]
<1>1. Len(s) \in Nat /\ Len(t) \in Nat /\ Len(s) <= Len(t) /\ i \in 1..Len(s)
  BY DEF IsPrefix
<1>2. SubSeq(s, 1, Len(s)) = SubSeq(t, 1, Len(s))
  BY DEF IsPrefix
<1>3. SubSeq(s, 1, Len(s))[i] = s[i] /\ SubSeq(t, 1, Len(s))[i] = t[i]
  BY <1>1
<1> QED
  BY <1>1, <1>2, <1>3

(* What can be reached stays where it is. *)
LEMMA ReachKept ==
  ASSUME NEW h \in Heaps, NEW h2 \in Heaps, DOMAIN h \subseteq DOMAIN h2, KeptIn(h, h2),
         NEW address, Len(address) \in Nat
  PROVE  ReachIn(h, address) \subseteq ReachIn(h2, address) /\ ReachIn(h, address) \subseteq DOMAIN h
<1> DEFINE m == Len(address)
<1>0. Root \in DOMAIN h /\ Root \in DOMAIN h2
  BY HeapFacts
<1>1. PICK w : IsRoute(w, h, address, m) /\ ReachIn(h, address) = w[m]
  BY <1>0, ReachIsRoute
<1>2. PICK v : IsRoute(v, h2, address, m) /\ ReachIn(h2, address) = v[m]
  BY <1>0, ReachIsRoute
<1> DEFINE S == {n \in Nat : n <= m => w[n] \subseteq v[n] /\ w[n] \subseteq DOMAIN h}
<1>3. 0 \in S
  BY <1>0, <1>1, <1>2 DEF IsRoute
<1>4. ASSUME NEW n \in Nat, n \in S PROVE n + 1 \in S
  <2> SUFFICES ASSUME n + 1 <= m PROVE w[n + 1] \subseteq v[n + 1] /\ w[n + 1] \subseteq DOMAIN h
    OBVIOUS
  <2>1. w[n] \subseteq v[n] /\ w[n] \subseteq DOMAIN h
    BY <1>4
  <2>2. n + 1 \in 1..m /\ (n + 1) - 1 = n
    OBVIOUS
  <2>3. /\ w[n + 1] = StepIn(h, w[n], address[n + 1])
        /\ v[n + 1] = StepIn(h2, v[n], address[n + 1])
    BY <1>1, <1>2, <2>2 DEF IsRoute
  <2> DEFINE part == address[n + 1]
  <2>4. w[n + 1] \subseteq DOMAIN h
    <3>1. StepIn(h, w[n], address[n + 1]) \subseteq DOMAIN h
      BY StepInside
    <3> QED
      BY <2>3, <3>1
  <2>5. ASSUME NEW c \in w[n + 1] PROVE c \in v[n + 1]
    <3>1. PICK id \in w[n] :
            /\ part[1] \in DOMAIN h[id]
            /\ \/ h[id][part[1]].kind = "table" /\ h[id][part[1]].id = c
               \/ /\ h[id][part[1]].kind = "array" /\ part[2] \in DOMAIN h[id][part[1]].elems
                  /\ h[id][part[1]].elems[part[2]] = c
      BY <2>3, <2>5 DEF StepIn
    <3>2. id \in DOMAIN h /\ id \in v[n] /\ c \in DOMAIN h2
      BY <2>1, <2>4
    <3>3. part[1] \in DOMAIN h2[id] /\ Keeps(h[id][part[1]], h2[id][part[1]])
      BY <3>1, <3>2 DEF KeptIn
    <3> DEFINE old == h[id][part[1]]
               new == h2[id][part[1]]
    <3>4. old \in Entries /\ new \in Entries
      BY <3>1, <3>2, <3>3, HeapFacts
    <3>5. \/ new.kind = "table" /\ new.id = c
          \/ new.kind = "array" /\ part[2] \in DOMAIN new.elems /\ new.elems[part[2]] = c
      <4> HIDE DEF part
      <4>1. CASE new = old
        BY <3>1, <4>1
      <4>2. CASE /\ old.kind = "array" /\ new.kind = "array"
                 /\ IsPrefix(old.elems, new.elems)
        <5>1. part[2] \in DOMAIN old.elems /\ old.elems[part[2]] = c
          BY <3>1, <4>2
        <5>2. old.elems \in Seq(Nat) /\ new.elems \in Seq(Nat)
          BY <3>4, <4>2, EntryKinds
        <5> HIDE DEF old, new
        <5>3. part[2] \in DOMAIN new.elems /\ new.elems[part[2]] = c
          BY <4>2, <5>1, <5>2, PrefixKeeps, SMTT(30), ZenonT(30)
        <5> QED
          BY <4>2, <5>3
      <4> QED
        BY <3>3, <4>1, <4>2 DEF Keeps
    <3> QED
      <4> HIDE DEF part, new
      <4>1. c \in StepIn(h2, v[n], part)
        BY <3>2, <3>3, <3>5, StepsInto, SMTT(30), ZenonT(30) DEF new
      <4> QED
        BY <2>3, <4>1 DEF part
  <2> QED
    BY <2>4, <2>5
<1> HIDE DEF S
<1>5. Nat \subseteq S
  BY <1>3, <1>4, Induction
<1>6. w[m] \subseteq v[m] /\ w[m] \subseteq DOMAIN h
  BY <1>5 DEF S
<1> QED
  BY <1>1, <1>2, <1>6

(* The address of a name, by what has been counted.                        *)
PartsOf(E, q) == [i \in 1..Len(q) |-> <<q[i], E[SubSeq(q, 1, i)]>>]

LEMMA PartsFacts ==
  ASSUME NEW E, NEW q \in Seq(STRING)
  PROVE  /\ Len(PartsOf(E, q)) = Len(q) /\ Len(q) \in Nat
         /\ \A i \in 1..Len(q) : PartsOf(E, q)[i] = <<q[i], E[SubSeq(q, 1, i)]>>
<1> DEFINE S == {<<q[i], E[SubSeq(q, 1, i)]>> : i \in 1..Len(q)}
           f == PartsOf(E, q)
           m == Len(q)
<1>1. m \in Nat
  OBVIOUS
<1>2. \A i \in 1..m : f[i] = <<q[i], E[SubSeq(q, 1, i)]>>
  BY DEF PartsOf
<1>3. f \in [1..m -> S]
  BY DEF PartsOf
<1> HIDE DEF S, f, m
<1>4. f \in Seq(S)
  BY <1>1, <1>3, SeqDef
<1>5. Len(f) = m
  BY <1>1, <1>3, <1>4
<1> QED
  BY <1>1, <1>2, <1>5 DEF f, m

LEMMA PrefixStep ==
  ASSUME NEW q \in Seq(STRING), NEW m \in Nat, m + 1 <= Len(q)
  PROVE  /\ SubSeq(q, 1, m + 1) = Append(SubSeq(q, 1, m), q[m + 1])
         /\ SubSeq(q, 1, m) \in Seq(STRING) /\ q[m + 1] \in STRING
<1>0. Len(q) \in Nat
  OBVIOUS
<1>1. SubSeq(q, 1, m + 1) = Append(SubSeq(q, 1, m), q[m + 1])
  BY <1>0
<1>2. SubSeq(q, 1, m) \in Seq(STRING) /\ q[m + 1] \in STRING
  BY <1>0
<1> QED
  BY <1>1, <1>2

LEMMA PrefixNamed ==
  ASSUME NEW h, NEW at, IsLatest(at, h), NEW q \in DOMAIN at, NEW m \in 0..Len(q)
  PROVE  SubSeq(q, 1, m) \in DOMAIN at
<1>1. q \in Seq(STRING) /\ Len(q) \in Nat
  BY DEF IsLatest
<1> DEFINE len == Len(q)
           S == {d \in Nat : d <= len => SubSeq(q, 1, len - d) \in DOMAIN at}
<1>2. 0 \in S
  <2>1. SubSeq(q, 1, len) = q /\ len - 0 = len
    BY <1>1
  <2> QED
    BY <2>1
<1>3. ASSUME NEW d \in Nat, d \in S PROVE d + 1 \in S
  <2> SUFFICES ASSUME d + 1 <= len PROVE SubSeq(q, 1, len - (d + 1)) \in DOMAIN at
    OBVIOUS
  <2>1. PICK n \in Nat : n = len - (d + 1)
    <3>1. len \in Nat /\ d \in Nat /\ d + 1 <= len
      BY <1>1
    <3> HIDE DEF len, S
    <3>2. len - (d + 1) \in Nat
      BY <3>1
    <3> QED
      BY <3>2
  <2>2. n + 1 = len - d /\ n + 1 <= len /\ d <= len
    BY <1>1, <2>1
  <2>3. SubSeq(q, 1, n + 1) \in DOMAIN at
    BY <1>3, <2>2
  <2>4. /\ SubSeq(q, 1, n + 1) = Append(SubSeq(q, 1, n), q[n + 1])
        /\ SubSeq(q, 1, n) \in Seq(STRING) /\ q[n + 1] \in STRING
    BY <1>1, <2>2, PrefixStep
  <2> DEFINE r == SubSeq(q, 1, n)
             k == q[n + 1]
  <2>5. r \in Seq(STRING) /\ k \in STRING /\ Append(r, k) \in DOMAIN at
    BY <2>3, <2>4
  <2> HIDE DEF r, k
  <2>6. r \in DOMAIN at
    BY <2>5 DEF IsLatest
  <2> QED
    BY <2>1, <2>6 DEF r
<1> HIDE DEF S
<1>4. Nat \subseteq S
  BY <1>2, <1>3, Induction
<1>5. PICK d \in Nat : d = len - m
  BY <1>1
<1>6. d <= len /\ len - d = m /\ d \in S
  BY <1>1, <1>4, <1>5
<1> QED
  BY <1>6 DEF S

LEMMA NewestStep ==
  ASSUME NEW h, IsTree(h), NEW at, IsLatest(at, h), NEW E, Counted(at, h, E),
         NEW q \in Seq(STRING), NEW k \in STRING, Append(q, k) \in DOMAIN at,
         NEW ids, at[q] \in ids
  PROVE  at[Append(q, k)] \in StepIn(h, ids, <<k, E[Append(q, k)]>>)
<1> DEFINE P == Append(q, k)
           c == at[P]
           id == at[q]
           e == h[id][k]
<1>1. q \in DOMAIN at /\ Newest(h, id, k, c) /\ c \in DOMAIN h
  BY DEF IsLatest
<1>2. id \in DOMAIN h /\ k \in DOMAIN h[id] /\ Leads(e, c)
  BY <1>1 DEF Newest
<1>3. E[P] = Size(e)
  BY <1>1, <1>2 DEF Counted, Tally
<1>4. e \in Entries /\ Unmixed(e)
  BY <1>2, HeapFacts DEF IsTree
<1> HIDE DEF P, c, id, e
<1>5. CASE e.kind = "table" /\ e.id = c
  BY <1>1, <1>2, <1>5 DEF StepIn, P, c, id, e
<1>6. CASE /\ e.kind = "array" /\ e.elems # <<>>
           /\ Last(e.elems) # 0 /\ Last(e.elems) = c
  <2>1. e.elems \in Seq(Nat) /\ Len(e.elems) \in DOMAIN e.elems
    BY <1>4, <1>6, EntryKinds, EmptySeq
  <2>2. Last(e.elems) = e.elems[Len(e.elems)]
    BY DEF Last
  <2>3. 0 \notin ToSet(e.elems)
    BY <1>4, <1>6, <2>1, <2>2 DEF Unmixed, ToSet
  <2>4. E[P] = Len(e.elems)
    BY <1>3, <1>6, <2>3 DEF Size
  <2>5. E[P] \in DOMAIN e.elems /\ e.elems[E[P]] = c
    BY <1>6, <2>1, <2>2, <2>4
  <2> QED
    BY <1>1, <1>2, <1>6, <2>5 DEF StepIn, P, c, id, e
<1> QED
  BY <1>2, <1>5, <1>6 DEF Leads

(* The latest table of a name is at the address of the name.               *)
LEMMA LatestReached ==
  ASSUME NEW h, IsTree(h), NEW at, IsLatest(at, h), NEW E, Counted(at, h, E),
         NEW q \in DOMAIN at
  PROVE  at[q] \in ReachIn(h, PartsOf(E, q))
<1>1. q \in Seq(STRING) /\ Len(q) \in Nat
  BY DEF IsLatest
<1> DEFINE len == Len(q)
           address == PartsOf(E, q)
<1>2. Len(address) = len /\ \A i \in 1..len : address[i] = <<q[i], E[SubSeq(q, 1, i)]>>
  BY <1>1, PartsFacts
<1>3. Root \in DOMAIN h
  BY HeapFacts DEF IsTree
<1> HIDE DEF address
<1>4. PICK w : IsRoute(w, h, address, len) /\ ReachIn(h, address) = w[len]
  BY <1>1, <1>2, <1>3, ReachIsRoute
<1> DEFINE S == {m \in Nat : m <= len => at[SubSeq(q, 1, m)] \in w[m]}
<1>5. 0 \in S
  <2>1. SubSeq(q, 1, 0) = <<>>
    BY <1>1
  <2>2. w[0] = {Root} /\ at[<<>>] = Root
    BY <1>4 DEF IsRoute, IsLatest
  <2> QED
    BY <2>1, <2>2
<1>6. ASSUME NEW m \in Nat, m \in S PROVE m + 1 \in S
  <2> SUFFICES ASSUME m + 1 <= len PROVE at[SubSeq(q, 1, m + 1)] \in w[m + 1]
    OBVIOUS
  <2>1. at[SubSeq(q, 1, m)] \in w[m]
    BY <1>1, <1>6
  <2>2. m + 1 \in 1..len /\ (m + 1) - 1 = m /\ m + 1 \in 0..len
    BY <1>1
  <2>3. /\ SubSeq(q, 1, m + 1) = Append(SubSeq(q, 1, m), q[m + 1])
        /\ SubSeq(q, 1, m) \in Seq(STRING) /\ q[m + 1] \in STRING
    BY <1>1, PrefixStep
  <2>4. SubSeq(q, 1, m + 1) \in DOMAIN at
    BY <2>2, PrefixNamed
  <2>5. w[m + 1] = StepIn(h, w[m], <<q[m + 1], E[SubSeq(q, 1, m + 1)]>>)
    BY <1>2, <1>4, <2>2 DEF IsRoute
  <2> DEFINE r == SubSeq(q, 1, m)
             k == q[m + 1]
             P == SubSeq(q, 1, m + 1)
             ids == w[m]
  <2>6. /\ r \in Seq(STRING) /\ k \in STRING /\ P = Append(r, k) /\ P \in DOMAIN at
        /\ at[r] \in ids
    BY <2>1, <2>3, <2>4
  <2> HIDE DEF r, k, P, ids
  <2>7. at[Append(r, k)] \in StepIn(h, ids, <<k, E[Append(r, k)]>>)
    BY <2>6, NewestStep
  <2>8. at[P] \in StepIn(h, ids, <<k, E[P]>>)
    BY <2>6, <2>7
  <2> QED
    BY <2>5, <2>8 DEF r, k, P, ids
<1> HIDE DEF S
<1>7. Nat \subseteq S
  BY <1>5, <1>6, Induction
<1>8. at[SubSeq(q, 1, len)] \in w[len]
  BY <1>1, <1>7 DEF S
<1>9. SubSeq(q, 1, len) = q
  BY <1>1
<1> QED
  BY <1>4, <1>8, <1>9 DEF address

LEMMA FrontParts ==
  ASSUME NEW E, NEW q \in Seq(STRING), NEW k \in STRING
  PROVE  Front(PartsOf(E, Append(q, k))) = PartsOf(E, q)
<1> DEFINE full == Append(q, k)
           f == PartsOf(E, full)
           g == PartsOf(E, q)
           m == Len(q)
           S == {f[i] : i \in 1..(m + 1)}
<1>1. full \in Seq(STRING) /\ Len(full) = m + 1 /\ m \in Nat
  BY AppendEach
<1>2. \A i \in 1..m : full[i] = q[i]
  BY AppendEach
<1>3. ASSUME NEW i \in 1..m PROVE SubSeq(full, 1, i) = SubSeq(q, 1, i)
  <2> HIDE DEF full, m
  <2>2. i \in Nat /\ i <= Len(q) /\ i <= Len(full) /\ 1 <= i
    BY <1>1 DEF m
  <2>3. \A j \in 1..i : full[j] = q[j] /\ q[j] \in STRING
    BY <1>1, <1>2, <2>2 DEF m
  <2>4. SubSeq(full, 1, i) = [j \in 1..i |-> full[j]]
    BY <1>1, <2>2
  <2>5. SubSeq(q, 1, i) = [j \in 1..i |-> q[j]]
    BY <2>2
  <2> QED
    BY <2>3, <2>4, <2>5
<1>4. Len(f) = m + 1 /\ \A i \in 1..(m + 1) : f[i] = <<full[i], E[SubSeq(full, 1, i)]>>
  BY <1>1, PartsFacts
<1>5. Len(g) = m /\ \A i \in 1..m : g[i] = <<q[i], E[SubSeq(q, 1, i)]>>
  BY PartsFacts
<1>6. f = [i \in 1..(m + 1) |-> <<full[i], E[SubSeq(full, 1, i)]>>]
  BY <1>1 DEF PartsOf
<1>7. g = [i \in 1..m |-> <<q[i], E[SubSeq(q, 1, i)]>>]
  BY DEF PartsOf
<1> HIDE DEF f, g, full, m
<1>8. ASSUME NEW i \in 1..m PROVE g[i] = f[i]
  <2>1. i \in 1..(m + 1)
    BY <1>1
  <2>2. full[i] = q[i] /\ SubSeq(full, 1, i) = SubSeq(q, 1, i)
    BY <1>2, <1>3
  <2> QED
    BY <1>4, <1>5, <2>1, <2>2
<1>9. f \in [1..(m + 1) -> S]
  BY <1>6, SMTT(30)
<1>10. g \in [1..m -> S]
  <2>1. \A i \in 1..m : g[i] \in S
    <3>1. 1..m \subseteq 1..(m + 1)
      BY <1>1
    <3> QED
      BY <1>8, <3>1
  <2> HIDE DEF S
  <2> QED
    BY <1>7, <2>1
<1> HIDE DEF S
<1>11. f \in Seq(S) /\ g \in Seq(S)
  BY <1>1, <1>9, <1>10, SeqDef
<1>12. Front(f) = SubSeq(f, 1, m)
  <2>1. Len(f) - 1 = m
    BY <1>1, <1>4
  <2> QED
    BY <2>1 DEF Front
<1>13. SubSeq(f, 1, m) = [i \in 1..m |-> f[i]]
  BY <1>1, <1>4, <1>11
<1>14. Front(f) = g
  BY <1>1, <1>8, <1>10, <1>12, <1>13
<1> QED
  BY <1>14 DEF f, g, full

LEMMA HeaderTyped ==
  ASSUME NEW ls \in Seq(Lines), NEW n \in 0..Len(ls)
  PROVE  HeaderIn(ls, n) \in Seq(STRING)
<1>1. CASE HeadersIn(ls, n) = {}
  BY <1>1 DEF HeaderIn
<1>2. CASE HeadersIn(ls, n) # {}
  <2>1. HeadersIn(ls, n) \in SUBSET (1..n) /\ n \in Nat
    BY DEF HeadersIn
  <2>2. Max(HeadersIn(ls, n)) \in 1..n
    BY <1>2, <2>1, MaxOf
  <2>3. ls[Max(HeadersIn(ls, n))] \in Lines
    BY <2>1, <2>2
  <2> QED
    BY <1>2, <2>3 DEF HeaderIn, Lines, Paths
<1> QED
  BY <1>1, <1>2

-------------------------------------------------------------------------------
(* Where the value of line n is, by the text above it.                     *)
Trail(ls, n) == HeaderIn(ls, n) \o Front(ls[n].path)

LandsIn(h, ls, n) ==
  LET leaf == Last(ls[n].path)
  IN \E id \in ReachIn(h, PartsOf(Count(ls, n), Trail(ls, n))) :
       leaf \in DOMAIN h[id] /\ h[id][leaf].kind # "table" /\ h[id][leaf].line = n

AllLand(h, ls) == \A n \in DOMAIN ls : ls[n].kind = "key" => LandsIn(h, ls, n)

(* The tree follows the text: every name has its latest table, every array *)
(* as many of them as the text has begun, and the last header is current.  *)
Followed(h, cur, ls) ==
  \E at : /\ IsLatest(at, h) /\ Counted(at, h, Count(ls, Len(ls)))
          /\ HeaderIn(ls, Len(ls)) \in DOMAIN at /\ at[HeaderIn(ls, Len(ls))] = cur

LandInv == refused = "" => Followed(tables, current, lines) /\ AllLand(tables, lines)

LEMMA OneKey ==
  ASSUME NEW S, NEW k \in S
  PROVE  <<k>> \in Seq(S)
OBVIOUS

LEMMA PathsAssociate ==
  ASSUME NEW s \in Seq(STRING), NEW t \in Seq(STRING), NEW u \in Seq(STRING)
  PROVE  (s \o t) \o u = s \o (t \o u)
BY ConcatAssociative, SMTT(30), ZenonT(30)

LEMMA TrailTyped ==
  ASSUME NEW ls \in Seq(Lines), NEW n \in DOMAIN ls
  PROVE  /\ Trail(ls, n) \in Seq(STRING) /\ Last(ls[n].path) \in STRING
         /\ HeaderIn(ls, n) \o ls[n].path = Append(Trail(ls, n), Last(ls[n].path))
<1>1. ls[n] \in Lines /\ n \in 0..Len(ls)
  OBVIOUS
<1> DEFINE header == HeaderIn(ls, n)
           path == ls[n].path
           front == Front(path)
           leaf == Last(path)
<1>2. header \in Seq(STRING) /\ path \in Paths
  BY <1>1, HeaderTyped DEF Lines
<1>3. front \in Seq(STRING) /\ leaf \in STRING /\ path = Append(front, leaf)
  BY <1>2, PathParts
<1> HIDE DEF header, path, front, leaf
<1>4. header \o front \in Seq(STRING)
  BY <1>2, <1>3
<1>5. header \o Append(front, leaf) = Append(header \o front, leaf)
  <2> DEFINE one == <<leaf>>
             both == header \o front
  <2>1. one \in Seq(STRING) /\ both \in Seq(STRING)
    <3>1. both \in Seq(STRING)
      BY <1>4
    <3>2. leaf \in STRING
      BY <1>3
    <3>3. one \in Seq(STRING)
      BY <3>2, OneKey
    <3> QED
      BY <3>1, <3>3
  <2>2. Append(front, leaf) = front \o one
    BY <1>3, AppendIsConcat
  <2>3. Append(both, leaf) = both \o one
    <3> HIDE DEF both
    <3> QED
      BY <1>3, <2>1, AppendIsConcat
  <2> HIDE DEF one
  <2>4. (header \o front) \o one = header \o (front \o one)
    BY <1>2, <1>3, <2>1, PathsAssociate
  <2> QED
    BY <2>2, <2>3, <2>4
<1> QED
  BY <1>3, <1>4, <1>5 DEF Trail, header, path, front, leaf

LEMMA LandsAtAddress ==
  ASSUME lines \in Seq(Lines), NEW n \in DOMAIN lines, LandsIn(tables, lines, n)
  PROVE  Lands(n)
<1> DEFINE full == HeaderIn(lines, n) \o lines[n].path
           E == Count(lines, n)
<1>0. /\ full = Append(Trail(lines, n), Last(lines[n].path))
      /\ Trail(lines, n) \in Seq(STRING) /\ Last(lines[n].path) \in STRING
  BY TrailTyped
<1>1. full \in Seq(STRING) /\ full = Append(Trail(lines, n), Last(lines[n].path))
      /\ Trail(lines, n) \in Seq(STRING) /\ Last(lines[n].path) \in STRING
  <2> DEFINE trail == Trail(lines, n)
             leaf == Last(lines[n].path)
  <2>1. full = Append(trail, leaf) /\ trail \in Seq(STRING) /\ leaf \in STRING
    BY <1>0
  <2> HIDE DEF full, trail, leaf
  <2>2. full \in Seq(STRING)
    BY <2>1, AppendEach
  <2> QED
    BY <2>1, <2>2 DEF trail, leaf
<1>2. Address(n) = [i \in DOMAIN full |-> <<full[i], Elements(n, SubSeq(full, 1, i))>>]
  BY TextOfLines DEF Address
<1>3. Front(Address(n)) = PartsOf(E, Trail(lines, n))
  <2> HIDE DEF full, E
  <2>1. DOMAIN full = 1..Len(full) /\ Len(full) \in Nat
    BY <1>1
  <2>2. ASSUME NEW i \in 1..Len(full) PROVE Elements(n, SubSeq(full, 1, i)) = E[SubSeq(full, 1, i)]
    <3>1. SubSeq(full, 1, i) \in Seq(STRING)
      BY <1>1, <2>1
    <3> QED
      BY <3>1, TextOfLines DEF Count, E
  <2>3. Address(n) = PartsOf(E, full)
    BY <1>2, <2>1, <2>2 DEF PartsOf
  <2> QED
    BY <1>1, <2>3, FrontParts
<1>4. \A address : Reached(address) = ReachIn(tables, address)
  BY DEF Reached, ReachIn, Step, StepIn
<1> QED
  BY <1>3, <1>4 DEF Lands, LandsIn

-------------------------------------------------------------------------------
(* A line is read *)

(* The text ms is ls and one more line. *)
OneLineMore(ls, line, ms) ==
  /\ Len(ms) = Len(ls) + 1 /\ Len(ls) \in Nat /\ ms[Len(ls) + 1] = line
  /\ ms \in Seq(Lines) /\ DOMAIN ms = DOMAIN ls \union {Len(ls) + 1}
  /\ SameUpTo(Len(ls), ls, ms)
  /\ \A n \in DOMAIN ls : ms[n] = ls[n] /\ SameUpTo(n, ls, ms)

LEMMA AppendedLine ==
  ASSUME NEW ls \in Seq(Lines), NEW line \in Lines, NEW ms, ms = Append(ls, line)
  PROVE  OneLineMore(ls, line, ms)
<1>1. /\ ms \in Seq(Lines) /\ Len(ms) = Len(ls) + 1 /\ Len(ls) \in Nat
      /\ ms[Len(ls) + 1] = line
  BY AppendProperties
<1>2. \A i \in 1..Len(ls) : ms[i] = ls[i]
  BY AppendProperties
<1>3. DOMAIN ls = 1..Len(ls) /\ DOMAIN ms = 1..(Len(ls) + 1)
  BY <1>1
<1>4. DOMAIN ms = DOMAIN ls \union {Len(ls) + 1}
  BY <1>1, <1>3
<1>5. SameUpTo(Len(ls), ls, ms)
  BY <1>1, <1>2 DEF SameUpTo
<1>6. ASSUME NEW n \in DOMAIN ls PROVE ms[n] = ls[n] /\ SameUpTo(n, ls, ms)
  <2>1. n \in Nat /\ \A i \in 1..n : i \in 1..Len(ls)
    BY <1>1, <1>3
  <2> QED
    BY <1>2, <1>3, <2>1 DEF SameUpTo
<1> QED
  BY <1>1, <1>4, <1>5, <1>6 DEF OneLineMore

(* The lines read before keep landing where they did. *)
LEMMA OldLinesStay ==
  ASSUME NEW h \in Heaps, NEW h2 \in Heaps, DOMAIN h \subseteq DOMAIN h2, KeptIn(h, h2),
         NEW ls \in Seq(Lines), NEW line \in Lines, NEW ms, OneLineMore(ls, line, ms),
         AllLand(h, ls), NEW n \in DOMAIN ls, ms[n].kind = "key"
  PROVE  LandsIn(h2, ms, n)
<1>1. ms[n] = ls[n] /\ SameUpTo(n, ls, ms)
  BY DEF OneLineMore
<1>2. LandsIn(h, ls, n)
  BY <1>1 DEF AllLand
<1> DEFINE leaf == Last(ls[n].path)
           address == PartsOf(Count(ls, n), Trail(ls, n))
<1>3. PICK id \in ReachIn(h, address) :
        leaf \in DOMAIN h[id] /\ h[id][leaf].kind # "table" /\ h[id][leaf].line = n
  BY <1>2 DEF LandsIn
<1>4. Trail(ms, n) = Trail(ls, n) /\ Count(ms, n) = Count(ls, n)
  <2>1. HeaderIn(ms, n) = HeaderIn(ls, n)
    BY <1>1, SameText
  <2>2. \A p : Begun(ms, n, p) = Begun(ls, n, p)
    BY <1>1, SameText
  <2>3. Trail(ms, n) = Trail(ls, n)
    BY <1>1, <2>1 DEF Trail
  <2>4. Count(ms, n) = Count(ls, n)
    BY <2>2, Zenon DEF Count
  <2> QED
    BY <2>3, <2>4
<1>5. Len(address) \in Nat
  BY TrailTyped, PartsFacts
<1> HIDE DEF address, leaf
<1>6. id \in ReachIn(h2, address) /\ id \in DOMAIN h
  BY <1>3, <1>5, ReachKept
<1>7. leaf \in DOMAIN h2[id] /\ Keeps(h[id][leaf], h2[id][leaf])
  BY <1>3, <1>6 DEF KeptIn
<1>8. h2[id][leaf].kind # "table" /\ h2[id][leaf].line = n
  BY <1>3, <1>7 DEF Keeps
<1> QED
  BY <1>1, <1>4, <1>6, <1>7, <1>8 DEF LandsIn, address, leaf

(* And so does the new line, if it sets a value. *)
LEMMA NextLineLands ==
  ASSUME NEW h \in Heaps, NEW h2 \in Heaps, DOMAIN h \subseteq DOMAIN h2, KeptIn(h, h2),
         NEW ls \in Seq(Lines), NEW line \in Lines, NEW ms, OneLineMore(ls, line, ms),
         AllLand(h, ls), line.kind # "key" \/ LandsIn(h2, ms, Len(ls) + 1)
  PROVE  AllLand(h2, ms)
<1> SUFFICES ASSUME NEW n \in DOMAIN ms, ms[n].kind = "key" PROVE LandsIn(h2, ms, n)
  BY DEF AllLand
<1>1. n \in DOMAIN ls \/ n = Len(ls) + 1
  BY DEF OneLineMore
<1>2. CASE n \in DOMAIN ls
  BY <1>2, OldLinesStay
<1>3. CASE n = Len(ls) + 1
  <2>1. ms[n] = line
    BY <1>3 DEF OneLineMore
  <2> QED
    BY <1>3, <2>1
<1> QED
  BY <1>1, <1>2, <1>3

LEMMA LineRead ==
  ASSUME TreeInv, NEW kind \in {"table", "array", "key"}, NEW path \in Paths, Read(kind, path)
  PROVE  /\ OneLineMore(lines, [kind |-> kind, path |-> path], lines')
         /\ [kind |-> kind, path |-> path] \in Lines
<1>1. [kind |-> kind, path |-> path] \in Lines
  BY DEF Lines
<1>2. lines \in Seq(Lines) /\ lines' = Append(lines, [kind |-> kind, path |-> path])
  BY DEF TreeInv, Read
<1> DEFINE line == [kind |-> kind, path |-> path]
<1>3. line \in Lines /\ lines' = Append(lines, line)
  BY <1>1, <1>2
<1> HIDE DEF line
<1>4. OneLineMore(lines, line, lines')
  BY <1>2, <1>3, AppendedLine
<1> QED
  BY <1>1, <1>4 DEF line

(* What is known of the tree and the text before a line. *)
Before(at, E, header) ==
  /\ IsTree(tables) /\ lines \in Seq(Lines) /\ AllLand(tables, lines)
  /\ IsLatest(at, tables) /\ Counted(at, tables, E)
  /\ E = Count(lines, Len(lines)) /\ header = HeaderIn(lines, Len(lines))
  /\ header \in DOMAIN at /\ at[header] = current

LEMMA BeforeLine ==
  ASSUME TreeInv, LandInv, refused = ""
  PROVE  \E at, E, header : Before(at, E, header)
BY DEF TreeInv, LandInv, Followed, Before

(* And after it. *)
LEMMA AfterLine ==
  ASSUME NEW at, NEW E, NEW header, Before(at, E, header), LineKeeps, IsTree(tables'),
         NEW line \in Lines, OneLineMore(lines, line, lines'),
         NEW more, IsLatest(more, tables'),
         Counted(more, tables', Count(lines', Len(lines) + 1)),
         HeaderIn(lines', Len(lines) + 1) \in DOMAIN more,
         more[HeaderIn(lines', Len(lines) + 1)] = current',
         line.kind # "key" \/ LandsIn(tables', lines', Len(lines) + 1)
  PROVE  LandInv'
<1>1. Len(lines') = Len(lines) + 1
  BY DEF OneLineMore
<1>2. Followed(tables', current', lines')
  BY <1>1 DEF Followed
<1>3. AllLand(tables', lines')
  <2>1. tables \in Heaps /\ tables' \in Heaps /\ lines \in Seq(Lines) /\ AllLand(tables, lines)
    BY DEF Before, IsTree
  <2>2. DOMAIN tables \subseteq DOMAIN tables' /\ KeptIn(tables, tables')
    BY DEF LineKeeps
  <2> QED
    BY <2>1, <2>2, NextLineLands
<1> QED
  BY <1>2, <1>3 DEF LandInv

LEMMA TableLands ==
  ASSUME TreeInv, LandInv, NEW path \in Paths, OpenTable(path), LineKeeps, IsTree(tables')
  PROVE  LandInv'
<1> SUFFICES ASSUME refused' = "" PROVE LandInv'
  BY DEF LandInv
<1> DEFINE line == [kind |-> "table", path |-> path]
           place == Descend(tables, path)
<1>1. OneLineMore(lines, line, lines') /\ line \in Lines
  BY LineRead DEF OpenTable
<1>2. line.kind = "table" /\ line.path = path
  OBVIOUS
<1>3. tables' = place.heap /\ current' = place.at /\ place.why = ""
  BY TableOpens
<1>4. PICK at, E, header : Before(at, E, header)
  BY BeforeLine DEF OpenTable, Reading
<1>5. Tracked(at, E, path, place)
  <2>1. path \in Seq(STRING)
    BY DEF Paths
  <2>2. IsTree(tables) /\ IsLatest(at, tables) /\ Counted(at, tables, E)
    BY <1>4 DEF Before
  <2> QED
    BY <2>1, <2>2, DescendTracked
<1> HIDE DEF line, place
<1>6. PICK more : /\ IsLatest(more, tables') /\ Counted(more, tables', E)
                  /\ path \in DOMAIN more /\ more[path] = current'
  BY <1>3, <1>5 DEF Tracked
<1>7. SameUpTo(Len(lines), lines, lines') /\ lines'[Len(lines) + 1] = line
  BY <1>1 DEF OneLineMore
<1>8. HeaderIn(lines', Len(lines) + 1) = path
  BY <1>2, <1>7, HeaderBelow
<1>9. Count(lines', Len(lines) + 1) = E
  <2>1. lines'[Len(lines) + 1].kind # "array"
    BY <1>2, <1>7
  <2>2. Count(lines', Len(lines) + 1) = Count(lines, Len(lines))
    BY <1>7, <2>1, CountSame
  <2> QED
    BY <1>4, <2>2 DEF Before
<1>10. line.kind # "key"
  BY <1>2
<1> QED
  BY <1>1, <1>4, <1>6, <1>8, <1>9, <1>10, AfterLine

LEMMA ArrayTableLands ==
  ASSUME TreeInv, LandInv, NEW path \in Paths, OpenArrayTable(path), LineKeeps, IsTree(tables')
  PROVE  LandInv'
<1> SUFFICES ASSUME refused' = "" PROVE LandInv'
  BY DEF LandInv
<1> DEFINE line == [kind |-> "array", path |-> path]
           front == Front(path)
           key == Last(path)
           parent == Descend(tables, front)
<1>1. OneLineMore(lines, line, lines') /\ line \in Lines
  BY LineRead DEF OpenArrayTable
<1>2. line.kind = "array" /\ line.path = path
  OBVIOUS
<1>3. /\ parent.why = "" /\ (Has(parent, key) => Extendable(Entry(parent, key)))
      /\ tables' = ExtendedHeap(parent, key) /\ current' = Len(parent.heap) + 1
  BY ArrayOpens
<1>4. PICK at, E, header : Before(at, E, header)
  BY BeforeLine DEF OpenArrayTable, Reading
<1>5. front \in Seq(STRING) /\ key \in STRING /\ path = Append(front, key)
  BY PathParts
<1>6. Tracked(at, E, front, parent)
  <2>1. IsTree(tables) /\ IsLatest(at, tables) /\ Counted(at, tables, E)
    BY <1>4 DEF Before
  <2> HIDE DEF front
  <2> QED
    BY <1>5, <2>1, DescendTracked
<1> HIDE DEF line, parent, front, key
<1>8. PICK mid : /\ IsLatest(mid, parent.heap) /\ Counted(mid, parent.heap, E)
                 /\ front \in DOMAIN mid /\ mid[front] = parent.at
  BY <1>3, <1>6 DEF Tracked
<1>9. SameUpTo(Len(lines), lines, lines') /\ lines'[Len(lines) + 1] = line
  BY <1>1 DEF OneLineMore
<1>10. HeaderIn(lines', Len(lines) + 1) = path
  BY <1>2, <1>9, HeaderBelow
<1> DEFINE E2 == Count(lines', Len(lines) + 1)
<1>11. OneMore(E, Append(front, key), E2)
  <2>1. path \in Seq(STRING) /\ lines'[Len(lines) + 1].kind = "array"
        /\ lines'[Len(lines) + 1].path = path
    BY <1>2, <1>9 DEF Paths
  <2>2. OneMore(Count(lines, Len(lines)), path, E2)
    BY <1>9, <2>1, CountMore
  <2> HIDE DEF E2
  <2>3. OneMore(E, path, E2)
    BY <1>4, <2>2 DEF Before
  <2> QED
    BY <1>5, <2>3
<1> HIDE DEF E2
<1>12. PICK more : /\ IsLatest(more, tables') /\ Counted(more, tables', E2)
                   /\ path \in DOMAIN more /\ more[path] = current'
  <2>1. IsTree(parent.heap)
    BY <1>6 DEF Tracked
  <2>2. /\ IsLatest(mid, parent.heap) /\ Counted(mid, parent.heap, E)
        /\ front \in DOMAIN mid /\ mid[front] = parent.at /\ key \in STRING
    BY <1>5, <1>8
  <2>3. Has(parent, key) => Extendable(Entry(parent, key))
    BY <1>3
  <2>4. IsExtended(parent, front, key, E2)
    BY <1>11, <2>1, <2>2, <2>3, ExtendedLatest
  <2> QED
    BY <1>3, <1>5, <2>4 DEF IsExtended
<1>13. line.kind # "key"
  BY <1>2
<1> QED
  BY <1>1, <1>4, <1>10, <1>12, <1>13, AfterLine DEF E2

LEMMA ValueLine ==
  ASSUME NEW v \in {"scalar", "empty", "filled"}, NEW line
  PROVE  ValueOf(v, line).kind # "table" /\ ValueOf(v, line).line = line
<1>1. CASE v = "scalar"
  BY <1>1 DEF ValueOf, Scalar
<1>2. CASE v = "empty"
  BY <1>2 DEF ValueOf, Array
<1>3. CASE v = "filled"
  BY <1>3 DEF ValueOf, Array
<1> QED
  BY <1>1, <1>2, <1>3

LEMMA NextNumber == \A i \in Nat : i + 1 \in Nat
OBVIOUS

LEMMA KeyLands ==
  ASSUME TreeInv, LandInv, NEW path \in Paths, NEW v \in {"scalar", "empty", "filled"},
         KeyValue(path, v), LineKeeps, IsTree(tables')
  PROVE  LandInv'
<1> SUFFICES ASSUME refused' = "" PROVE LandInv'
  BY DEF LandInv
<1> DEFINE line == [kind |-> "key", path |-> path]
           n == Len(lines) + 1
           front == Front(path)
           key == Last(path)
           place == Dotted(tables, current, front)
           value == ValueOf(v, n)
<1>1. OneLineMore(lines, line, lines') /\ line \in Lines
  BY LineRead DEF KeyValue
<1>2. line.kind = "key" /\ line.path = path
  OBVIOUS
<1>3. /\ place.why = "" /\ ~Has(place, key) /\ tables' = SetEntry(place, key, value)
      /\ current' = current
  BY KeyIsSet
<1>4. PICK at, E, header : Before(at, E, header)
  BY BeforeLine DEF KeyValue, Reading
<1>5. front \in Seq(STRING) /\ key \in STRING
  BY PathParts
<1>6. n \in Nat
  <2>1. Len(lines) \in Nat
    BY <1>1 DEF OneLineMore
  <2> QED
    BY <2>1, NextNumber
<1>7. /\ value \in Entries /\ (\A c : ~Leads(value, c)) /\ Size(value) = 0
      /\ value.kind # "table" /\ value.line = n
  <2> HIDE DEF n
  <2> QED
    BY <1>6, ValueFacts, ValueLeadsNowhere, ValueLine
<1>8. Tracked(at, E, header \o front, place)
  <2>1. /\ IsTree(tables) /\ IsLatest(at, tables) /\ Counted(at, tables, E)
        /\ header \in DOMAIN at /\ at[header] = current
    BY <1>4 DEF Before
  <2> HIDE DEF front
  <2> QED
    BY <1>5, <2>1, DottedTracked
<1> DEFINE trail == header \o front
<1> HIDE DEF line, place, front, key, value, n, trail
<1>9. PICK more : /\ IsLatest(more, place.heap) /\ Counted(more, place.heap, E)
                  /\ Extends(at, more) /\ trail \in DOMAIN more /\ more[trail] = place.at
  BY <1>3, <1>8 DEF Tracked, trail
<1>10. place.heap \in Heaps /\ place.at \in DOMAIN place.heap
  BY <1>8 DEF Tracked, IsTree
<1>11. IsPut(place.heap, place.at, key, value, tables')
  BY <1>3, <1>5, <1>7, <1>10, SetEntryIsPut, PutHeap
<1>12. IsLatest(more, tables') /\ Counted(more, tables', E)
  <2>1. key \notin DOMAIN place.heap[place.at]
    BY <1>3 DEF Has
  <2> QED
    BY <1>7, <1>9, <1>10, <1>11, <2>1, SetLatest
<1>13. SameUpTo(Len(lines), lines, lines') /\ lines'[n] = line
  BY <1>1 DEF OneLineMore, n
<1>14. HeaderIn(lines', n) = header
  <2>1. HeaderIn(lines', n) = HeaderIn(lines, Len(lines))
    BY <1>2, <1>13, HeaderBelow DEF n
  <2> QED
    BY <1>4, <2>1 DEF Before
<1>15. Count(lines', n) = E
  <2>1. lines'[n].kind # "array"
    BY <1>2, <1>13
  <2>2. Count(lines', n) = Count(lines, Len(lines))
    BY <1>13, <2>1, CountSame DEF n
  <2> QED
    BY <1>4, <2>2 DEF Before
<1>16. header \in DOMAIN more /\ more[header] = current'
  BY <1>3, <1>4, <1>9 DEF Before, Extends
<1>17. LandsIn(tables', lines', n)
  <2>1. place.at \in ReachIn(tables', PartsOf(E, trail))
    BY <1>9, <1>12, LatestReached
  <2>2. lines'[n].path = path
    BY <1>2, <1>13
  <2>3. Trail(lines', n) = trail /\ Last(lines'[n].path) = key
    BY <1>14, <2>2 DEF Trail, trail, front, key
  <2>4. key \in DOMAIN tables'[place.at] /\ tables'[place.at][key] = value
    BY <1>11 DEF IsPut
  <2> QED
    BY <1>7, <1>15, <2>1, <2>3, <2>4 DEF LandsIn
<1> QED
  BY <1>1, <1>4, <1>12, <1>14, <1>15, <1>16, <1>17, AfterLine DEF n

LEMMA LandInit == Init => LandInv
<1> SUFFICES ASSUME Init PROVE LandInv
  OBVIOUS
<1> DEFINE begin == <<>>
           at == [p \in {begin} |-> Root]
           E == Count(lines, 0)
<1>1. lines \in Seq(Lines) /\ Len(lines) = 0 /\ DOMAIN lines = {} /\ current = Root
  <2>1. lines = <<>> /\ current = Root
    BY DEF Init
  <2>2. <<>> \in Seq(Lines) /\ Len(<<>>) = 0 /\ DOMAIN <<>> = {}
    OBVIOUS
  <2> QED
    BY <2>1, <2>2
<1>2. IsTree(tables) /\ DOMAIN tables = {Root} /\ DOMAIN tables[Root] = {}
  <2>1. tables = <<NewTable>>
    BY DEF Init
  <2>2. DOMAIN NewTable = {}
    BY NewTableIsTable
  <2>3. DOMAIN <<NewTable>> = {1} /\ <<NewTable>>[1] = NewTable
    <3> HIDE DEF NewTable
    <3> QED
      OBVIOUS
  <2>4. IsTree(tables)
    BY TreeInit DEF TreeInv
  <2> QED
    BY <2>1, <2>2, <2>3, <2>4 DEF Root
<1>3. HeadersIn(lines, 0) = {} /\ \A p : Begun(lines, 0, p) = {}
  BY DEF HeadersIn, Begun
<1>4. HeaderIn(lines, 0) = begin
  BY <1>3 DEF HeaderIn
<1>5. \A p \in Seq(STRING) : E[p] = 0
  <2>1. Cardinality({}) = 0
    BY FS_EmptySet
  <2> QED
    BY <1>3, <2>1 DEF Count
<1>6. begin \in Seq(STRING)
  OBVIOUS
<1>7. \A p \in Seq(STRING), k \in STRING : Append(p, k) # begin /\ Append(p, k) \in Seq(STRING)
  BY AppendEach
<1> HIDE DEF begin
<1>8. DOMAIN at = {begin} /\ at[begin] = Root
  OBVIOUS
<1> HIDE DEF at, E
<1>9. \A k, c : ~Newest(tables, Root, k, c)
  BY <1>2 DEF Newest
<1>10. IsLatest(at, tables)
  BY <1>2, <1>6, <1>7, <1>8, <1>9 DEF IsLatest, begin
<1>11. Counted(at, tables, E)
  <2> SUFFICES ASSUME NEW p \in Seq(STRING), NEW k \in STRING
               PROVE  E[Append(p, k)] = Tally(tables, at, p, k)
    BY DEF Counted
  <2>1. E[Append(p, k)] = 0
    BY <1>5, <1>7
  <2>2. Tally(tables, at, p, k) = 0
    BY <1>2, <1>8 DEF Tally
  <2> QED
    BY <2>1, <2>2
<1>12. Followed(tables, current, lines)
  BY <1>1, <1>4, <1>8, <1>10, <1>11 DEF Followed, E
<1>13. AllLand(tables, lines)
  BY <1>1 DEF AllLand
<1> QED
  BY <1>12, <1>13 DEF LandInv

LEMMA LandNext ==
  ASSUME TreeInv, LandInv, [Next]_tomlVars
  PROVE  LandInv'
<1>1. LineKeeps /\ TreeInv'
  BY TreeNext
<1>2. IsTree(tables')
  BY <1>1 DEF TreeInv
<1>3. ASSUME NEW path \in TablePaths, OpenTable(path) PROVE LandInv'
  BY <1>1, <1>2, <1>3, TomlAssumption, TableLands
<1>4. ASSUME NEW path \in ArrayPaths, OpenArrayTable(path) PROVE LandInv'
  BY <1>1, <1>2, <1>4, TomlAssumption, ArrayTableLands
<1>5. ASSUME NEW kv \in KeyValues, KeyValue(kv[1], kv[2]) PROVE LandInv'
  <2>1. kv[1] \in Paths /\ kv[2] \in {"scalar", "empty", "filled"}
    BY TomlAssumption
  <2> QED
    BY <1>1, <1>2, <1>5, <2>1, KeyLands
<1>6. CASE UNCHANGED tomlVars
  BY <1>6 DEF tomlVars, LandInv
<1> QED
  BY <1>3, <1>4, <1>5, <1>6 DEF Next

(* Every value of a file that is accepted so far is where the file says it *)
(* belongs: below the header above it and its own dotted keys, and in the  *)
(* most recent element of each array on the way.  Parse keeps one table to *)
(* write to and finds arrays by their last element; no sequence of headers *)
(* and keys makes the two disagree with the text.                          *)
THEOREM ValuesLand == Spec => []LandsUnderItsHeader
<1>1. TreeInv /\ LandInv /\ [Next]_tomlVars => LandInv'
  BY LandNext
<1>2. TreeInv /\ LandInv => LandsUnderItsHeader
  <2> SUFFICES ASSUME TreeInv, LandInv, refused = "",
                      NEW n \in DOMAIN lines, lines[n].kind = "key"
               PROVE  Lands(n)
    BY DEF LandsUnderItsHeader
  <2>1. lines \in Seq(Lines) /\ LandsIn(tables, lines, n)
    BY DEF TreeInv, LandInv, AllLand
  <2> QED
    BY <2>1, LandsAtAddress
<1> QED
  BY <1>1, <1>2, LandInit, TreeInvariant, PTL DEF Spec

===============================================================================
