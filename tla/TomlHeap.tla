------------------------------- MODULE TomlHeap -------------------------------
(***************************************************************************)
(* The tree the TOML reader builds (internal/toml/toml.go), and what each  *)
(* kind of statement does to it:  [path]   [[path]]   path = value         *)
(*                                                                         *)
(* Go maps are references, so the tree is a heap: heap[id] is a function   *)
(* from keys to entries, and an entry refers to other tables by their id.  *)
(* TomlTree reads a file of statements with it; TomlScan asks it whether   *)
(* a statement that has been read clashes with those before.               *)
(***************************************************************************)
EXTENDS Integers, SequencesExt

Root == 1

(* Entries.  0 among the elements of an array is an element that is no     *)
(* table; `line` tells values apart by the line that set them.             *)
Scalar(line)       == [kind |-> "scalar", line |-> line]
Array(elems, line) == [kind |-> "array", elems |-> elems, line |-> line]
Table(id)          == [kind |-> "table", id |-> id]

ValueOf(v, line) ==
  CASE v = "scalar" -> Scalar(line)
    [] v = "empty"  -> Array(<<>>, line)
    [] v = "filled" -> Array(<<0>>, line)

NewTable == [k \in {} |-> k]

(* A tree, the table a walk has come to, and why it stopped there.         *)
Place(heap, at, why) == [heap |-> heap, at |-> at, why |-> why]

Entry(place, key) == place.heap[place.at][key]
Has(place, key)   == key \in DOMAIN place.heap[place.at]

SetEntry(place, key, entry) ==
  [place.heap EXCEPT ![place.at] =
     [k \in DOMAIN @ \union {key} |-> IF k = key THEN entry ELSE @[k]]]

(* Create a table under key, and go there. *)
Create(place, key) ==
  LET id == Len(place.heap) + 1
  IN Place(Append(SetEntry(place, key, Table(id)), NewTable), id, "")

(* Mutant: the first element of an array is entered. *)
IntoFirst(place, key) ==
  IF place.why # "" THEN place
  ELSE IF ~Has(place, key) THEN Create(place, key)
  ELSE LET entry == Entry(place, key) IN
       CASE entry.kind = "table" -> Place(place.heap, entry.id, "")
         [] entry.kind = "array" /\ entry.elems # <<>> /\ Head(entry.elems) # 0 ->
              Place(place.heap, Head(entry.elems), "")
         [] OTHER -> Place(place.heap, place.at, "not a table")

(* One step of descend: an array is entered at its most recent element.    *)
Into(place, key) ==
  IF place.why # "" THEN place
  ELSE IF ~Has(place, key) THEN Create(place, key)
  ELSE LET entry == Entry(place, key) IN
       CASE entry.kind = "table" -> Place(place.heap, entry.id, "")
         [] entry.kind = "array" /\ entry.elems # <<>> /\ Last(entry.elems) # 0 ->
              Place(place.heap, Last(entry.elems), "")
         [] OTHER -> Place(place.heap, place.at, "not a table")

Descend(heap, path) ==
  LET walk[n \in 0..Len(path)] ==
        IF n = 0 THEN Place(heap, Root, "") ELSE Into(walk[n - 1], path[n])
  IN walk[Len(path)]

(* One step along a dotted key: arrays are not entered. *)
Under(place, key) ==
  IF place.why # "" THEN place
  ELSE IF ~Has(place, key) THEN Create(place, key)
  ELSE IF Entry(place, key).kind = "table"
       THEN Place(place.heap, Entry(place, key).id, "")
       ELSE Place(place.heap, place.at, "not a table")

Dotted(heap, at, path) ==
  LET walk[n \in 0..Len(path)] ==
        IF n = 0 THEN Place(heap, at, "") ELSE Under(walk[n - 1], path[n])
  IN walk[Len(path)]

-------------------------------------------------------------------------------
(* Statements.  Each leads to a place: the tree it leaves and the table    *)
(* that is current then, or why it is refused. *)

(* [path] *)
TableOpened(heap, explicit, path) ==
  IF path \in explicit THEN Place(heap, Root, "defined twice") ELSE Descend(heap, path)

(* Mutant: any array will do. *)
ExtendableAny(entry) == entry.kind = "array"

(* Whether [[path]] may extend what its last key holds already. *)
Extendable(entry) ==
  entry.kind = "array" /\ (entry.elems # <<>> => Last(entry.elems) # 0)

(* A new table at the end of the array under name, which becomes current.  *)
Extend(parent, name) ==
  LET id  == Len(parent.heap) + 1
      old == IF Has(parent, name) THEN Entry(parent, name) ELSE Array(<<>>, 0)
  IN Place(Append(SetEntry(parent, name, Array(Append(old.elems, id), old.line)), NewTable),
           id, "")

(* [[path]] *)
ArrayExtended(heap, path) ==
  LET parent == Descend(heap, Front(path))
      name   == Last(path)
  IN IF parent.why # "" THEN parent
     ELSE IF Has(parent, name) /\ ~Extendable(Entry(parent, name))
     THEN Place(heap, Root, "cannot extend")
     ELSE Extend(parent, name)

(* Mutant: a key that is there already is set again. *)
KeySetAgain(heap, current, path, value) ==
  LET place == Dotted(heap, current, Front(path))
  IN IF place.why # "" THEN place
     ELSE Place(SetEntry(place, Last(path), value), current, "")

(* path = value *)
KeySet(heap, current, path, value) ==
  LET place == Dotted(heap, current, Front(path))
      leaf  == Last(path)
  IN IF place.why # "" THEN place
     ELSE IF Has(place, leaf) THEN Place(heap, current, "set twice")
     ELSE Place(SetEntry(place, leaf, value), current, "")

===============================================================================
