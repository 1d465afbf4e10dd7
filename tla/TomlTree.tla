------------------------------- MODULE TomlTree -------------------------------
(***************************************************************************)
(* How the TOML reader grows its tree (internal/toml/toml.go): the loop of *)
(* Parse, one action per line of the persona file.  Scanning is left out;  *)
(* a line is what the scanner makes of it,                                 *)
(*     [path]    [[path]]    path = value                                  *)
(* where a path is a sequence of keys (free of NUL bytes, with which the   *)
(* code joins them) and a value is a scalar, an empty array or an array of *)
(* scalars.  The tree and what a statement does to it are those of         *)
(* TomlHeap.                                                               *)
(***************************************************************************)
EXTENDS TomlHeap, FiniteSets

CONSTANTS
  TablePaths,   \* what [path] may name
  ArrayPaths,   \* what [[path]] may name
  KeyValues,    \* pairs <<path, "scalar" | "empty" | "filled">>
  MaxLines      \* bound: lines of the file

Paths == Seq(STRING) \ {<<>>}

ASSUME TomlAssumption ==
  /\ TablePaths \subseteq Paths /\ ArrayPaths \subseteq Paths
  /\ KeyValues \subseteq Paths \X {"scalar", "empty", "filled"}
  /\ MaxLines \in Nat

VARIABLES
  tables,    \* the tree: id -> key -> entry
  current,   \* id of the table that keys go to
  explicit,  \* paths of the [path] headers seen
  refused,   \* why the parser gave up, "" as long as it has not
  lines,     \* history: the lines read
  opened     \* history: ids of the tables opened by a [path] header

tomlVars == <<tables, current, explicit, refused, lines, opened>>

-------------------------------------------------------------------------------
Init ==
  /\ tables = <<NewTable>>
  /\ current = Root
  /\ explicit = {}
  /\ refused = ""
  /\ lines = <<>>
  /\ opened = <<>>

Reading == refused = "" /\ Len(lines) < MaxLines

Read(kind, path) == lines' = Append(lines, [kind |-> kind, path |-> path])

(* Parse returns an error: the tree is dropped. *)
GiveUp(why) ==
  /\ refused' = why
  /\ UNCHANGED <<tables, current, explicit, opened>>

(* [path] *)
OpenTable(path) ==
  /\ Reading /\ Read("table", path)
  /\ LET place == TableOpened(tables, explicit, path)
     IN \/ /\ place.why # ""
           /\ GiveUp(place.why)
        \/ /\ place.why = ""
           /\ tables' = place.heap
           /\ current' = place.at
           /\ opened' = Append(opened, place.at)
           /\ explicit' = explicit \union {path}
           /\ UNCHANGED refused

(* Mutant: the headers seen so far are forgotten. *)
OpenArrayTableForgetting(path) ==
  /\ Reading /\ Read("array", path)
  /\ LET place == ArrayExtended(tables, path)
     IN /\ place.why = ""
        /\ tables' = place.heap
        /\ current' = place.at
        /\ explicit' = {}
        /\ UNCHANGED <<refused, opened>>

(* [[path]] *)
OpenArrayTable(path) ==
  /\ Reading /\ Read("array", path)
  /\ LET place == ArrayExtended(tables, path)
     IN \/ /\ place.why # ""
           /\ GiveUp(place.why)
        \/ /\ place.why = ""
           /\ tables' = place.heap
           /\ current' = place.at
           /\ UNCHANGED <<explicit, refused, opened>>

(* path = value *)
KeyValue(path, v) ==
  /\ Reading /\ Read("key", path)
  /\ LET place == KeySet(tables, current, path, ValueOf(v, Len(lines) + 1))
     IN \/ /\ place.why # ""
           /\ GiveUp(place.why)
        \/ /\ place.why = ""
           /\ tables' = place.heap
           /\ UNCHANGED <<current, explicit, refused, opened>>

Next ==
  \/ \E path \in TablePaths : OpenTable(path)
  \/ \E path \in ArrayPaths : OpenArrayTable(path)
  \/ \E kv \in KeyValues : KeyValue(kv[1], kv[2])

Spec == Init /\ [][Next]_tomlVars

-------------------------------------------------------------------------------
(* Properties *)

(* The tables the entry refers to. *)
Children(entry) ==
  CASE entry.kind = "table"  -> {entry.id}
    [] entry.kind = "array"  -> ToSet(entry.elems) \ {0}
    [] entry.kind = "scalar" -> {}

(* The places from which a table is referred to: its parent and the key.   *)
Parents(id) ==
  {at \in {<<t, k>> : t \in DOMAIN tables, k \in UNION {DOMAIN tables[u] : u \in DOMAIN tables}} :
     at[2] \in DOMAIN tables[at[1]] /\ id \in Children(tables[at[1]][at[2]])}

(* Type invariant: the heap is a tree below the root.  Every other table   *)
(* hangs in one place, below an older one: none is shared by two elements, *)
(* none is cut off, and an array never mixes tables and values.            *)
TreeTypeOK ==
  /\ current \in DOMAIN tables
  /\ Parents(Root) = {}
  /\ \A id \in DOMAIN tables \ {Root} :
        /\ Cardinality(Parents(id)) = 1
        /\ \A at \in Parents(id) : at[1] < id
  /\ \A id \in DOMAIN tables : \A k \in DOMAIN tables[id] :
        tables[id][k].kind = "array" =>
          \/ 0 \notin ToSet(tables[id][k].elems)
          \/ ToSet(tables[id][k].elems) = {0}

(* The entry new still holds what old held. *)
Keeps(old, new) ==
  \/ new = old
  \/ /\ old.kind = "array" /\ new.kind = "array" /\ new.line = old.line
     /\ IsPrefix(old.elems, new.elems)
     /\ \A i \in DOMAIN new.elems \ DOMAIN old.elems : new.elems[i] # 0

(* Nothing a line has set is changed by a later one: keys stay, values     *)
(* stay, and an array only gets new tables at its end.                     *)
NothingOverwritten ==
  [][\A id \in DOMAIN tables : \A k \in DOMAIN tables[id] :
       /\ id \in DOMAIN tables' /\ k \in DOMAIN tables'[id]
       /\ Keeps(tables[id][k], tables'[id][k])]_tomlVars

(* What TOML says about where line n belongs, from the text alone: the     *)
(* path of the header above it and its own, and at each prefix that names  *)
(* an array the number of elements begun so far.                           *)
HeaderOf(n) ==
  LET above == {i \in 1..n : lines[i].kind # "key"}
  IN IF above = {} THEN <<>> ELSE lines[Max(above)].path

Elements(n, prefix) ==
  Cardinality({i \in 1..n :
    /\ lines[i].kind = "array" /\ lines[i].path = prefix
    /\ \A j \in i..n : lines[j].kind = "array" => ~IsStrictPrefix(lines[j].path, prefix)})

Address(n) ==
  LET path == HeaderOf(n) \o lines[n].path
  IN [i \in DOMAIN path |-> <<path[i], Elements(n, SubSeq(path, 1, i))>>]

(* The table one step further along an address, if there is one. *)
Step(ids, part) ==
  {child \in DOMAIN tables : \E id \in ids :
     /\ part[1] \in DOMAIN tables[id]
     /\ LET entry == tables[id][part[1]]
        IN \/ entry.kind = "table" /\ entry.id = child
           \/ /\ entry.kind = "array" /\ part[2] \in DOMAIN entry.elems
              /\ entry.elems[part[2]] = child}

(* The table at the end of an address, if there is one. *)
Reached(address) ==
  LET walk[n \in 0..Len(address)] ==
        IF n = 0 THEN {Root} ELSE Step(walk[n - 1], address[n])
  IN walk[Len(address)]

(* The value line n set is at its address. *)
Lands(n) ==
  LET leaf == Last(lines[n].path)
  IN \E id \in Reached(Front(Address(n))) :
       /\ leaf \in DOMAIN tables[id] /\ tables[id][leaf].kind # "table"
       /\ tables[id][leaf].line = n

(* Every value ends up where the file says it belongs: below the header    *)
(* above it, in the most recent element of each array on the way, however  *)
(* headers, dotted keys and nested arrays are mixed.                       *)
LandsUnderItsHeader ==
  refused = "" =>
    \A n \in DOMAIN lines : lines[n].kind = "key" => Lands(n)

(* "rejecting redefinition": no table is opened by two [path] headers.     *)
NoTableReopened == IsInjective(opened)

(* The table a path names, where each array stands for its last element.   *)
Exists(path) == Len(Descend(tables, path).heap) = Len(tables)

(* Claimed by docs/persona-format.md: [personas.claims] is a table of "the *)
(* most recent [[personas]] entry".  So a header can be refused as defined *)
(* twice only if that entry has such a table already.                      *)
ClaimsForEveryPersona ==
  refused = "defined twice" => Exists(Last(lines).path)

===============================================================================
