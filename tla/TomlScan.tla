------------------------------- MODULE TomlScan --------------------------------
(***************************************************************************)
(* How the TOML reader reads text (internal/toml/toml.go): the loop of     *)
(* Parse and the functions under it, symbol by symbol, up to the statement *)
(* that goes into the tree of TomlHeap.  A function that calls itself or   *)
(* returns into its caller is a mode of one pushdown machine, which looks  *)
(* at one symbol in each step, as peek does, and may consume it.           *)
(*                                                                         *)
(* The text is written line by line by a writer who knows what each line   *)
(* says.  Symbols stand for classes of characters: "a" for the letters of  *)
(* keys and escapes, "1" for the digits, "e" for a character that is never *)
(* legal outside a string, "true" for the word, "u" for a whole \u escape. *)
(***************************************************************************)
EXTENDS Integers, FiniteSets, SequencesExt

CONSTANTS
  Lines,     \* [text, says]: what may be written, and what it says
  MaxLines   \* bound: lines written

(* A line is a sequence of symbols, whatever it says. *)
ASSUME ScanAssumption ==
  /\ \A l \in Lines : l.text \in Seq(STRING)
  /\ MaxLines \in Nat

Heap == INSTANCE TomlHeap

VARIABLES
  source,    \* what is written and not yet consumed
  closed,    \* no line will follow
  p,         \* the parser
  tree,      \* what it has built: the heap, the current table, the headers seen
  read,      \* the statements read so far
  written,   \* how many lines are written
  said,      \* history: the statements of those lines
  amiss,     \* history: whether one of them is at fault
  newlines,  \* history: how many newlines they have
  span       \* history: the lines of the statement that have been looked at

history  == <<written, said, amiss, newlines>>
scanVars == <<source, closed, p, tree, read, history, span>>

Statement(kind, path, value) == [kind |-> kind, path |-> path, value |-> value]

Nothing == Statement("", <<>>, <<>>)       \* said by a blank line or a comment
Faulty  == Statement("fault", <<>>, <<>>)  \* not TOML, or not the subset

Blank     == {"sp", "cr", "nl"}
BareChars == {"a", "1", "-", "true", "u"}
Digits    == {"1"}
Numeric   == Digits \union {"-", "."}

(* What an escape stands for. *)
Escapes == [a |-> "nl", dq |-> "dq", bs |-> "bs", u |-> "a"]

(* At the end of what is written the next symbol is not known, unless the  *)
(* file ends there. *)
Known == source # <<>> \/ closed
sym   == IF source = <<>> THEN "eof" ELSE Head(source)

-------------------------------------------------------------------------------
(* Steps: the fields that change.  Take consumes a symbol, Go does not.    *)

With(r, new) == [f \in DOMAIN r |-> IF f \in DOMAIN new THEN new[f] ELSE r[f]]

At(mode) == Known /\ p.mode = mode /\ ~p.comment

(* The line of the next symbol, counted from the text. *)
Here == 1 + newlines - Cardinality({i \in DOMAIN source : source[i] = "nl"})

LookAt ==
  /\ span' = IF p.mode = "statement" THEN <<Here, Here>> ELSE <<span[1], Here>>
  /\ UNCHANGED <<closed, tree, read, history>>

Go(new) ==
  /\ LookAt
  /\ p' = With(p, new)
  /\ UNCHANGED source

Take(new) ==
  /\ LookAt
  /\ source # <<>> /\ source' = Tail(source)
  /\ p' = With([p EXCEPT !.line = IF sym = "nl" THEN @ + 1 ELSE @], new)

To(mode) == [mode |-> mode]

Skip     == Take(To(p.mode))
Fail     == Go(To("error"))
Keep     == Take([buf |-> Append(p.buf, sym)])

(* A value is complete: it is the statement's, or the next of the array    *)
(* that is being read. *)
WithValue(v, open) ==
  IF open = <<>>
  THEN [mode |-> "lineEnd", stmt |-> [p.stmt EXCEPT !.value = v], open |-> open]
  ELSE [mode |-> "afterElement",
        open |-> [open EXCEPT ![Len(open)] = Append(@, v)]]

(* A part of the key is complete. *)
WithPart(part) ==
  [mode |-> "afterPart", stmt |-> [p.stmt EXCEPT !.path = Append(@, part)]]

(* A string is complete, wherever it stands. *)
WithString ==
  IF p.within = "key" THEN WithPart(p.buf) ELSE WithValue(<<"string", p.buf>>, p.open)

(* The array is complete. *)
WithArray == WithValue(<<"array", Last(p.open)>>, Front(p.open))

-------------------------------------------------------------------------------
(* skipBlank *)

SkipBlank ==
  \E mode \in {"statement", "element", "afterElement"} :
    /\ At(mode)
    /\ \/ sym \in Blank /\ Skip
       \/ sym = "#" /\ Take([comment |-> TRUE])

Comment ==
  /\ Known /\ p.comment
  /\ IF sym \in {"nl", "eof"} THEN Go([comment |-> FALSE]) ELSE Skip

(* Parse: what comes next *)
ParseStatement ==
  /\ At("statement") /\ sym \notin Blank \union {"#"}
  /\ CASE sym = "eof" -> Go(To("end"))
       [] sym = "["   -> Take([mode |-> "header", within |-> "key",
                               stmt |-> Statement("table", <<>>, <<>>)])
       [] OTHER       -> Go([mode |-> "key", within |-> "key",
                             stmt |-> Statement("key", <<>>, <<>>)])

(* parseTableHeader *)
ParseTableHeader ==
  /\ At("header")
  /\ IF sym = "["
     THEN Take([mode |-> "key", stmt |-> [p.stmt EXCEPT !.kind = "array"]])
     ELSE Go(To("key"))

CloseHeader ==
  \/ /\ At("close")
     /\ IF sym # "]" THEN Fail
        ELSE Take(To(IF p.stmt.kind = "array" THEN "closeArray" ELSE "lineEnd"))
  \/ /\ At("closeArray")
     /\ IF sym # "]" THEN Fail ELSE Take(To("lineEnd"))

(* Mutant: a key may be empty. *)
ParseKeyPathEmpty ==
  /\ At("key")
  /\ CASE sym = "sp"        -> Skip
       [] sym \in BareChars -> Go([mode |-> "bare", buf |-> <<>>])
       [] OTHER             -> Go(To("afterPart"))

(* parseKeyPath *)
ParseKeyPath ==
  /\ At("key")
  /\ CASE sym = "sp"          -> Skip
       [] sym = "dq"          -> Take([mode |-> "basic", buf |-> <<>>])
       [] sym = "sq"          -> Take([mode |-> "literal", buf |-> <<>>])
       [] sym \in BareChars   -> Go([mode |-> "bare", buf |-> <<>>])
       [] OTHER               -> Fail

BareKey ==
  /\ At("bare")
  /\ IF sym \in BareChars THEN Keep ELSE Go(WithPart(p.buf))

AfterPart ==
  /\ At("afterPart")
  /\ CASE sym = "sp" -> Skip
       [] sym = "."  -> Take(To("key"))
       [] OTHER      -> Go(To(IF p.stmt.kind = "key" THEN "equals" ELSE "close"))

(* parseKeyValue *)
ParseKeyValue ==
  \/ /\ At("equals")
     /\ IF sym = "=" THEN Take([mode |-> "afterEquals", within |-> "value"]) ELSE Fail
  \/ /\ At("afterEquals")
     /\ IF sym = "sp" THEN Skip ELSE Go(To("value"))

(* parseValue *)
Tripled(q) == Len(source) >= 3 /\ SubSeq(source, 1, 3) = <<q, q, q>>

ParseValue ==
  /\ At("value")
  /\ CASE sym = "dq" /\ ~Tripled("dq")  -> Take([mode |-> "basic", buf |-> <<>>])
       [] sym = "sq" /\ ~Tripled("sq")  -> Take([mode |-> "literal", buf |-> <<>>])
       [] sym = "["                     -> Take([mode |-> "element", open |-> Append(p.open, <<>>)])
       [] sym = "true"                  -> Take(WithValue(<<"boolean">>, p.open))
       [] sym \in Digits \union {"-"}   -> Go([mode |-> "number", buf |-> <<>>])
       [] OTHER                         -> Fail

(* parseBasicString *)
ParseBasicString ==
  /\ At("basic")
  /\ CASE sym = "dq"            -> Take(WithString)
       [] sym = "bs"            -> Take(To("escape"))
       [] sym \in {"nl", "eof"} -> Fail
       [] OTHER                 -> Keep

ParseEscape ==
  /\ At("escape")
  /\ CASE sym = "eof"            -> Fail
       [] sym \in DOMAIN Escapes -> Take([mode |-> "basic", buf |-> Append(p.buf, Escapes[sym])])
       [] OTHER                  -> Take(To("error"))

(* parseLiteralString *)
ParseLiteralString ==
  /\ At("literal")
  /\ CASE sym = "sq"            -> Take(WithString)
       [] sym \in {"nl", "eof"} -> Fail
       [] OTHER                 -> Keep

(* parseNumber: what strconv reads, at most one sign and one point. *)
Number(raw) ==
  LET digits == IF Head(raw) = "-" THEN Tail(raw) ELSE raw
  IN /\ \E i \in DOMAIN digits : digits[i] \in Digits
     /\ "-" \notin ToSet(digits)
     /\ Cardinality({i \in DOMAIN digits : digits[i] = "."}) <= 1

ParseNumber ==
  /\ At("number")
  /\ CASE sym \in Numeric -> Keep
       [] OTHER ->
            IF sym # "e" /\ Number(p.buf) THEN Go(WithValue(<<"number", p.buf>>, p.open)) ELSE Fail

(* parseArray *)
ParseElement ==
  /\ At("element") /\ sym \notin Blank \union {"#"}
  /\ CASE sym = "eof" -> Fail
       [] sym = "]"   -> Take(WithArray)
       [] OTHER       -> Go(To("value"))

(* Mutant: the comma is looked at and left. *)
AfterElementStuck ==
  /\ At("afterElement") /\ sym \notin Blank \union {"#"}
  /\ CASE sym = "comma" -> Go(To("afterElement"))
       [] sym = "]" -> Take(WithArray)
       [] OTHER     -> Fail

AfterElement ==
  /\ At("afterElement") /\ sym \notin Blank \union {"#"}
  /\ CASE sym = "comma" -> Take(To("element"))
       [] sym = "]" -> Take(WithArray)
       [] OTHER     -> Fail

(* Mutant: a header ends its statement wherever it closes. *)
ExpectLineEndAfterValues ==
  /\ At("lineEnd")
  /\ CASE p.stmt.kind # "key" \/ sym = "eof" -> Go(To("apply"))
       [] sym = "sp" -> Skip
       [] sym = "nl" -> Take(To("apply"))
       [] sym = "cr" -> Take(To("carriageReturn"))
       [] sym = "#"  -> Take([mode |-> "apply", comment |-> TRUE])
       [] OTHER      -> Fail

(* Mutant: no carriage return before the newline. *)
ExpectLineEndUnix ==
  /\ At("lineEnd")
  /\ CASE sym = "sp"  -> Skip
       [] sym = "nl"  -> Take(To("apply"))
       [] sym = "#"   -> Take([mode |-> "apply", comment |-> TRUE])
       [] sym = "eof" -> Go(To("apply"))
       [] OTHER       -> Fail

(* expectLineEnd: a comment is consumed up to the newline, not with it. *)
ExpectLineEnd ==
  /\ At("lineEnd")
  /\ CASE sym = "sp"  -> Skip
       [] sym = "nl"  -> Take(To("apply"))
       [] sym = "cr"  -> Take(To("carriageReturn"))
       [] sym = "#"   -> Take([mode |-> "apply", comment |-> TRUE])
       [] sym = "eof" -> Go(To("apply"))
       [] OTHER       -> Fail

CarriageReturn ==
  /\ At("carriageReturn")
  /\ IF sym = "nl" THEN Take(To("apply")) ELSE Go(To("apply"))

-------------------------------------------------------------------------------
(* The statement goes into the tree, by its kind: openTable,               *)
(* openArrayTable or the end of parseKeyValue. *)

NewTree == [heap |-> <<Heap!NewTable>>, current |-> Heap!Root, explicit |-> {}, why |-> ""]

Shape(value) ==
  IF value[1] # "array" THEN "scalar" ELSE IF value[2] = <<>> THEN "empty" ELSE "filled"

Put(t, s) ==
  CASE s.kind = "table" -> Heap!TableOpened(t.heap, t.explicit, s.path)
    [] s.kind = "array" -> Heap!ArrayExtended(t.heap, s.path)
    [] s.kind = "key"   -> Heap!KeySet(t.heap, t.current, s.path, Heap!ValueOf(Shape(s.value), 0))

(* The tree t with the statement in it.  It stays refused once it is.      *)
Grow(t, s) ==
  IF t.why # "" THEN t
  ELSE LET place == Put(t, s)
       IN [heap |-> place.heap, current |-> place.at, why |-> place.why,
           explicit |-> IF s.kind = "table" THEN t.explicit \union {s.path} ELSE t.explicit]

Apply ==
  /\ p.mode = "apply" /\ ~p.comment
  /\ IF Grow(tree, p.stmt).why # ""
     THEN p' = With(p, To("conflict")) /\ UNCHANGED <<tree, read>>
     ELSE /\ p' = With(p, [mode |-> "statement", stmt |-> Nothing, buf |-> <<>>])
          /\ tree' = Grow(tree, p.stmt)
          /\ read' = Append(read, p.stmt)
  /\ UNCHANGED <<source, closed, history, span>>

Stopped == p.mode \in {"end", "error", "conflict"}

Parse ==
  \/ SkipBlank \/ Comment
  \/ ParseStatement \/ ParseTableHeader \/ CloseHeader
  \/ ParseKeyPath \/ BareKey \/ AfterPart \/ ParseKeyValue
  \/ ParseValue \/ ParseBasicString \/ ParseEscape \/ ParseLiteralString
  \/ ParseNumber \/ ParseElement \/ AfterElement
  \/ ExpectLineEnd \/ CarriageReturn \/ Apply

-------------------------------------------------------------------------------
(* The writer: a line at a time, when the last has been consumed.  Only    *)
(* the last line may lack its newline. *)

EndsLine(text) == text # <<>> /\ Last(text) \in {"nl", "cr"}

Write(l) ==
  /\ source = <<>> /\ ~closed /\ ~Stopped
  /\ written < MaxLines /\ written' = written + 1
  /\ source' = l.text
  /\ closed' = ~EndsLine(l.text)
  /\ said' = IF l.says \in {Nothing, Faulty} THEN said ELSE Append(said, l.says)
  /\ amiss' = (amiss \/ l.says = Faulty)
  /\ newlines' = newlines + Cardinality({i \in DOMAIN l.text : l.text[i] = "nl"})
  /\ UNCHANGED <<p, tree, read, span>>

Close ==
  /\ source = <<>> /\ ~closed /\ ~Stopped
  /\ closed' = TRUE
  /\ UNCHANGED <<source, p, tree, read, history, span>>

Init ==
  /\ source = <<>> /\ closed = FALSE
  /\ p = [mode |-> "statement", comment |-> FALSE, line |-> 1, within |-> "key",
          buf |-> <<>>, stmt |-> Nothing, open |-> <<>>]
  /\ tree = NewTree /\ read = <<>> /\ said = <<>> /\ amiss = FALSE
  /\ written = 0 /\ newlines = 0 /\ span = <<1, 1>>

Next == Parse \/ Close \/ \E l \in Lines : Write(l)

Spec == Init /\ [][Next]_scanVars

(* Parse is a loop in one goroutine; nobody has to finish the file. *)
FairSpec == Spec /\ WF_scanVars(Parse)

-------------------------------------------------------------------------------
(* Properties *)

(* Type invariant: an array is open exactly while one is read; a statement *)
(* that reaches the tree has a key, and a value if it is not a header.     *)
ScanTypeOK ==
  /\ p.mode \in {"element", "afterElement"} => p.open # <<>>
  /\ p.mode \in {"lineEnd", "carriageReturn", "apply"} => p.open = <<>> /\ p.stmt.path # <<>>
  /\ p.line \in Nat \ {0}
  /\ \A s \in ToSet(read) :
       /\ s.kind \in {"table", "array", "key"} /\ s.path # <<>>
       /\ (s.kind = "key") <=> (s.value # <<>>)

(* The tree that grows from the statements, refused where one of them      *)
(* clashes with those before it. *)
Grown(statements) ==
  LET grown[n \in 0..Len(statements)] ==
        IF n = 0 THEN NewTree ELSE Grow(grown[n - 1], statements[n])
  IN grown[Len(statements)]

(* The statement after those that have been read clashes with them.        *)
AtClash ==
  \E n \in DOMAIN said :
    read = SubSeq(said, 1, n - 1) /\ Grown(SubSeq(said, 1, n)).why # ""

(* "never silently misparsed": of a text without a fault, what has been    *)
(* read is what the lines said, one statement a line, however they are     *)
(* laid out, and at its end the tree is the one these statements grow.     *)
(* The text is refused at the first statement that clashes with those      *)
(* before it, and for no other reason. *)
ReadsBack ==
  ~amiss =>
    /\ IsPrefix(read, said) /\ p.mode # "error"
    /\ p.mode = "end" => read = said /\ tree = Grown(said) /\ tree.why = ""
    /\ p.mode = "conflict" => AtClash

(* A text with a fault is not read to its end, and up to there what has    *)
(* been read is what the lines said: nothing of the faulty line.           *)
FaultsAreRefused ==
  amiss =>
    /\ IsPrefix(read, said) /\ p.mode # "end"
    /\ p.mode = "conflict" => AtClash

(* The reader gets to the end of every file or to an error: no loop of it  *)
(* waits for a symbol without consuming one. *)
ReaderStops == closed ~> Stopped

(* "and reports every error with a line number" (toml.go:5): the line is   *)
(* one of those of the statement that is at fault. *)
ErrorsCarryTheirLine ==
  p.mode \in {"error", "conflict"} => p.line \in span[1]..span[2]

===============================================================================
