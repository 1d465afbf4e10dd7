------------------------------ MODULE ScanProofs ------------------------------
(***************************************************************************)
(* Theorems about TomlScan, for every set of lines and every number of     *)
(* them: the parser in each of its modes, the budget of its steps, the     *)
(* lines of its errors, and that it reads every layout of TomlLayout back. *)
(***************************************************************************)
EXTENDS TomlLayout, AnswerProofs, FiniteSetTheorems

(* How many steps may follow without consuming a symbol: where a function  *)
(* may go on to another that looks at the same symbol, its rank is higher. *)
Rank(mode) ==
  CASE mode \in {"afterEquals", "element"}                         -> 12
    [] mode = "value"                                               -> 11
    [] mode = "number"                                              -> 10
    [] mode \in {"lineEnd", "afterElement", "carriageReturn"}    -> 9
    [] mode = "apply"                                               -> 8
    [] mode \in {"statement", "header"}                             -> 7
    [] mode = "key"                                                 -> 6
    [] mode = "bare"                                                -> 5
    [] mode = "afterPart"                                          -> 4
    [] mode \in {"equals", "close", "closeArray"}                  -> 3
    [] mode \in {"basic", "literal", "escape"}                      -> 2
    [] OTHER                                                        -> 0

Budget == 26 * Len(source) + 2 * Rank(p.mode) + (IF p.comment THEN 1 ELSE 0)

(* Every step of the reader uses up some of its budget, which is at most   *)
(* 26 steps a symbol: reading ends after so many steps, for every text.    *)
(* toml.go has a dozen loops, each of which leaves on what it peeks.       *)
EveryStepProgresses == [][Parse => Budget' < Budget]_scanVars

(* An error is said to be on a line of its statement or on the next: not   *)
(* before it, and at most one line after what was looked at.               *)
ErrorsAreNear ==
  p.mode \in {"error", "conflict"} => p.line \in span[1]..(span[2] + 1)

-------------------------------------------------------------------------------
Fields == {"mode", "comment", "line", "within", "buf", "stmt", "open"}
Kinds  == {"table", "array", "key"}

KeyModes   == {"header", "key", "bare", "afterPart", "equals", "close", "closeArray"}
ValueModes == {"afterEquals", "value", "number", "element", "afterElement"}
TextModes  == {"basic", "literal", "escape"}
EndModes   == {"lineEnd", "carriageReturn", "apply"}
StopModes  == {"end", "error", "conflict"}
Modes      == {"statement"} \union KeyModes \union ValueModes \union TextModes
                \union EndModes \union StopModes

Whole(s) ==
  /\ s = Statement(s.kind, s.path, s.value)
  /\ IsSeq(s.path)

Complete(s) ==
  /\ s.kind \in Kinds /\ s.path # <<>>
  /\ (s.kind = "key") <=> (s.value # <<>>)

InKey(q)   == q.mode \in KeyModes \/ (q.mode \in TextModes /\ q.within = "key")
InValue(q) == q.mode \in ValueModes \/ (q.mode \in TextModes /\ q.within = "value")

(* The parser in each of its modes. *)
Parser(q) ==
  /\ DOMAIN q = Fields
  /\ q.mode \in Modes /\ q.comment \in BOOLEAN /\ q.within \in {"key", "value"}
  /\ IsSeq(q.buf)
  /\ Whole(q.stmt)
  /\ IsSeq(q.open)
  /\ q.comment => q.mode \in {"statement", "element", "afterElement", "apply"}
  /\ InKey(q) => /\ q.open = <<>> /\ q.within = "key"
                 /\ q.stmt.kind \in Kinds /\ q.stmt.value = <<>>
  /\ q.mode \in {"afterPart", "equals", "close", "closeArray"} => q.stmt.path # <<>>
  /\ q.mode \in {"equals"} => q.stmt.kind = "key"
  /\ q.mode \in {"header", "close", "closeArray"} => q.stmt.kind # "key"
  /\ InValue(q) => q.within = "value" /\ q.stmt.kind = "key" /\ q.stmt.path # <<>>
  /\ q.mode \in {"element", "afterElement"} => q.open # <<>>
  /\ q.mode \in EndModes => q.open = <<>> /\ Complete(q.stmt)
  /\ q.mode = "statement" => q.open = <<>>

(* The fields after a step. *)
LEMMA WithFields ==
  ASSUME NEW q, DOMAIN q = Fields, NEW new, DOMAIN new \subseteq Fields
  PROVE  /\ DOMAIN With(q, new) = Fields
         /\ \A f \in Fields : With(q, new)[f] = IF f \in DOMAIN new THEN new[f] ELSE q[f]
BY DEF With

(* What is appended, removed or changed at the end leaves a sequence. *)
LEMMA SeqAppend ==
  ASSUME NEW o, IsSeq(o), NEW v
  PROVE  IsSeq(Append(o, v)) /\ Append(o, v) # <<>>
<1>1. o \in Seq(ToSet(o) \union {v})
  BY SeqMonotonic DEF IsSeq
<1>2. Append(o, v) \in Seq(ToSet(o) \union {v}) /\ Append(o, v) # <<>>
  BY <1>1, AppendProperties
<1> QED
  BY <1>2, MadeSeq

LEMMA SeqFront ==
  ASSUME NEW o, IsSeq(o), o # <<>>
  PROVE  IsSeq(Front(o))
<1> DEFINE S == ToSet(o)
<1>1. o \in Seq(S)
  BY DEF IsSeq
<1> HIDE DEF S
<1>2. Len(o) \in Nat \ {0} /\ \A i \in 1..(Len(o) - 1) : o[i] \in S
  BY <1>1, EmptySeq, ElementOfSeq
<1>3. SubSeq(o, 1, Len(o) - 1) \in Seq(S)
  BY <1>2, SubSeqProperties
<1> QED
  BY <1>3, MadeSeq DEF Front

LEMMA SeqLastChanged ==
  ASSUME NEW o, IsSeq(o), o # <<>>, NEW w
  PROVE  IsSeq([o EXCEPT ![Len(o)] = w]) /\ [o EXCEPT ![Len(o)] = w] # <<>>
<1> DEFINE S == ToSet(o) \union {w}
<1>1. o \in Seq(S)
  BY SeqMonotonic DEF IsSeq
<1> HIDE DEF S
<1>2. w \in S
  BY DEF S
<1>3. Len(o) \in 1..Len(o)
  BY <1>1, EmptySeq
<1> DEFINE r == [o EXCEPT ![Len(o)] = w]
<1>4. r \in Seq(S) /\ Len(r) = Len(o)
  BY <1>1, <1>2, <1>3, ExceptSeq
<1> HIDE DEF r
<1>5. r # <<>>
  BY <1>3, <1>4, EmptySeq
<1>6. IsSeq(r)
  BY <1>4, MadeSeq
<1> QED
  BY <1>5, <1>6 DEF r

(* What a step makes of the fields. *)
Becomes(q, mode, comment, within, buf, stmt, open) ==
  /\ DOMAIN q = Fields
  /\ q.mode = mode /\ q.comment = comment /\ q.within = within
  /\ q.buf = buf /\ q.stmt = stmt /\ q.open = open

LEMMA GoesOn ==
  ASSUME DOMAIN p = Fields
  PROVE  /\ \A m : Go(To(m)) => Becomes(p', m, p.comment, p.within, p.buf, p.stmt, p.open)
         /\ Fail => Becomes(p', "error", p.comment, p.within, p.buf, p.stmt, p.open)
         /\ \A c : Go([comment |-> c]) => Becomes(p', p.mode, c, p.within, p.buf, p.stmt, p.open)
         /\ \A m, w, s : Go([mode |-> m, within |-> w, stmt |-> s])
                           => Becomes(p', m, p.comment, w, p.buf, s, p.open)
         /\ \A m, b : Go([mode |-> m, buf |-> b])
                           => Becomes(p', m, p.comment, p.within, b, p.stmt, p.open)
         /\ \A part : Go(WithPart(part))
                           => Becomes(p', "afterPart", p.comment, p.within, p.buf,
                                      [p.stmt EXCEPT !.path = Append(@, part)], p.open)
         /\ \A m, s, o : Go([mode |-> m, stmt |-> s, open |-> o])
                           => Becomes(p', m, p.comment, p.within, p.buf, s, o)
         /\ \A m, o : Go([mode |-> m, open |-> o])
                           => Becomes(p', m, p.comment, p.within, p.buf, p.stmt, o)
BY DEF Go, To, Fail, WithPart, With, Fields, Becomes

LEMMA Takes ==
  ASSUME DOMAIN p = Fields
  PROVE  /\ \A m : Take(To(m)) => Becomes(p', m, p.comment, p.within, p.buf, p.stmt, p.open)
         /\ Keep => Becomes(p', p.mode, p.comment, p.within, Append(p.buf, sym), p.stmt, p.open)
         /\ \A c : Take([comment |-> c]) => Becomes(p', p.mode, c, p.within, p.buf, p.stmt, p.open)
         /\ \A m, w, s : Take([mode |-> m, within |-> w, stmt |-> s])
                           => Becomes(p', m, p.comment, w, p.buf, s, p.open)
         /\ \A m, w : Take([mode |-> m, within |-> w])
                           => Becomes(p', m, p.comment, w, p.buf, p.stmt, p.open)
         /\ \A m, c : Take([mode |-> m, comment |-> c])
                           => Becomes(p', m, c, p.within, p.buf, p.stmt, p.open)
         /\ \A m, b : Take([mode |-> m, buf |-> b])
                           => Becomes(p', m, p.comment, p.within, b, p.stmt, p.open)
         /\ \A m, s : Take([mode |-> m, stmt |-> s])
                           => Becomes(p', m, p.comment, p.within, p.buf, s, p.open)
         /\ \A m, s, o : Take([mode |-> m, stmt |-> s, open |-> o])
                           => Becomes(p', m, p.comment, p.within, p.buf, s, o)
         /\ \A m, o : Take([mode |-> m, open |-> o])
                           => Becomes(p', m, p.comment, p.within, p.buf, p.stmt, o)
BY ZenonT(30), SMTT(30) DEF Take, To, Keep, WithPart, With, Fields, Becomes

LEMMA TakesPart ==
  ASSUME DOMAIN p = Fields, NEW part, Take(WithPart(part))
  PROVE  p'.mode = "afterPart" /\ p'.stmt = [p.stmt EXCEPT !.path = Append(@, part)]
BY DEF Take, WithPart, With, Fields

LEMMA ValueSet ==
  ASSUME NEW s, Whole(s), NEW v
  PROVE  [s EXCEPT !.value = v] = Statement(s.kind, s.path, v)
<1> DEFINE k == s.kind
           t == s.path
           w == s.value
<1>1. s = [kind |-> k, path |-> t, value |-> w]
  BY DEF Whole, Statement
<1> HIDE DEF k, t, w
<1>2. [s EXCEPT !.value = v] = [kind |-> k, path |-> t, value |-> v]
  BY <1>1
<1> QED
  BY <1>2 DEF Statement, k, t

LEMMA PartAdded ==
  ASSUME Parser(p)
  PROVE  LET s == [p.stmt EXCEPT !.path = Append(@, p.buf)]
         IN  Whole(s) /\ s.path # <<>> /\ s.kind = p.stmt.kind /\ s.value = p.stmt.value
<1>1. IsSeq(p.stmt.path)
  BY DEF Parser, Whole
<1>2. IsSeq(Append(p.stmt.path, p.buf)) /\ Append(p.stmt.path, p.buf) # <<>>
  BY <1>1, SeqAppend
<1>3. p.stmt = Statement(p.stmt.kind, p.stmt.path, p.stmt.value)
  BY DEF Parser, Whole
<1> DEFINE path == Append(p.stmt.path, p.buf)
           s == [p.stmt EXCEPT !.path = path]
<1> HIDE DEF path
<1>4. s = Statement(p.stmt.kind, path, p.stmt.value)
  BY <1>3 DEF Statement
<1>5. s.kind = p.stmt.kind /\ s.path = path /\ s.value = p.stmt.value
  BY <1>4 DEF Statement
<1> HIDE DEF s
<1>6. Whole(s) /\ s.path # <<>>
  BY <1>2, <1>4, <1>5 DEF Whole, path
<1> QED
  BY <1>5, <1>6 DEF s, path

LEMMA StepFail ==
  ASSUME Parser(p), ~p.comment, Fail \/ Take(To("error"))
  PROVE  Parser(p')
<1>1. Becomes(p', "error", p.comment, p.within, p.buf, p.stmt, p.open)
  BY GoesOn, Takes DEF Parser
<1> QED
  BY <1>1 DEF Becomes, Parser, InKey, InValue, KeyModes, ValueModes, TextModes, EndModes, StopModes, Modes

LEMMA StepSkipBlank ==
  ASSUME Parser(p), SkipBlank
  PROVE  Parser(p')
BY Takes DEF SkipBlank, Skip, At, Parser, Becomes, InKey, InValue, KeyModes, ValueModes, TextModes, EndModes, StopModes, Modes

LEMMA StepComment ==
  ASSUME Parser(p), Comment
  PROVE  Parser(p')
<1>1. /\ DOMAIN p = Fields /\ p.comment
      /\ p.mode \in {"statement", "element", "afterElement", "apply"}
  BY DEF Comment, Parser
<1>2. \E comment \in BOOLEAN : Becomes(p', p.mode, comment, p.within, p.buf, p.stmt, p.open)
  <2>1. CASE Skip
    <3>1. Becomes(p', p.mode, p.comment, p.within, p.buf, p.stmt, p.open)
      BY <1>1, <2>1, Takes DEF Skip
    <3> QED
      BY <1>1, <3>1
  <2>2. CASE Go([comment |-> FALSE])
    <3>1. Becomes(p', p.mode, FALSE, p.within, p.buf, p.stmt, p.open)
      BY <1>1, <2>2, GoesOn
    <3> QED
      BY <3>1
  <2> QED
    BY <2>1, <2>2 DEF Comment
<1>3. PICK comment \in BOOLEAN : Becomes(p', p.mode, comment, p.within, p.buf, p.stmt, p.open)
  BY <1>2
<1> QED
  BY <1>1, <1>3 DEF Becomes, Parser, InKey, InValue, KeyModes, ValueModes, TextModes, EndModes, StopModes, Modes

LEMMA StepStatement ==
  ASSUME Parser(p), ParseStatement
  PROVE  Parser(p')
<1>1. p.mode = "statement" /\ ~p.comment
  BY DEF ParseStatement, At
<1>2. Whole(Statement("table", <<>>, <<>>)) /\ Whole(Statement("key", <<>>, <<>>))
  BY EmptyList DEF Whole, Statement
<1>3. CASE Go(To("end"))
  <2>1. Becomes(p', "end", p.comment, p.within, p.buf, p.stmt, p.open)
    BY <1>3, GoesOn DEF Parser
  <2> QED
    BY <1>1, <2>1 DEF Becomes, Parser, InKey, InValue, KeyModes, ValueModes, TextModes, EndModes, StopModes, Modes
<1>4. CASE Take([mode |-> "header", within |-> "key", stmt |-> Statement("table", <<>>, <<>>)])
  <2>1. Becomes(p', "header", p.comment, "key", p.buf, Statement("table", <<>>, <<>>), p.open)
    BY <1>4, Takes DEF Parser
  <2>2. p.open = <<>> /\ Statement("table", <<>>, <<>>).value = <<>> /\ Statement("table", <<>>, <<>>).kind = "table"
    BY <1>1 DEF Parser, Statement
  <2> QED
    BY <1>1, <1>2, <2>1, <2>2 DEF Becomes, Parser, InKey, InValue, KeyModes, ValueModes, TextModes, EndModes, StopModes, Modes, Kinds
<1>5. CASE Go([mode |-> "key", within |-> "key", stmt |-> Statement("key", <<>>, <<>>)])
  <2>1. Becomes(p', "key", p.comment, "key", p.buf, Statement("key", <<>>, <<>>), p.open)
    BY <1>5, GoesOn DEF Parser
  <2>2. p.open = <<>> /\ Statement("key", <<>>, <<>>).value = <<>> /\ Statement("key", <<>>, <<>>).kind = "key"
    BY <1>1 DEF Parser, Statement
  <2> QED
    BY <1>1, <1>2, <2>1, <2>2 DEF Becomes, Parser, InKey, InValue, KeyModes, ValueModes, TextModes, EndModes, StopModes, Modes, Kinds
<1> QED
  BY <1>3, <1>4, <1>5 DEF ParseStatement

LEMMA StepHeader ==
  ASSUME Parser(p), ParseTableHeader
  PROVE  Parser(p')
<1> DEFINE s == [p.stmt EXCEPT !.kind = "array"]
<1>1. p.mode = "header" /\ ~p.comment /\ Whole(p.stmt) /\ p.stmt.value = <<>> /\ DOMAIN p = Fields
  BY DEF ParseTableHeader, At, Parser, InKey, KeyModes
<1>2. s = Statement("array", p.stmt.path, <<>>)
  BY <1>1 DEF Whole, Statement
<1>3. Whole(s) /\ s.kind = "array" /\ s.value = <<>>
  BY <1>1, <1>2 DEF Whole, Statement
<1> HIDE DEF s
<1>4. \/ Becomes(p', "key", p.comment, p.within, p.buf, s, p.open)
      \/ Becomes(p', "key", p.comment, p.within, p.buf, p.stmt, p.open)
  BY <1>1, Takes, GoesOn DEF ParseTableHeader, s
<1> QED
  BY <1>1, <1>3, <1>4 DEF Becomes, Parser, InKey, InValue, KeyModes, ValueModes, TextModes, EndModes, StopModes, Modes, Kinds

LEMMA StepClose ==
  ASSUME Parser(p), CloseHeader
  PROVE  Parser(p')
<1>1. DOMAIN p = Fields /\ p.mode \in {"close", "closeArray"} /\ ~p.comment
  BY DEF CloseHeader, At, Parser
<1>2. CASE Fail
  BY <1>1, <1>2, StepFail
<1>3. ASSUME NEW m \in {"closeArray", "lineEnd"},
             m = "closeArray" => p.mode = "close",
             Take(To(m))
      PROVE  Parser(p')
  <2>1. Becomes(p', m, p.comment, p.within, p.buf, p.stmt, p.open)
    BY <1>1, <1>3, Takes
  <2>2. Complete(p.stmt) /\ p.open = <<>> /\ p.stmt.kind # "key" /\ p.within = "key"
    BY <1>1 DEF Parser, Complete, InKey, KeyModes
  <2> QED
    BY <1>1, <1>3, <2>1, <2>2 DEF Becomes, Parser, InKey, InValue, KeyModes, ValueModes, TextModes, EndModes, StopModes, Modes, Complete
<1> QED
  BY <1>2, <1>3 DEF CloseHeader, At

(* Only the mode changes. *)
LEMMA StepTo ==
  ASSUME Parser(p), ~p.comment, NEW m, Becomes(p', m, p.comment, p.within, p.buf, p.stmt, p.open),
         \/ p.mode \in KeyModes /\ m \in {"key"}
         \/ p.mode = "afterPart" /\ m = "equals" /\ p.stmt.kind = "key"
         \/ p.mode = "afterPart" /\ m = "close" /\ p.stmt.kind # "key"
         \/ p.mode = m
         \/ p.mode = "afterEquals" /\ m = "value"
         \/ p.mode = "element" /\ m = "value"
         \/ p.mode = "afterElement" /\ m = "element"
         \/ p.mode \in {"basic", "escape"} /\ m \in {"basic", "escape"}
         \/ p.mode \in EndModes /\ m \in EndModes
  PROVE  Parser(p')
BY DEF Becomes, Parser, InKey, InValue, KeyModes, ValueModes, TextModes, EndModes, StopModes, Modes, Kinds

(* A string, a bare key or a number is begun or goes on. *)
LEMMA StepText ==
  ASSUME Parser(p), ~p.comment, NEW m, NEW b, IsSeq(b),
         Becomes(p', m, p.comment, p.within, b, p.stmt, p.open),
         \/ p.mode \in {"key", "bare"} /\ m = "bare"
         \/ p.mode \in {"value", "number"} /\ m = "number"
         \/ p.mode \in {"key", "value"} \union TextModes /\ m \in TextModes
  PROVE  Parser(p')
BY DEF Becomes, Parser, InKey, InValue, KeyModes, ValueModes, TextModes, EndModes, StopModes, Modes, Kinds

LEMMA StepKeyPath ==
  ASSUME Parser(p), ParseKeyPath
  PROVE  Parser(p')
<1>1. DOMAIN p = Fields /\ p.mode = "key" /\ ~p.comment
  BY DEF ParseKeyPath, At, Parser
<1>2. CASE Skip
  BY <1>1, <1>2, StepTo, Takes DEF Skip
<1>3. CASE Fail
  BY <1>1, <1>3, StepFail
<1>4. ASSUME NEW m \in {"basic", "literal", "bare"},
             Take([mode |-> m, buf |-> <<>>]) \/ Go([mode |-> m, buf |-> <<>>])
      PROVE  Parser(p')
  <2>1. Becomes(p', m, p.comment, p.within, <<>>, p.stmt, p.open)
    BY <1>1, <1>4, Takes, GoesOn
  <2> QED
    BY <1>1, <2>1, EmptyList, StepText DEF TextModes
<1> QED
  BY <1>2, <1>3, <1>4 DEF ParseKeyPath

LEMMA StepKeep ==
  ASSUME Parser(p), ~p.comment, Keep,
         p.mode \in {"bare", "number"} \union TextModes
  PROVE  Parser(p')
<1>1. Becomes(p', p.mode, p.comment, p.within, Append(p.buf, sym), p.stmt, p.open)
  BY Takes DEF Parser
<1>2. IsSeq(Append(p.buf, sym))
  BY SeqAppend DEF Parser
<1> QED
  BY <1>1, <1>2, StepText

LEMMA StepPart ==
  ASSUME Parser(p), ~p.comment, p.within = "key", p.mode \in {"bare"} \union TextModes,
         Go(WithPart(p.buf)) \/ Take(WithPart(p.buf))
  PROVE  Parser(p')
<1> DEFINE s == [p.stmt EXCEPT !.path = Append(@, p.buf)]
<1>1. Becomes(p', "afterPart", p.comment, p.within, p.buf, s, p.open)
  BY GoesOn, Takes DEF Parser, WithPart
<1>2. Whole(s) /\ s.path # <<>> /\ s.kind = p.stmt.kind /\ s.value = p.stmt.value
  BY PartAdded
<1> HIDE DEF s
<1> QED
  BY <1>1, <1>2 DEF Becomes, Parser, InKey, InValue, KeyModes, ValueModes, TextModes, EndModes, StopModes, Modes, Kinds

LEMMA StepBare ==
  ASSUME Parser(p), BareKey
  PROVE  Parser(p')
<1>1. p.mode = "bare" /\ ~p.comment /\ p.within = "key"
  BY DEF BareKey, At, Parser, InKey, KeyModes
<1> QED
  BY <1>1, StepKeep, StepPart DEF BareKey

LEMMA StepAfterPart ==
  ASSUME Parser(p), AfterPart
  PROVE  Parser(p')
<1>1. DOMAIN p = Fields /\ p.mode = "afterPart" /\ ~p.comment
  BY DEF AfterPart, At, Parser
<1>2. \/ Becomes(p', "afterPart", p.comment, p.within, p.buf, p.stmt, p.open)
      \/ Becomes(p', "key", p.comment, p.within, p.buf, p.stmt, p.open)
      \/ /\ p.stmt.kind = "key"
         /\ Becomes(p', "equals", p.comment, p.within, p.buf, p.stmt, p.open)
      \/ /\ p.stmt.kind # "key"
         /\ Becomes(p', "close", p.comment, p.within, p.buf, p.stmt, p.open)
  BY <1>1, Takes, GoesOn DEF AfterPart, Skip
<1> QED
  BY <1>1, <1>2, StepTo DEF KeyModes

LEMMA StepKeyValue ==
  ASSUME Parser(p), ParseKeyValue
  PROVE  Parser(p')
<1>1. DOMAIN p = Fields /\ p.mode \in {"equals", "afterEquals"} /\ ~p.comment
  BY DEF ParseKeyValue, At, Parser
<1>2. CASE Fail
  BY <1>1, <1>2, StepFail
<1>3. CASE p.mode = "equals" /\ Take([mode |-> "afterEquals", within |-> "value"])
  <2>1. Becomes(p', "afterEquals", p.comment, "value", p.buf, p.stmt, p.open)
    BY <1>1, <1>3, Takes
  <2> QED
    BY <1>1, <1>3, <2>1 DEF Becomes, Parser, InKey, InValue, KeyModes, ValueModes, TextModes, EndModes, StopModes, Modes, Kinds
<1>4. CASE p.mode = "afterEquals" /\ Skip
  BY <1>1, <1>4, Takes, StepTo DEF Skip
<1>5. CASE p.mode = "afterEquals" /\ Go(To("value"))
  BY <1>1, <1>5, GoesOn, StepTo
<1> QED
  BY <1>2, <1>3, <1>4, <1>5 DEF ParseKeyValue, At

(* A value is complete. *)
LEMMA StepValue ==
  ASSUME Parser(p), ~p.comment, NEW v, v # <<>>, NEW open, IsSeq(open),
         p.within = "value", p.mode \in {"value", "number", "element", "afterElement"} \union TextModes,
         Go(WithValue(v, open)) \/ Take(WithValue(v, open))
  PROVE  Parser(p')
<1>1. DOMAIN p = Fields /\ Whole(p.stmt) /\ p.stmt.kind = "key" /\ p.stmt.path # <<>>
  BY DEF Parser, InValue, ValueModes
<1>2. CASE open = <<>>
  <2> DEFINE s == [p.stmt EXCEPT !.value = v]
  <2>1. Becomes(p', "lineEnd", p.comment, p.within, p.buf, s, open)
    BY <1>1, <1>2, Takes, GoesOn DEF WithValue
  <2>2. s = Statement(p.stmt.kind, p.stmt.path, v)
    BY <1>1, ValueSet
  <2>3. Whole(s) /\ s.kind = "key" /\ s.path # <<>> /\ s.value = v
    BY <1>1, <2>2 DEF Whole, Statement
  <2> HIDE DEF s
  <2> QED
    BY <1>1, <1>2, <2>1, <2>3 DEF Becomes, Parser, InKey, InValue, KeyModes, ValueModes, TextModes, EndModes, StopModes, Modes, Kinds, Complete
<1>3. CASE open # <<>>
  <2> DEFINE o == [open EXCEPT ![Len(open)] = Append(@, v)]
  <2>1. Becomes(p', "afterElement", p.comment, p.within, p.buf, p.stmt, o)
    BY <1>1, <1>3, Takes, GoesOn DEF WithValue
  <2>2. IsSeq(o) /\ o # <<>>
    BY <1>3, SeqLastChanged
  <2> HIDE DEF o
  <2> QED
    BY <1>1, <2>1, <2>2 DEF Becomes, Parser, InKey, InValue, KeyModes, ValueModes, TextModes, EndModes, StopModes, Modes, Kinds
<1> QED
  BY <1>2, <1>3

LEMMA StepString ==
  ASSUME Parser(p), ~p.comment, p.mode \in TextModes, Take(WithString)
  PROVE  Parser(p')
<1>1. CASE p.within = "key"
  BY <1>1, StepPart DEF WithString
<1>2. CASE p.within # "key"
  <2>1. p.within = "value" /\ IsSeq(p.open)
    BY <1>2 DEF Parser
  <2>2. Take(WithValue(<<"string", p.buf>>, p.open))
    BY <1>2 DEF WithString
  <2>3. <<"string", p.buf>> # <<>>
    OBVIOUS
  <2> QED
    BY <2>1, <2>2, <2>3, StepValue
<1> QED
  BY <1>1, <1>2

LEMMA StepArray ==
  ASSUME Parser(p), ~p.comment, p.mode \in {"element", "afterElement"}, Take(WithArray)
  PROVE  Parser(p')
<1>1. p.within = "value" /\ IsSeq(p.open) /\ p.open # <<>>
  BY DEF Parser, InValue, ValueModes
<1>2. IsSeq(Front(p.open))
  BY <1>1, SeqFront
<1>3. <<"array", Last(p.open)>> # <<>>
  OBVIOUS
<1>4. Take(WithValue(<<"array", Last(p.open)>>, Front(p.open)))
  BY DEF WithArray
<1> QED
  BY <1>1, <1>2, <1>3, <1>4, StepValue

LEMMA StepParseValue ==
  ASSUME Parser(p), ParseValue
  PROVE  Parser(p')
<1>1. DOMAIN p = Fields /\ p.mode = "value" /\ ~p.comment /\ p.within = "value" /\ IsSeq(p.open)
  BY DEF ParseValue, At, Parser, InValue, ValueModes
<1>2. CASE Fail
  BY <1>1, <1>2, StepFail
<1>3. ASSUME NEW m \in {"basic", "literal", "number"},
             Take([mode |-> m, buf |-> <<>>]) \/ Go([mode |-> m, buf |-> <<>>])
      PROVE  Parser(p')
  <2>1. Becomes(p', m, p.comment, p.within, <<>>, p.stmt, p.open)
    BY <1>1, <1>3, Takes, GoesOn
  <2> QED
    BY <1>1, <2>1, EmptyList, StepText DEF TextModes
<1>4. CASE Take(WithValue(<<"boolean">>, p.open))
  <2>1. <<"boolean">> # <<>>
    OBVIOUS
  <2> QED
    BY <1>1, <1>4, <2>1, StepValue
<1>5. CASE Take([mode |-> "element", open |-> Append(p.open, <<>>)])
  <2> DEFINE o == Append(p.open, <<>>)
  <2>1. Becomes(p', "element", p.comment, p.within, p.buf, p.stmt, o)
    BY <1>1, <1>5, Takes
  <2>2. IsSeq(o) /\ o # <<>>
    BY <1>1, SeqAppend
  <2> HIDE DEF o
  <2> QED
    BY <1>1, <2>1, <2>2 DEF Becomes, Parser, InKey, InValue, KeyModes, ValueModes, TextModes, EndModes, StopModes, Modes, Kinds
<1> QED
  BY <1>2, <1>3, <1>4, <1>5 DEF ParseValue

LEMMA StepBasic ==
  ASSUME Parser(p), ParseBasicString
  PROVE  Parser(p')
<1>1. DOMAIN p = Fields /\ p.mode = "basic" /\ ~p.comment
  BY DEF ParseBasicString, At, Parser
<1>2. CASE Take(To("escape"))
  BY <1>1, <1>2, Takes, StepTo
<1> QED
  BY <1>1, <1>2, StepString, StepFail, StepKeep DEF ParseBasicString, TextModes

LEMMA StepEscape ==
  ASSUME Parser(p), ParseEscape
  PROVE  Parser(p')
<1>1. DOMAIN p = Fields /\ p.mode = "escape" /\ ~p.comment /\ IsSeq(p.buf)
  BY DEF ParseEscape, At, Parser
<1>2. ASSUME sym \in DOMAIN Escapes, Take([mode |-> "basic", buf |-> Append(p.buf, Escapes[sym])])
      PROVE  Parser(p')
  <2> DEFINE b == Append(p.buf, Escapes[sym])
  <2>2. IsSeq(b)
    BY <1>1, SeqAppend
  <2>3. Becomes(p', "basic", p.comment, p.within, b, p.stmt, p.open)
    BY <1>1, <1>2, Takes
  <2> HIDE DEF b
  <2> QED
    BY <1>1, <2>2, <2>3, StepText DEF TextModes
<1> QED
  BY <1>1, <1>2, StepFail DEF ParseEscape

LEMMA StepLiteral ==
  ASSUME Parser(p), ParseLiteralString
  PROVE  Parser(p')
<1>1. p.mode = "literal" /\ ~p.comment
  BY DEF ParseLiteralString, At
<1> QED
  BY <1>1, StepString, StepFail, StepKeep DEF ParseLiteralString, TextModes

LEMMA StepNumber ==
  ASSUME Parser(p), ParseNumber
  PROVE  Parser(p')
<1>1. p.mode = "number" /\ ~p.comment /\ p.within = "value" /\ IsSeq(p.open)
  BY DEF ParseNumber, At, Parser, InValue, ValueModes
<1>2. <<"number", p.buf>> # <<>>
  OBVIOUS
<1>3. Keep \/ Fail \/ Go(WithValue(<<"number", p.buf>>, p.open))
  BY DEF ParseNumber
<1> QED
  BY <1>1, <1>2, <1>3, StepValue, StepFail, StepKeep

LEMMA StepElement ==
  ASSUME Parser(p), ParseElement
  PROVE  Parser(p')
<1>1. DOMAIN p = Fields /\ p.mode = "element" /\ ~p.comment
  BY DEF ParseElement, At, Parser
<1>2. Fail \/ Take(WithArray) \/ Becomes(p', "value", p.comment, p.within, p.buf, p.stmt, p.open)
  BY <1>1, GoesOn DEF ParseElement
<1> QED
  BY <1>1, <1>2, StepFail, StepArray, StepTo

LEMMA StepAfterElement ==
  ASSUME Parser(p), AfterElement
  PROVE  Parser(p')
<1>1. DOMAIN p = Fields /\ p.mode = "afterElement" /\ ~p.comment
  BY DEF AfterElement, At, Parser
<1>2. Fail \/ Take(WithArray) \/ Becomes(p', "element", p.comment, p.within, p.buf, p.stmt, p.open)
  BY <1>1, Takes DEF AfterElement
<1> QED
  BY <1>1, <1>2, StepFail, StepArray, StepTo

LEMMA StepLineEnd ==
  ASSUME Parser(p), ExpectLineEnd
  PROVE  Parser(p')
<1>1. DOMAIN p = Fields /\ p.mode = "lineEnd" /\ ~p.comment
  BY DEF ExpectLineEnd, At, Parser
<1>2. \/ Fail
      \/ \E m \in EndModes : Becomes(p', m, p.comment, p.within, p.buf, p.stmt, p.open)
      \/ Becomes(p', "apply", TRUE, p.within, p.buf, p.stmt, p.open)
  BY <1>1, Takes, GoesOn DEF ExpectLineEnd, Skip, EndModes
<1>3. CASE Becomes(p', "apply", TRUE, p.within, p.buf, p.stmt, p.open)
  BY <1>1, <1>3 DEF Becomes, Parser, InKey, InValue, KeyModes, ValueModes, TextModes, EndModes, StopModes, Modes, Kinds
<1> QED
  BY <1>1, <1>2, <1>3, StepFail, StepTo DEF EndModes

LEMMA StepCarriageReturn ==
  ASSUME Parser(p), CarriageReturn
  PROVE  Parser(p')
<1>1. DOMAIN p = Fields /\ p.mode = "carriageReturn" /\ ~p.comment
  BY DEF CarriageReturn, At, Parser
<1>2. Becomes(p', "apply", p.comment, p.within, p.buf, p.stmt, p.open)
  BY <1>1, Takes, GoesOn DEF CarriageReturn
<1> QED
  BY <1>1, <1>2, StepTo DEF EndModes

LEMMA StepApply ==
  ASSUME Parser(p), Apply
  PROVE  Parser(p')
<1>1. DOMAIN p = Fields /\ p.mode = "apply" /\ ~p.comment /\ p.open = <<>>
  BY DEF Apply, Parser, EndModes
<1>2. \/ Becomes(p', "conflict", p.comment, p.within, p.buf, p.stmt, p.open)
      \/ Becomes(p', "statement", p.comment, p.within, <<>>, Nothing, p.open)
  BY <1>1 DEF Apply, To, With, Fields, Becomes
<1>3. Whole(Nothing) /\ IsSeq(<<>>)
  BY EmptyList DEF Whole, Nothing, Statement
<1> QED
  BY <1>1, <1>2, <1>3 DEF Becomes, Parser, InKey, InValue, KeyModes, ValueModes, TextModes, EndModes, StopModes, Modes

LEMMA StepParser ==
  ASSUME Parser(p), Parse
  PROVE  Parser(p')
BY StepSkipBlank, StepComment, StepStatement, StepHeader, StepClose, StepKeyPath, StepBare,
   StepAfterPart, StepKeyValue, StepParseValue, StepBasic, StepEscape, StepLiteral, StepNumber,
   StepElement, StepAfterElement, StepLineEnd, StepCarriageReturn, StepApply
DEF Parse

-------------------------------------------------------------------------------
(* Where a step leaves the text. *)

Went == source' = source /\ p'.line = p.line /\ LookAt
Took == /\ source # <<>> /\ source' = Tail(source) /\ LookAt
        /\ p'.line = IF sym = "nl" THEN p.line + 1 ELSE p.line

LEMMA GoesWent ==
  ASSUME DOMAIN p = Fields
  PROVE  /\ \A m : Go(To(m)) => Went
         /\ Fail => Went
         /\ \A c : Go([comment |-> c]) => Went
         /\ \A m, w, s : Go([mode |-> m, within |-> w, stmt |-> s]) => Went
         /\ \A m, b : Go([mode |-> m, buf |-> b]) => Went
         /\ \A part : Go(WithPart(part)) => Went
         /\ \A v, o : Go(WithValue(v, o)) => Went
<1>1. ASSUME NEW v, NEW o, Go(WithValue(v, o)) PROVE Went
  <2> DEFINE r == [o EXCEPT ![Len(o)] = Append(@, v)]
             s == [p.stmt EXCEPT !.value = v]
  <2>1. \/ Go([mode |-> "lineEnd", stmt |-> s, open |-> o])
        \/ Go([mode |-> "afterElement", open |-> r])
    BY <1>1 DEF WithValue
  <2> HIDE DEF r, s
  <2> QED
    BY <2>1 DEF Go, With, Fields, Went
<1> QED
  BY <1>1 DEF Go, To, Fail, WithPart, With, Fields, Went

LEMMA TakesTook ==
  ASSUME DOMAIN p = Fields
  PROVE  /\ \A m : Take(To(m)) => Took
         /\ Keep => Took
         /\ Skip => Took
         /\ \A c : Take([comment |-> c]) => Took
         /\ \A m, w, s : Take([mode |-> m, within |-> w, stmt |-> s]) => Took
         /\ \A m, w : Take([mode |-> m, within |-> w]) => Took
         /\ \A m, c : Take([mode |-> m, comment |-> c]) => Took
         /\ \A m, b : Take([mode |-> m, buf |-> b]) => Took
         /\ \A m, s : Take([mode |-> m, stmt |-> s]) => Took
         /\ \A m, o : Take([mode |-> m, open |-> o]) => Took
         /\ \A part : Take(WithPart(part)) => Took
         /\ \A v, o : Take(WithValue(v, o)) => Took
<1>1. ASSUME NEW v, NEW o, Take(WithValue(v, o)) PROVE Took
  <2> DEFINE r == [o EXCEPT ![Len(o)] = Append(@, v)]
             s == [p.stmt EXCEPT !.value = v]
  <2>1. \/ Take([mode |-> "lineEnd", stmt |-> s, open |-> o])
        \/ Take([mode |-> "afterElement", open |-> r])
    BY <1>1 DEF WithValue
  <2> HIDE DEF r, s
  <2> QED
    BY <2>1 DEF Take, With, Fields, Took
<1> QED
  BY <1>1 DEF Take, To, Keep, Skip, WithPart, With, Fields, Took

(* A step that consumes nothing goes down. *)
Ranks == [mode \in Modes |-> Rank(mode)]

Lower ==
  \/ ~p.comment /\ ~p'.comment /\ Ranks[p'.mode] < Ranks[p.mode]
  \/ p.comment /\ ~p'.comment /\ p'.mode = p.mode

LEMMA RankFalls ==
  /\ Ranks["error"] = 0 /\ Ranks["end"] = 0 /\ Ranks["conflict"] = 0
  /\ Ranks["afterEquals"] = 12 /\ Ranks["element"] = 12 /\ Ranks["value"] = 11 /\ Ranks["number"] = 10
  /\ Ranks["lineEnd"] = 9 /\ Ranks["afterElement"] = 9 /\ Ranks["carriageReturn"] = 9
  /\ Ranks["apply"] = 8 /\ Ranks["statement"] = 7 /\ Ranks["header"] = 7 /\ Ranks["key"] = 6
  /\ Ranks["bare"] = 5 /\ Ranks["afterPart"] = 4
  /\ Ranks["equals"] = 3 /\ Ranks["close"] = 3 /\ Ranks["closeArray"] = 3
  /\ Ranks["basic"] = 2 /\ Ranks["literal"] = 2 /\ Ranks["escape"] = 2
BY DEF Rank, Ranks, KeyModes, ValueModes, TextModes, EndModes, StopModes, Modes

LEMMA RankBounded == \A mode : Rank(mode) \in 0..12
BY DEF Rank

LEMMA FailLower ==
  ASSUME DOMAIN p = Fields, ~p.comment, Fail,
         p.mode \in {"key", "close", "closeArray", "equals", "value", "basic", "escape",
                     "literal", "number", "element", "afterElement", "lineEnd"}
  PROVE  Went /\ Lower
<1>1. Went /\ p'.mode = "error" /\ ~p'.comment
  BY GoesOn, GoesWent DEF Becomes
<1> QED
  BY <1>1, RankFalls DEF Lower

LEMMA Moves ==
  ASSUME Parser(p), Parse
  PROVE  Took \/ (Went /\ Lower) \/ (Apply /\ Lower)
<1>1. DOMAIN p = Fields /\ p.comment \in BOOLEAN
  BY DEF Parser
<1>2. CASE SkipBlank
  BY <1>1, <1>2, TakesTook DEF SkipBlank
<1>3. CASE Comment
  BY <1>1, <1>3, TakesTook, GoesWent, GoesOn DEF Comment, Becomes, Lower
<1>4. CASE ParseStatement
  BY <1>1, <1>4, TakesTook, GoesWent, GoesOn, RankFalls DEF ParseStatement, At, Becomes, Lower
<1>5. CASE ParseTableHeader
  BY <1>1, <1>5, TakesTook, GoesWent, GoesOn, RankFalls DEF ParseTableHeader, At, Becomes, Lower
<1>6. CASE CloseHeader
  BY <1>1, <1>6, TakesTook, FailLower DEF CloseHeader, At
<1>7. CASE ParseKeyPath
  BY <1>1, <1>7, TakesTook, GoesWent, GoesOn, RankFalls, FailLower DEF ParseKeyPath, At, Becomes, Lower
<1>8. CASE BareKey
  <2>1. p.mode = "bare" /\ ~p.comment /\ (Keep \/ Go(WithPart(p.buf)))
    BY <1>8 DEF BareKey, At
  <2>2. ASSUME Go(WithPart(p.buf)) PROVE Went /\ p'.mode = "afterPart" /\ ~p'.comment
    BY <1>1, <2>1, <2>2, GoesWent, GoesOn DEF Becomes
  <2> QED
    BY <1>1, <2>1, <2>2, TakesTook, RankFalls DEF Lower
<1>9. CASE AfterPart
  BY <1>1, <1>9, TakesTook, GoesWent, GoesOn, RankFalls DEF AfterPart, At, Becomes, Lower
<1>10. CASE ParseKeyValue
  BY <1>1, <1>10, TakesTook, GoesWent, GoesOn, RankFalls, FailLower DEF ParseKeyValue, At, Becomes, Lower
<1>11. CASE ParseValue
  BY <1>1, <1>11, TakesTook, GoesWent, GoesOn, RankFalls, FailLower DEF ParseValue, At, Becomes, Lower
<1>12. CASE ParseBasicString
  BY <1>1, <1>12, TakesTook, FailLower DEF ParseBasicString, At, WithString
<1>13. CASE ParseEscape
  BY <1>1, <1>13, TakesTook, FailLower DEF ParseEscape, At
<1>14. CASE ParseLiteralString
  BY <1>1, <1>14, TakesTook, FailLower DEF ParseLiteralString, At, WithString
<1>15. CASE ParseNumber
  <2> DEFINE v == <<"number", p.buf>>
             s == [p.stmt EXCEPT !.value = v]
             r == [p.open EXCEPT ![Len(p.open)] = Append(@, v)]
  <2>1. p.mode = "number" /\ ~p.comment /\ (Keep \/ Fail \/ Go(WithValue(v, p.open)))
    BY <1>15 DEF ParseNumber, At
  <2>2. ASSUME Go(WithValue(v, p.open))
        PROVE  Went /\ p'.mode \in {"lineEnd", "afterElement"} /\ ~p'.comment
    <3>1. Went
      BY <1>1, <2>2, GoesWent
    <3>2. \/ Go([mode |-> "lineEnd", stmt |-> s, open |-> p.open])
          \/ Go([mode |-> "afterElement", open |-> r])
      BY <2>2 DEF WithValue
    <3> HIDE DEF s, r
    <3> QED
      BY <1>1, <2>1, <3>1, <3>2, GoesOn DEF Becomes
  <2> QED
    BY <1>1, <2>1, <2>2, TakesTook, RankFalls, FailLower DEF Lower
<1>16. CASE ParseElement
  BY <1>1, <1>16, TakesTook, GoesWent, GoesOn, RankFalls, FailLower DEF ParseElement, WithArray, At, Becomes, Lower
<1>17. CASE AfterElement
  BY <1>1, <1>17, TakesTook, FailLower DEF AfterElement, WithArray, At
<1>18. CASE ExpectLineEnd
  BY <1>1, <1>18, TakesTook, GoesWent, GoesOn, RankFalls, FailLower DEF ExpectLineEnd, At, Becomes, Lower
<1>19. CASE CarriageReturn
  BY <1>1, <1>19, TakesTook, GoesWent, GoesOn, RankFalls DEF CarriageReturn, At, Becomes, Lower
<1>20. CASE Apply
  <2>1. p.mode = "apply" /\ ~p.comment /\ p'.mode \in {"conflict", "statement"} /\ p'.comment = p.comment
    BY <1>1, <1>20 DEF Apply, To, With, Fields
  <2> QED
    BY <1>20, <2>1, RankFalls DEF Lower
<1> QED
  BY <1>2, <1>3, <1>4, <1>5, <1>6, <1>7, <1>8, <1>9, <1>10, <1>11, <1>12, <1>13, <1>14, <1>15,
     <1>16, <1>17, <1>18, <1>19, <1>20 DEF Parse

-------------------------------------------------------------------------------
(* The budget of the reader. *)

LEMMA BudgetIs ==
  ASSUME Parser(p), IsSeq(source)
  PROVE  /\ Budget = 26 * Len(source) + 2 * Ranks[p.mode] + (IF p.comment THEN 1 ELSE 0)
         /\ Ranks[p.mode] \in 0..12 /\ Len(source) \in Nat
<1>1. Ranks[p.mode] = Rank(p.mode) /\ p.mode \in Modes
  BY DEF Ranks, Parser
<1>2. \A m \in Modes : Ranks[m] \in 0..12
  BY DEF Ranks, Rank
<1> QED
  BY <1>1, <1>2, SeqFacts DEF Budget

LEMMA SeqTail ==
  ASSUME NEW s, IsSeq(s), s # <<>>
  PROVE  IsSeq(Tail(s)) /\ Len(Tail(s)) = Len(s) - 1
<1>1. s \in Seq(ToSet(s))
  BY DEF IsSeq
<1>2. Tail(s) \in Seq(ToSet(s)) /\ Len(Tail(s)) = Len(s) - 1
  BY <1>1, HeadTailProperties
<1> QED
  BY <1>2, MadeSeq

LEMMA StepSource ==
  ASSUME Parser(p), IsSeq(source), Parse
  PROVE  /\ IsSeq(source')
         /\ \/ Len(source') = Len(source) - 1
            \/ Len(source') = Len(source) /\ Lower
<1>1. CASE Took
  BY <1>1, SeqTail DEF Took
<1>2. CASE (Went \/ Apply) /\ Lower
  BY <1>2 DEF Went, Apply
<1> QED
  BY <1>1, <1>2, Moves

LEMMA BudgetFalls ==
  ASSUME Parser(p), IsSeq(source), Parse
  PROVE  Budget' < Budget
<1> DEFINE n == Len(source)
           m == Len(source')
           i == Ranks[p.mode]
           j == Ranks[p'.mode]
           c == IF p.comment THEN 1 ELSE 0
           d == IF p'.comment THEN 1 ELSE 0
<1>1. Parser(p') /\ IsSeq(source')
  BY StepParser, StepSource
<1>2. Budget = 26 * n + 2 * i + c /\ i \in 0..12 /\ n \in Nat
  BY BudgetIs
<1>3. Budget' = 26 * m + 2 * j + d /\ j \in 0..12 /\ m \in Nat
  <2>1. j = Rank(p'.mode) /\ p'.mode \in Modes
    BY <1>1 DEF Ranks, Parser
  <2>2. \A k \in Modes : Ranks[k] \in 0..12
    BY DEF Ranks, Rank
  <2>3. m \in Nat
    BY <1>1, SeqFacts
  <2> QED
    BY <2>1, <2>2, <2>3 DEF Budget
<1>4. c \in 0..1 /\ d \in 0..1
  OBVIOUS
<1>5. \/ m = n - 1
      \/ m = n /\ j < i /\ c = 0 /\ d = 0
      \/ m = n /\ j = i /\ c = 1 /\ d = 0
  BY StepSource DEF Lower
<1> HIDE DEF n, m, i, j, c, d
<1> QED
  BY <1>2, <1>3, <1>4, <1>5

-------------------------------------------------------------------------------
(* The line counter of the parser is the line of the next symbol. *)

NewlinesIn(s) == {i \in DOMAIN s : s[i] = "nl"}

LEMMA NewlinesFinite ==
  ASSUME NEW s, IsSeq(s)
  PROVE  IsFiniteSet(NewlinesIn(s)) /\ Cardinality(NewlinesIn(s)) \in Nat
<1>1. NewlinesIn(s) \subseteq 1..Len(s) /\ Len(s) \in Nat
  BY SeqFacts DEF NewlinesIn
<1>2. IsFiniteSet(1..Len(s))
  BY <1>1, FS_Interval
<1> QED
  BY <1>1, <1>2, FS_Subset, FS_CardinalityType

LEMMA NewlineConsumed ==
  ASSUME NEW s, IsSeq(s), s # <<>>
  PROVE  Cardinality(NewlinesIn(s)) = IF Head(s) = "nl" THEN Cardinality(NewlinesIn(Tail(s))) + 1
                                      ELSE Cardinality(NewlinesIn(Tail(s)))
<1> DEFINE t == Tail(s)
           A == NewlinesIn(t)
           B == NewlinesIn(s) \ {1}
           f == [i \in A |-> i + 1]
<1>1. /\ DOMAIN s = 1..Len(s) /\ Len(s) \in Nat \ {0} /\ Head(s) = s[1]
      /\ DOMAIN t = 1..(Len(s) - 1) /\ \A i \in 1..(Len(s) - 1) : t[i] = s[i + 1]
  <2>1. s \in Seq(ToSet(s))
    BY DEF IsSeq
  <2>2. Len(t) = Len(s) - 1 /\ t \in Seq(ToSet(s)) /\ \A i \in 1..Len(t) : t[i] = s[i + 1]
    BY <2>1, HeadTailProperties
  <2>3. DOMAIN t = 1..Len(t) /\ Len(s) \in Nat \ {0} /\ DOMAIN s = 1..Len(s)
    BY <2>1, <2>2, EmptySeq
  <2> QED
    BY <2>1, <2>2, <2>3
<1>2. IsSeq(t)
  BY SeqTail
<1>3. IsFiniteSet(A) /\ IsFiniteSet(NewlinesIn(s)) /\ Cardinality(A) \in Nat /\ Cardinality(NewlinesIn(s)) \in Nat
  BY <1>2, NewlinesFinite
<1> HIDE DEF t
<1>4. ExistsBijection(A, B)
  <2>1. A \subseteq Nat /\ B \subseteq Nat /\ \A i \in A : i + 1 \in B
    BY <1>1 DEF NewlinesIn
  <2>2. \A j \in B : j - 1 \in A /\ (j - 1) + 1 = j
    BY <1>1 DEF NewlinesIn
  <2> HIDE DEF A, B
  <2>3. f \in Injection(A, B)
    BY <2>1 DEF Injection, IsInjective
  <2>4. f \in Surjection(A, B)
    BY <2>1, <2>2 DEF Surjection
  <2> QED
    BY <2>3, <2>4 DEF ExistsBijection, Bijection
<1>5. Cardinality(B) = Cardinality(A)
  BY <1>3, <1>4, FS_Bijection
<1>6. Cardinality(B) = IF 1 \in NewlinesIn(s) THEN Cardinality(NewlinesIn(s)) - 1 ELSE Cardinality(NewlinesIn(s))
  BY <1>3, FS_RemoveElement
<1>7. 1 \in NewlinesIn(s) <=> Head(s) = "nl"
  BY <1>1 DEF NewlinesIn
<1> QED
  BY <1>3, <1>5, <1>6, <1>7 DEF t

LEMMA HereIs == Here = 1 + newlines - Cardinality(NewlinesIn(source))
BY DEF Here, NewlinesIn

(* Where the parser is, and what it has looked at for its statement. *)
Located ==
  /\ newlines \in Nat
  /\ Here \in Nat \ {0}
  /\ p.line = Here
  /\ span = <<span[1], span[2]>>
  /\ span[1] \in Nat \ {0} /\ span[2] \in Nat
  /\ span[1] <= span[2] /\ span[2] <= Here /\ Here <= span[2] + 1

LEMMA LooksAhead ==
  ASSUME Located, LookAt
  PROVE  /\ newlines' = newlines
         /\ span' = <<span'[1], span'[2]>> /\ span'[1] \in Nat \ {0} /\ span'[2] = Here
         /\ span'[1] <= span'[2]
BY DEF Located, LookAt, history

LEMMA StepLocated ==
  ASSUME Located, Parser(p), IsSeq(source), Parse
  PROVE  Located'
<1>1. CASE Took
  <2> DEFINE a == Cardinality(NewlinesIn(source))
             b == Cardinality(NewlinesIn(Tail(source)))
  <2>1. a = (IF sym = "nl" THEN b + 1 ELSE b) /\ a \in Nat /\ b \in Nat
    <3>1. source # <<>> /\ sym = Head(source)
      BY <1>1 DEF Took, sym
    <3> QED
      BY <3>1, NewlineConsumed, SeqTail, NewlinesFinite
  <2>2. Here = 1 + newlines - a
    BY HereIs
  <2>3. Here' = 1 + newlines' - b
    BY <1>1 DEF Took, Here, NewlinesIn
  <2>4. p'.line = IF sym = "nl" THEN p.line + 1 ELSE p.line
    BY <1>1 DEF Took
  <2>5. /\ newlines' = newlines
        /\ span' = <<span'[1], span'[2]>> /\ span'[1] \in Nat \ {0} /\ span'[2] = Here
        /\ span'[1] <= span'[2]
    BY <1>1, LooksAhead DEF Took
  <2> HIDE DEF a, b
  <2>6. Here' = IF sym = "nl" THEN Here + 1 ELSE Here
    BY <2>1, <2>2, <2>3, <2>5 DEF Located
  <2> QED
    BY <2>4, <2>5, <2>6 DEF Located
<1>2. CASE Went
  <2>1. Here' = Here /\ p'.line = p.line
    BY <1>2 DEF Went, LookAt, history, Here
  <2> QED
    BY <1>2, <2>1, LooksAhead DEF Went, Located
<1>3. CASE Apply
  <2>1. Here' = Here /\ newlines' = newlines /\ span' = span
    BY <1>3 DEF Apply, Here, history
  <2>2. p'.line = p.line
    BY <1>3 DEF Apply, With, To, Parser, Fields
  <2> QED
    BY <2>1, <2>2 DEF Located
<1> QED
  BY <1>1, <1>2, <1>3, Moves

LEMMA WriteLocated ==
  ASSUME Located, NEW l \in Lines, Write(l)
  PROVE  Located' /\ IsSeq(source')
<1>1. IsSeq(l.text)
  BY ScanAssumption, MadeSeq
<1>2. source = <<>> /\ source' = l.text /\ UNCHANGED <<p, span>>
  BY DEF Write
<1> DEFINE k == Cardinality(NewlinesIn(l.text))
<1>3. newlines' = newlines + k /\ k \in Nat
  BY <1>1, NewlinesFinite DEF Write, NewlinesIn
<1>4. Here = 1 + newlines
  <2>1. Cardinality(NewlinesIn(source)) = 0
    BY <1>2, EmptyList, FS_EmptySet DEF NewlinesIn
  <2>2. newlines \in Nat
    BY DEF Located
  <2> QED
    BY <2>1, <2>2, HereIs
<1>5. Here' = 1 + newlines' - k
  BY <1>2 DEF Here, NewlinesIn
<1> HIDE DEF k
<1>6. Here' = Here /\ newlines' \in Nat
  BY <1>3, <1>4, <1>5 DEF Located
<1> QED
  BY <1>1, <1>2, <1>6 DEF Located

-------------------------------------------------------------------------------
(* What has been read. *)

Reads == IsSeq(read) /\ \A s \in ToSet(read) : Complete(s)

LEMMA AppendedSet ==
  ASSUME NEW s, IsSeq(s), NEW v
  PROVE  IsSeq(Append(s, v)) /\ ToSet(Append(s, v)) = ToSet(s) \union {v}
<1> DEFINE t == Append(s, v)
           S == ToSet(s) \union {v}
<1>1. s \in Seq(S)
  BY SeqMonotonic DEF IsSeq
<1> HIDE DEF S
<1>2. v \in S
  BY DEF S
<1>3. /\ Len(s) \in Nat /\ Len(t) = Len(s) + 1 /\ t \in Seq(S)
      /\ \A i \in 1..Len(s) : t[i] = s[i]
      /\ t[Len(s) + 1] = v
  BY <1>1, <1>2, AppendProperties
<1>4. IsSeq(t) /\ DOMAIN t = 1..Len(t) /\ DOMAIN s = 1..Len(s)
  BY <1>3, MadeSeq, SeqFacts
<1> HIDE DEF t
<1>5. DOMAIN t = DOMAIN s \union {Len(s) + 1} /\ \A i \in DOMAIN s : t[i] = s[i]
  BY <1>3, <1>4
<1>6. ToSet(t) = ToSet(s) \union {v}
  BY <1>3, <1>5 DEF ToSet
<1> QED
  BY <1>4, <1>6 DEF t

LEMMA StepReads ==
  ASSUME Parser(p), Reads, Parse
  PROVE  Reads'
<1>1. CASE Apply
  <2>1. Complete(p.stmt)
    BY <1>1 DEF Apply, Parser, EndModes
  <2>2. UNCHANGED read \/ read' = Append(read, p.stmt)
    BY <1>1 DEF Apply
  <2>3. CASE read' = Append(read, p.stmt)
    <3>1. IsSeq(read') /\ ToSet(read') = ToSet(read) \union {p.stmt}
      BY <2>3, AppendedSet DEF Reads
    <3> QED
      BY <2>1, <3>1 DEF Reads
  <2> QED
    BY <2>2, <2>3 DEF Reads
<1>2. CASE Took \/ Went
  BY <1>2 DEF Took, Went, LookAt, Reads
<1> QED
  BY <1>1, <1>2, Moves

-------------------------------------------------------------------------------
(* The theorems. *)

Scanning == IsSeq(source) /\ Parser(p) /\ Located /\ Reads

LEMMA ScanningStarts == Init => Scanning
<1> SUFFICES ASSUME Init PROVE Scanning
  OBVIOUS
<1>1. Parser(p)
  BY EmptyList DEF Init, Parser, Whole, Nothing, Statement, Fields, InKey, InValue,
                   KeyModes, ValueModes, TextModes, EndModes, StopModes, Modes
<1>2. Located
  <2>1. Cardinality(NewlinesIn(source)) = 0
    BY EmptyList, FS_EmptySet DEF NewlinesIn, Init
  <2>2. Here = 1
    BY <2>1, HereIs DEF Init
  <2> QED
    BY <2>2 DEF Init, Located
<1> QED
  BY <1>1, <1>2, EmptyList DEF Init, Scanning, Reads

LEMMA ScanningStays == Scanning /\ [Next]_scanVars => Scanning'
<1> SUFFICES ASSUME Scanning, [Next]_scanVars PROVE Scanning'
  OBVIOUS
<1>1. CASE Parse
  BY <1>1, StepParser, StepSource, StepLocated, StepReads DEF Scanning
<1>2. ASSUME NEW l \in Lines, Write(l) PROVE Scanning'
  BY <1>2, WriteLocated DEF Scanning, Write, Reads
<1>3. CASE Close \/ UNCHANGED scanVars
  <2>1. UNCHANGED <<source, p, read, newlines, span>>
    BY <1>3 DEF Close, scanVars, history
  <2>2. Here' = Here
    BY <2>1 DEF Here
  <2> QED
    BY <2>1, <2>2 DEF Scanning, Located, Reads
<1> QED
  BY <1>1, <1>2, <1>3 DEF Next

(* Whatever the lines say: an array is open exactly while one is read, and *)
(* every statement that reaches the tree has a kind, a key and, unless it  *)
(* is a header, a value: what TomlTree assumes of what it is given.        *)
THEOREM ScanIsTyped == Spec => []ScanTypeOK
<1>1. Scanning => ScanTypeOK
  BY DEF Scanning, ScanTypeOK, Parser, EndModes, Complete, Located, Reads, Kinds
<1> QED
  BY <1>1, ScanningStarts, ScanningStays, PTL DEF Spec

(* Every step of the parser uses up some of a budget of 26 steps a symbol. *)
THEOREM ReadingIsBounded == Spec => EveryStepProgresses
<1>1. Scanning /\ [Next]_scanVars => [Parse => Budget' < Budget]_scanVars
  BY BudgetFalls DEF Scanning
<1> QED
  BY <1>1, ScanningStarts, ScanningStays, PTL DEF Spec, EveryStepProgresses

(* Every error is said to be on a line of its statement or on the next. *)
THEOREM ErrorsStayNear == Spec => []ErrorsAreNear
<1>1. Scanning => ErrorsAreNear
  BY DEF Scanning, ErrorsAreNear, Located
<1> QED
  BY <1>1, ScanningStarts, ScanningStays, PTL DEF Spec

-------------------------------------------------------------------------------
(* The reader and the layout.  Of the statement s of the last line the     *)
(* writing has got to the place c, and the next symbol is y: what has the  *)
(* parser q read?                                                          *)

Break == {"nl", "eof"}

(* The first n parts of the key are read. *)
Stem(s, n) == Statement(s.kind, SubSeq(s.path, 1, n), <<>>)

AtStatement(q, c, y) ==
  IF q.comment THEN c = Phase("remark")
  ELSE \/ c \in {Phase("start"), Phase("done")}
       \/ c \in {Phase("remark"), Phase("lastRemark"), Phase("return"), Phase("lineEnd")} /\ y \in Break

AtHeader(q, s, c) ==
  /\ q.stmt = Statement("table", <<>>, <<>>)
  /\ \/ s.kind = "array" /\ c = Phase("header")
     \/ s.kind = "table" /\ c = Place("key", 1, 0, <<>>)

(* Part n of the key begins with y or with a symbol after it. *)
BeforePart(s, c, y, n) ==
  \/ c = Place("key", n, 0, <<>>)
  \/ c = Phase("start") /\ n = 1 /\ s.kind = "key" /\ y \notin Blank \union {"#", "["}

AtKey(q, s, c, y) ==
  \E n \in DOMAIN s.path : q.stmt = Stem(s, n - 1) /\ BeforePart(s, c, y, n)

AtBare(q, s, c, y) ==
  \E n \in DOMAIN s.path :
    /\ q.stmt = Stem(s, n - 1)
    /\ \/ q.buf = <<>> /\ BeforePart(s, c, y, n) /\ y \in BareChars
       \/ \E k \in 1..(Len(s.path[n]) - 1) :
            c = Place("bare", n, k, <<>>) /\ q.buf = SubSeq(s.path[n], 1, k)
       \/ c = PartDone(n) /\ q.buf = s.path[n]

AtAfterPart(q, s, c) ==
  \E n \in DOMAIN s.path : q.stmt = Stem(s, n) /\ c = PartDone(n)

AtKeyEnd(q, s, c, y) ==
  q.stmt = Stem(s, Len(s.path)) /\ c = PartDone(Len(s.path)) /\ y # "sp"

(* What an open array of the parser has of a level of the writing. *)
AtLevel(level, list) ==
  /\ level = Level(level.items, level.done)
  /\ IsSeq(level.items) /\ level.done \in 0..Len(level.items)
  /\ list = SubSeq(level.items, 1, level.done)

Opens(level) == level.done < Len(level.items)

(* The value of which the array at level j + 1 is the content. *)
Slot(s, open, j) == IF j = 0 THEN s.value ELSE open[j].items[open[j].done + 1]

(* The arrays that are open, as far as they are read. *)
Nested(s, stack, open) ==
  /\ IsSeq(stack) /\ IsSeq(open) /\ Len(stack) = Len(open)
  /\ \A j \in 1..Len(open) : AtLevel(open[j], stack[j])
  /\ \A j \in 1..(Len(open) - 1) : Opens(open[j])
  /\ \A j \in 1..Len(open) : Slot(s, open, j - 1) = <<"array", open[j].items>>

WithinValue(q, s, open) ==
  s.kind = "key" /\ q.stmt = Stem(s, Len(s.path)) /\ Nested(s, q.open, open)

(* The next value begins with y. *)
BeforeValue(c, y) ==
  \/ c = Phase("value") /\ y # "sp"
  \/ c = Place("element", 0, 0, c.open) /\ c.open # <<>> /\ y \notin Blank \union {"#", "]"}

AtText(q, s, c) ==
  /\ c = Place(q.mode, c.part, c.char, c.open)
  /\ c.char \in 0..Len(Text(s, c)) /\ q.buf = SubSeq(Text(s, c), 1, c.char)
  /\ \/ /\ q.within = "key" /\ c.open = <<>>
        /\ c.part \in DOMAIN s.path /\ q.stmt = Stem(s, c.part - 1)
     \/ /\ q.within = "value" /\ c.part = 0
        /\ WithinValue(q, s, c.open) /\ More(c.open) /\ Tagged(Current(s, c.open), "string")

AtNumber(q, s, c, y) ==
  \E open :
    /\ WithinValue(q, s, open) /\ More(open) /\ Tagged(Current(s, open), "number")
    /\ LET raw == Current(s, open)[2] IN
       /\ Figures(raw)
       /\ \/ q.buf = <<>> /\ BeforeValue(c, y) /\ c.open = open /\ y \in Numeric
          \/ \E k \in 1..(Len(raw) - 1) : c = Place("number", 0, k, open) /\ q.buf = SubSeq(raw, 1, k)
          \/ c = AfterValue(open) /\ q.buf = raw

AtElement(q, s, c, y, at, remark) ==
  /\ WithinValue(q, s, c.open) /\ c.open # <<>>
  /\ IF q.comment THEN c = Place(remark, 0, 0, c.open)
     ELSE \/ c = Place(at, 0, 0, c.open)
          \/ c = Place(remark, 0, 0, c.open) /\ y \in Break

AtApply(q, s, c, y) ==
  IF q.comment THEN q.stmt = s /\ c = Phase("lastRemark")
  ELSE \/ c = Phase("start")
       \/ q.stmt = s /\ c = Phase("done")
       \/ q.stmt = s /\ c \in {Phase("return"), Phase("lineEnd"), Phase("lastRemark")} /\ y \in Break

Agrees(q, s, c, y) ==
  /\ q.mode # "error"
  /\ q.mode = "statement"      => AtStatement(q, c, y)
  /\ q.mode = "header"         => AtHeader(q, s, c)
  /\ q.mode = "key"            => AtKey(q, s, c, y)
  /\ q.mode = "bare"           => AtBare(q, s, c, y)
  /\ q.mode = "afterPart"      => AtAfterPart(q, s, c)
  /\ q.mode = "equals"         => s.kind = "key" /\ AtKeyEnd(q, s, c, y)
  /\ q.mode = "close"          => s.kind # "key" /\ AtKeyEnd(q, s, c, y)
  /\ q.mode = "closeArray"     => q.stmt = s /\ c = Phase("close")
  /\ q.mode = "afterEquals"    => WithinValue(q, s, <<>>) /\ c = Phase("value")
  /\ q.mode = "value"          => WithinValue(q, s, c.open) /\ BeforeValue(c, y)
  /\ q.mode \in TextModes      => AtText(q, s, c)
  /\ q.mode = "number"         => AtNumber(q, s, c, y)
  /\ q.mode = "element"        => AtElement(q, s, c, y, "element", "elementRemark")
  /\ q.mode = "afterElement"   => AtElement(q, s, c, y, "afterElement", "itemRemark")
  /\ q.mode = "lineEnd"        => q.stmt = s /\ c = Phase("lineEnd")
  /\ q.mode = "carriageReturn" => c = Phase("start") \/ (q.stmt = s /\ c = Phase("return"))
  /\ q.mode = "apply"          => AtApply(q, s, c, y)

(* What has been said and is not yet read. *)
Own(s) == IF s = Nothing THEN <<>> ELSE <<s>>

Owed(q, s, at) ==
  CASE q.mode = "end"                                           -> <<>>
    [] q.mode = "statement" /\ at \notin {"start", "remark"}    -> <<>>
    [] q.mode \in {"carriageReturn", "apply"} /\ at = "start"   -> <<q.stmt>> \o Own(s)
    [] OTHER                                                    -> Own(s)

Accounted(q, s, c) ==
  IF q.mode = "conflict" THEN IsPrefix(read, said) /\ AtClash
  ELSE said = read \o Owed(q, s, c.at)

-------------------------------------------------------------------------------
(* The places after a place. *)

LEMMA PlaceFields ==
  \A a, n, k, o : LET c == Place(a, n, k, o) IN
     /\ c.at = a /\ c.part = n /\ c.char = k /\ c.open = o
     /\ \A b : [c EXCEPT !.at = b] = Place(b, n, k, o)
BY DEF Place

LEMMA NotNowhere ==
  \A a, n, k, o : a # "nowhere" => Place(a, n, k, o) # Nowhere
BY PlaceFields DEF Nowhere, Phase

(* The writing goes on with y, or it ends here, at the end of the file. *)
Finished(s, c) ==
  \/ c.at \in {"done", "return", "lineEnd", "lastRemark"}
  \/ c.at \in {"start", "remark"} /\ s = Nothing

Live(s, c, y) == IF y = "eof" THEN Finished(s, c) ELSE After(s, c, y) # Nowhere

LEMMA FromStart ==
  ASSUME NEW s, NEW y, y # "eof", After(s, Phase("start"), y) # Nowhere
  PROVE  LET c == After(s, Phase("start"), y) IN
         \/ y \in Blank /\ c = Phase("start")
         \/ y = "#" /\ c = Phase("remark")
         \/ y = "[" /\ s.kind = "table" /\ c = Place("key", 1, 0, <<>>)
         \/ y = "[" /\ s.kind = "array" /\ c = Phase("header")
         \/ y \notin Blank \union {"#", "["} /\ s.kind = "key" /\ c = BeginPart(s, 1, y)
BY PlaceFields, SMTT(30), ZenonT(30) DEF After, Begin, Phase, Blank

LEMMA FromPart ==
  ASSUME NEW s, NEW n, NEW y, BeginPart(s, n, y) # Nowhere
  PROVE  LET c == BeginPart(s, n, y) IN
         \/ y = "dq" /\ c = Place("basic", n, 0, <<>>)
         \/ y = "sq" /\ c = Place("literal", n, 0, <<>>)
         \/ y \in BareChars /\ s.path[n] # <<>> /\ y = s.path[n][1] /\ c = InBare(s, n, 1)
BY DEF BeginPart, BareChars

LEMMA FromEndPart ==
  ASSUME NEW s, NEW n, NEW y, y # "eof", After(s, PartDone(n), y) # Nowhere
  PROVE  LET c == After(s, PartDone(n), y) IN
         \/ y = "sp" /\ c = PartDone(n)
         \/ y = "." /\ n # Len(s.path) /\ c = Place("key", n + 1, 0, <<>>)
         \/ y = "=" /\ n = Len(s.path) /\ s.kind = "key" /\ c = Phase("value")
         \/ y = "]" /\ n = Len(s.path) /\ s.kind = "table" /\ c = Phase("lineEnd")
         \/ y = "]" /\ n = Len(s.path) /\ s.kind = "array" /\ c = Phase("close")
<1> DEFINE c == Place("afterPart", n, 0, <<>>)
<1>1. After(s, c, y) = EndPart(s, c, y) /\ c.part = n
  BY PlaceFields DEF After
<1>2. c = PartDone(n)
  BY DEF PartDone
<1> HIDE DEF c
<1> QED
  BY <1>1, <1>2 DEF EndPart

LEMMA FromBare ==
  ASSUME NEW s, NEW n, NEW k, NEW y, y # "eof", After(s, Place("bare", n, k, <<>>), y) # Nowhere
  PROVE  /\ y \in BareChars /\ y = s.path[n][k + 1]
         /\ After(s, Place("bare", n, k, <<>>), y) = InBare(s, n, k + 1)
BY PlaceFields DEF After, GoOnBare

LEMMA FromText ==
  ASSUME NEW s, NEW at \in TextModes, NEW n, NEW k, NEW o, NEW y, y # "eof",
         After(s, Place(at, n, k, o), y) # Nowhere
  PROVE  LET c == Place(at, n, k, o)
             d == After(s, c, y)
             t == Text(s, c)
         IN
         \/ at = "basic" /\ y = "dq" /\ k = Len(t) /\ d = AfterText(c)
         \/ at = "basic" /\ y = "bs" /\ d = Place("escape", n, k, o)
         \/ at = "basic" /\ y \notin {"dq", "bs", "nl"} /\ k < Len(t) /\ t[k + 1] = y
              /\ d = Place("basic", n, k + 1, o)
         \/ at = "escape" /\ y \in DOMAIN Escapes /\ k < Len(t) /\ t[k + 1] = Escapes[y]
              /\ d = Place("basic", n, k + 1, o)
         \/ at = "literal" /\ y = "sq" /\ k = Len(t) /\ d = AfterText(c)
         \/ at = "literal" /\ y \notin {"sq", "nl"} /\ k < Len(t) /\ t[k + 1] = y
              /\ d = Place("literal", n, k + 1, o)
<1> DEFINE c == Place(at, n, k, o)
<1>1. c.at = at /\ c.part = n /\ c.char = k /\ c.open = o /\ \A b : [c EXCEPT !.at = b] = Place(b, n, k, o)
  BY PlaceFields
<1>2. /\ at = "basic" => After(s, c, y) = InBasic(s, c, y)
      /\ at = "escape" => After(s, c, y) = InEscape(s, c, y)
      /\ at = "literal" => After(s, c, y) = InLiteral(s, c, y)
  BY PlaceFields DEF After
<1> HIDE DEF c
<1>3. CASE at = "basic"
  BY <1>1, <1>2, <1>3 DEF InBasic, Writes, Written, c
<1>4. CASE at = "escape"
  BY <1>1, <1>2, <1>4 DEF InEscape, Writes, Written, c
<1>5. CASE at = "literal"
  BY <1>1, <1>2, <1>5 DEF InLiteral, Writes, Written, c
<1> QED
  BY <1>3, <1>4, <1>5 DEF TextModes

LEMMA FromValue ==
  ASSUME NEW s, NEW o, NEW y, BeginValue(s, o, y) # Nowhere
  PROVE  LET v == Current(s, o)
             c == BeginValue(s, o, y)
         IN
         /\ More(o)
         /\ \/ y = "dq" /\ Tagged(v, "string") /\ c = Place("basic", 0, 0, o)
            \/ y = "sq" /\ Tagged(v, "string") /\ c = Place("literal", 0, 0, o)
            \/ y = "true" /\ v = <<"boolean">> /\ c = AfterValue(o)
            \/ y = "[" /\ Tagged(v, "array") /\ c = Place("element", 0, 0, Append(o, Level(v[2], 0)))
            \/ y \in Numeric /\ Tagged(v, "number") /\ Figures(v[2]) /\ y = v[2][1]
                 /\ c = InNumber(v[2], 1, o)
<1> DEFINE v == Current(s, o)
<1>1. More(o)
  BY DEF BeginValue
<1>2. Numeric = {"1", "-", "."}
  BY DEF Numeric, Digits
<1> HIDE DEF v
<1> QED
  BY <1>1, <1>2 DEF BeginValue, v

LEMMA FromNumber ==
  ASSUME NEW s, NEW k, NEW o, NEW y, y # "eof", After(s, Place("number", 0, k, o), y) # Nowhere
  PROVE  LET raw == Current(s, o)[2] IN
         y = raw[k + 1] /\ After(s, Place("number", 0, k, o), y) = InNumber(raw, k + 1, o)
BY PlaceFields DEF After, GoOnNumber

LEMMA FromElement ==
  ASSUME NEW s, NEW o, NEW y, y # "eof", After(s, Place("element", 0, 0, o), y) # Nowhere
  PROVE  LET c == After(s, Place("element", 0, 0, o), y) IN
         \/ y \in Blank /\ c = Place("element", 0, 0, o)
         \/ y = "#" /\ c = Place("elementRemark", 0, 0, o)
         \/ y = "]" /\ c = EndArray(o)
         \/ y \notin Blank \union {"#", "]"} /\ c = BeginValue(s, o, y)
<1> DEFINE c == Place("element", 0, 0, o)
<1>1. After(s, c, y) = Between(s, c, y) /\ c.open = o /\ [c EXCEPT !.at = "elementRemark"] = Place("elementRemark", 0, 0, o)
  BY PlaceFields DEF After
<1> HIDE DEF c
<1> QED
  BY <1>1 DEF Between, Blank, c

LEMMA FromItem ==
  ASSUME NEW s, NEW o, NEW y, y # "eof", After(s, Place("afterElement", 0, 0, o), y) # Nowhere
  PROVE  LET c == After(s, Place("afterElement", 0, 0, o), y) IN
         \/ y \in Blank /\ c = Place("afterElement", 0, 0, o)
         \/ y = "#" /\ c = Place("itemRemark", 0, 0, o)
         \/ y = "]" /\ c = EndArray(o)
         \/ y = "comma" /\ c = Place("element", 0, 0, o)
<1> DEFINE c == Place("afterElement", 0, 0, o)
<1>1. /\ After(s, c, y) = AfterItem(c, y) /\ c.open = o
      /\ [c EXCEPT !.at = "itemRemark"] = Place("itemRemark", 0, 0, o)
      /\ [c EXCEPT !.at = "element"] = Place("element", 0, 0, o)
  BY PlaceFields DEF After
<1> HIDE DEF c
<1> QED
  BY <1>1 DEF AfterItem, Blank, c

LEMMA FromRemarks ==
  ASSUME NEW s, NEW y, y # "eof", NEW n, NEW k, NEW o
  PROVE  /\ After(s, Place("remark", n, k, o), y)
              = IF y = "nl" THEN Place("start", n, k, o) ELSE Place("remark", n, k, o)
         /\ After(s, Place("elementRemark", n, k, o), y)
              = IF y = "nl" THEN Place("element", n, k, o) ELSE Place("elementRemark", n, k, o)
         /\ After(s, Place("itemRemark", n, k, o), y)
              = IF y = "nl" THEN Place("afterElement", n, k, o) ELSE Place("itemRemark", n, k, o)
         /\ After(s, Place("lastRemark", n, k, o), y)
              = IF y = "nl" THEN Place("done", n, k, o) ELSE Place("lastRemark", n, k, o)
BY PlaceFields, SMTT(30), ZenonT(30) DEF After, Remark

LEMMA FromLineEnd ==
  ASSUME NEW s, NEW y, y # "eof", After(s, Phase("lineEnd"), y) # Nowhere
  PROVE  LET c == After(s, Phase("lineEnd"), y) IN
         \/ y = "sp" /\ c = Phase("lineEnd")
         \/ y = "nl" /\ c = Phase("done")
         \/ y = "cr" /\ c = Phase("return")
         \/ y = "#" /\ c = Phase("lastRemark")
BY PlaceFields, SMTT(30), ZenonT(30) DEF After, EndLine, Phase

LEMMA FromClose ==
  ASSUME NEW s, NEW y, y # "eof"
  PROVE  /\ After(s, Phase("header"), y) # Nowhere => y = "[" /\ After(s, Phase("header"), y) = Place("key", 1, 0, <<>>)
         /\ After(s, Phase("close"), y) # Nowhere => y = "]" /\ After(s, Phase("close"), y) = Phase("lineEnd")
         /\ After(s, Phase("return"), y) # Nowhere => y = "nl" /\ After(s, Phase("return"), y) = Phase("done")
         /\ After(s, Phase("done"), y) = Nowhere
BY PlaceFields, SMTT(30), ZenonT(30) DEF After, If, Phase

-------------------------------------------------------------------------------
(* Beginnings of sequences. *)

LEMMA Beginnings ==
  ASSUME NEW t, IsSeq(t)
  PROVE  /\ SubSeq(t, 1, 0) = <<>> /\ SubSeq(t, 1, Len(t)) = t
         /\ \A k \in 0..(Len(t) - 1) : SubSeq(t, 1, k + 1) = Append(SubSeq(t, 1, k), t[k + 1])
         /\ \A k \in 0..Len(t) : IsSeq(SubSeq(t, 1, k)) /\ Len(SubSeq(t, 1, k)) = k
                                 /\ \A i \in 1..k : SubSeq(t, 1, k)[i] = t[i]
<1> DEFINE S == ToSet(t)
<1>1. t \in Seq(S) /\ Len(t) \in Nat
  BY DEF IsSeq
<1>2. \A i \in 1..Len(t) : t[i] \in S
  BY <1>1, ElementOfSeq
<1> HIDE DEF S
<1>3. ASSUME NEW k \in 0..Len(t)
      PROVE  /\ SubSeq(t, 1, k) \in Seq(S) /\ Len(SubSeq(t, 1, k)) = k
             /\ \A i \in 1..k : SubSeq(t, 1, k)[i] = t[i]
  BY <1>1, <1>2, SubSeqProperties
<1>4. SubSeq(t, 1, 0) = <<>>
  BY <1>1, <1>3, EmptySeq
<1>5. SubSeq(t, 1, Len(t)) = t
  BY <1>1, <1>3, SeqEqual
<1>6. ASSUME NEW k \in 0..(Len(t) - 1)
      PROVE  SubSeq(t, 1, k + 1) = Append(SubSeq(t, 1, k), t[k + 1])
  <2> DEFINE a == SubSeq(t, 1, k)
             b == SubSeq(t, 1, k + 1)
             d == Append(a, t[k + 1])
  <2>1. a \in Seq(S) /\ Len(a) = k /\ \A i \in 1..k : a[i] = t[i]
    BY <1>1, <1>3
  <2>2. b \in Seq(S) /\ Len(b) = k + 1 /\ \A i \in 1..(k + 1) : b[i] = t[i]
    BY <1>1, <1>3
  <2>3. t[k + 1] \in S
    BY <1>1, <1>2
  <2> HIDE DEF a, b
  <2>4. d \in Seq(S) /\ Len(d) = k + 1 /\ d[k + 1] = t[k + 1] /\ \A i \in 1..k : d[i] = a[i]
    BY <2>1, <2>3, AppendProperties
  <2> HIDE DEF d
  <2>5. \A i \in 1..(k + 1) : d[i] = b[i]
    BY <1>1, <2>1, <2>2, <2>4
  <2>6. b = d
    BY <2>2, <2>4, <2>5, SeqEqual
  <2> QED
    BY <2>6 DEF a, b, d
<1>7. ASSUME NEW k \in 0..Len(t) PROVE IsSeq(SubSeq(t, 1, k))
  BY <1>3, MadeSeq
<1> QED
  BY <1>3, <1>4, <1>5, <1>6, <1>7

-------------------------------------------------------------------------------
(* The arrays that are open. *)

LEMMA Appended ==
  ASSUME NEW o, IsSeq(o), NEW v
  PROVE  /\ IsSeq(Append(o, v)) /\ Len(Append(o, v)) = Len(o) + 1
         /\ Append(o, v)[Len(o) + 1] = v
         /\ \A i \in 1..Len(o) : Append(o, v)[i] = o[i]
<1>1. o \in Seq(ToSet(o) \union {v})
  BY SeqMonotonic DEF IsSeq
<1> QED
  BY <1>1, SeqAppend, AppendProperties

LEMMA Fronted ==
  ASSUME NEW o, IsSeq(o), o # <<>>
  PROVE  /\ Len(o) \in Nat \ {0} /\ Last(o) = o[Len(o)]
         /\ IsSeq(Front(o)) /\ Len(Front(o)) = Len(o) - 1
         /\ \A i \in 1..(Len(o) - 1) : Front(o)[i] = o[i]
<1>1. o \in Seq(ToSet(o)) /\ Len(o) \in Nat
  BY DEF IsSeq
<1>2. Len(o) # 0
  BY <1>1, EmptySeq
<1>3. Len(o) - 1 \in 0..Len(o)
  BY <1>1, <1>2
<1> QED
  BY <1>1, <1>2, <1>3, Beginnings DEF Front, Last

LEMMA LastChanged ==
  ASSUME NEW o, IsSeq(o), o # <<>>, NEW w
  PROVE  LET r == [o EXCEPT ![Len(o)] = w] IN
         /\ IsSeq(r) /\ Len(r) = Len(o) /\ r[Len(o)] = w
         /\ \A i \in 1..(Len(o) - 1) : r[i] = o[i]
<1>1. o \in Seq(ToSet(o)) /\ Len(o) \in Nat
  BY DEF IsSeq
<1>2. Len(o) # 0
  BY <1>1, EmptySeq
<1> DEFINE S == ToSet(o) \union {w}
<1>3. o \in Seq(S)
  BY <1>1, SeqMonotonic
<1>4. w \in S
  OBVIOUS
<1> HIDE DEF S
<1>5. [o EXCEPT ![Len(o)] = w] \in Seq(S) /\ Len([o EXCEPT ![Len(o)] = w]) = Len(o)
  BY <1>1, <1>2, <1>3, <1>4, ExceptSeq
<1>6. DOMAIN o = 1..Len(o) /\ Len(o) \in 1..Len(o)
  BY <1>1, <1>2
<1>7. IsSeq([o EXCEPT ![Len(o)] = w])
  BY SeqLastChanged
<1>8. [o EXCEPT ![Len(o)] = w][Len(o)] = w
  BY <1>6
<1>9. \A i \in 1..(Len(o) - 1) : [o EXCEPT ![Len(o)] = w][i] = o[i]
  <2> DEFINE n == Len(o)
  <2>0. n \in Nat /\ DOMAIN o = 1..n
    BY <1>1, <1>6
  <2> HIDE DEF n
  <2>1. \A i \in 1..(n - 1) : i \in DOMAIN o /\ i # n
    BY <2>0
  <2> USE DEF n
  <2> QED
    BY <2>1
<1> QED
  BY <1>5, <1>7, <1>8, <1>9

LEMMA NestedLengths ==
  ASSUME NEW s, NEW stack, NEW open, Nested(s, stack, open)
  PROVE  /\ Len(open) \in Nat /\ Len(stack) = Len(open)
         /\ stack = <<>> <=> open = <<>>
         /\ stack = <<>> <=> Len(open) = 0
<1>1. stack \in Seq(ToSet(stack)) /\ open \in Seq(ToSet(open)) /\ Len(stack) = Len(open)
  BY DEF Nested, IsSeq
<1> QED
  BY <1>1, EmptySeq

LEMMA NestedNone ==
  ASSUME NEW s PROVE Nested(s, <<>>, <<>>)
<1>1. Len(<<>>) = 0
  OBVIOUS
<1> QED
  BY <1>1, EmptyList DEF Nested

LEMMA LevelFields ==
  \A items, done : Level(items, done).items = items /\ Level(items, done).done = done
BY DEF Level

(* An array begins. *)
LEMMA NestedDeeper ==
  ASSUME NEW s, NEW stack, NEW open, Nested(s, stack, open), More(open),
         Tagged(Current(s, open), "array")
  PROVE  Nested(s, Append(stack, <<>>), Append(open, Level(Current(s, open)[2], 0)))
<1> DEFINE v == Current(s, open)
           L == Level(v[2], 0)
           o == Append(open, L)
           t == Append(stack, <<>>)
           n == Len(open)
<1>1. IsSeq(stack) /\ IsSeq(open) /\ Len(stack) = n /\ n \in Nat
  BY NestedLengths DEF Nested
<1>2. IsSeq(o) /\ Len(o) = n + 1 /\ o[n + 1] = L /\ \A i \in 1..n : o[i] = open[i]
  BY <1>1, Appended
<1>3. IsSeq(t) /\ Len(t) = n + 1 /\ t[n + 1] = <<>> /\ \A i \in 1..n : t[i] = stack[i]
  BY <1>1, Appended
<1>4. v = <<"array", v[2]>> /\ IsSeq(v[2])
  BY DEF Tagged, IsSeq
<1>5. AtLevel(L, <<>>) /\ L.items = v[2]
  <2>1. L.items = v[2] /\ L.done = 0
    BY LevelFields
  <2>2. SubSeq(v[2], 1, 0) = <<>> /\ Len(v[2]) \in Nat
    BY <1>4, Beginnings, SeqFacts
  <2> QED
    BY <1>4, <2>1, <2>2 DEF AtLevel
<1>6. n # 0 => Opens(open[n]) /\ v = open[n].items[open[n].done + 1]
  <2> SUFFICES ASSUME n # 0 PROVE Opens(open[n]) /\ v = open[n].items[open[n].done + 1]
    OBVIOUS
  <2>1. open # <<>> /\ Last(open) = open[n]
    BY <1>1, NestedLengths, Fronted
  <2> QED
    BY <2>1 DEF More, Current, Opens
<1>7. n = 0 => v = s.value
  BY NestedLengths DEF Current
<1>8. Slot(s, o, n) = v
  BY <1>1, <1>2, <1>6, <1>7 DEF Slot
<1>9. \A j \in 1..n : Slot(s, o, j - 1) = Slot(s, open, j - 1)
  BY <1>1, <1>2 DEF Slot
<1> HIDE DEF v, L, o, t
<1>10. \A j \in 1..(n + 1) : AtLevel(o[j], t[j])
  BY <1>1, <1>2, <1>3, <1>5 DEF Nested
<1>11. \A j \in 1..n : Opens(o[j])
  BY <1>1, <1>2, <1>6 DEF Nested
<1>12. \A j \in 1..(n + 1) : Slot(s, o, j - 1) = <<"array", o[j].items>>
  <2>1. ASSUME NEW j \in 1..n PROVE Slot(s, o, j - 1) = <<"array", o[j].items>>
    BY <1>2, <1>9 DEF Nested
  <2>2. Slot(s, o, (n + 1) - 1) = <<"array", o[n + 1].items>>
    BY <1>1, <1>2, <1>4, <1>5, <1>8
  <2> QED
    BY <1>1, <2>1, <2>2
<1> HIDE DEF n
<1>13. Nested(s, t, o)
  BY <1>1, <1>2, <1>3, <1>10, <1>11, <1>12 DEF Nested
<1> QED
  BY <1>13 DEF t, o, L, v

(* An item is complete. *)
LEMMA NestedItem ==
  ASSUME NEW s, NEW stack, NEW open, Nested(s, stack, open), More(open), open # <<>>
  PROVE  Nested(s, [stack EXCEPT ![Len(stack)] = Append(@, Current(s, open))],
                   [open EXCEPT ![Len(open)] = Level(@.items, @.done + 1)])
<1> DEFINE n == Len(open)
           v == Current(s, open)
           last == open[n]
           L == Level(last.items, last.done + 1)
           w == Append(stack[n], v)
           o == [open EXCEPT ![n] = L]
           t == [stack EXCEPT ![n] = w]
<1>1. IsSeq(stack) /\ IsSeq(open) /\ Len(stack) = n /\ n \in Nat \ {0} /\ stack # <<>>
  BY NestedLengths DEF Nested
<1>2. Last(open) = last /\ Opens(last) /\ v = last.items[last.done + 1]
  BY <1>1, Fronted DEF More, Current, Opens
<1>3. AtLevel(last, stack[n])
  BY <1>1 DEF Nested
<1>4. IsSeq(o) /\ Len(o) = n /\ o[n] = L /\ \A i \in 1..(n - 1) : o[i] = open[i]
  BY <1>1, LastChanged
<1>5. IsSeq(t) /\ Len(t) = n /\ t[n] = w /\ \A i \in 1..(n - 1) : t[i] = stack[i]
  <2>1. n = Len(stack)
    BY <1>1
  <2> HIDE DEF n, w
  <2> DEFINE r == [stack EXCEPT ![Len(stack)] = w]
  <2>2. /\ IsSeq(r) /\ Len(r) = Len(stack) /\ r[Len(stack)] = w
        /\ \A i \in 1..(Len(stack) - 1) : r[i] = stack[i]
    BY <1>1, LastChanged
  <2>3. t = r
    BY <2>1
  <2> HIDE DEF r, t
  <2> QED
    BY <2>1, <2>2, <2>3
<1>6. AtLevel(L, w) /\ L.items = last.items
  <2> DEFINE items == last.items
             k == last.done
             m == Len(items)
  <2>1. L.items = items /\ L.done = k + 1
    BY LevelFields
  <2>2. IsSeq(items) /\ m \in Nat /\ k \in 0..(m - 1) /\ stack[n] = SubSeq(items, 1, k)
    BY <1>2, <1>3, SeqFacts DEF AtLevel, Opens
  <2>3. w = SubSeq(items, 1, k + 1)
    BY <1>2, <2>2, Beginnings, SMTT(30), ZenonT(30)
  <2>4. k + 1 \in 0..m
    BY <2>2
  <2> QED
    BY <2>1, <2>2, <2>3, <2>4 DEF AtLevel
<1>7. \A j \in 1..n : Slot(s, o, j - 1) = Slot(s, open, j - 1)
  BY <1>1, <1>4 DEF Slot
<1> HIDE DEF L, w, o, t, v
<1>8. \A j \in 1..n : AtLevel(o[j], t[j])
  <2>1. \A j \in 1..(n - 1) : AtLevel(o[j], t[j])
    BY <1>1, <1>4, <1>5 DEF Nested
  <2>2. AtLevel(o[n], t[n])
    BY <1>4, <1>5, <1>6
  <2> QED
    BY <1>1, <2>1, <2>2
<1>9. \A j \in 1..(n - 1) : Opens(o[j])
  BY <1>1, <1>4 DEF Nested
<1>10. \A j \in 1..n : Slot(s, o, j - 1) = <<"array", o[j].items>>
  <2>1. \A j \in 1..n : o[j].items = open[j].items
    BY <1>1, <1>4, <1>6
  <2> QED
    BY <1>7, <2>1 DEF Nested
<1> HIDE DEF n, last
<1>11. Nested(s, t, o)
  BY <1>1, <1>4, <1>5, <1>8, <1>9, <1>10 DEF Nested
<1>12. t = [stack EXCEPT ![Len(stack)] = Append(@, Current(s, open))]
  BY <1>1 DEF t, w, v, n
<1>13. o = [open EXCEPT ![Len(open)] = Level(@.items, @.done + 1)]
  BY DEF o, L, last, n
<1> QED
  BY <1>11, <1>12, <1>13

(* An array ends. *)
LEMMA NestedOut ==
  ASSUME NEW s, NEW stack, NEW open, Nested(s, stack, open), open # <<>>,
         Last(open).done = Len(Last(open).items)
  PROVE  /\ Nested(s, Front(stack), Front(open)) /\ More(Front(open))
         /\ Current(s, Front(open)) = <<"array", Last(stack)>>
<1> DEFINE n == Len(open)
           o == Front(open)
           t == Front(stack)
<1>1. IsSeq(stack) /\ IsSeq(open) /\ Len(stack) = n /\ n \in Nat \ {0} /\ stack # <<>>
  BY NestedLengths DEF Nested
<1>2. Last(open) = open[n] /\ IsSeq(o) /\ Len(o) = n - 1 /\ \A i \in 1..(n - 1) : o[i] = open[i]
  BY <1>1, Fronted
<1>3. Last(stack) = stack[n] /\ IsSeq(t) /\ Len(t) = n - 1 /\ \A i \in 1..(n - 1) : t[i] = stack[i]
  BY <1>1, Fronted
<1>4. stack[n] = open[n].items
  <2>1. AtLevel(open[n], stack[n])
    BY <1>1 DEF Nested
  <2> QED
    BY <1>2, <2>1, Beginnings DEF AtLevel
<1>5. Slot(s, open, n - 1) = <<"array", Last(stack)>>
  BY <1>1, <1>3, <1>4 DEF Nested
<1> HIDE DEF o, t
<1>6. \A j \in 1..(n - 1) : Slot(s, o, j - 1) = Slot(s, open, j - 1)
  BY <1>1, <1>2 DEF Slot
<1>7. Nested(s, t, o)
  <2>1. \A j \in 1..(n - 1) : AtLevel(o[j], t[j])
    BY <1>1, <1>2, <1>3 DEF Nested
  <2>2. \A j \in 1..((n - 1) - 1) : Opens(o[j])
    BY <1>1, <1>2 DEF Nested
  <2>3. \A j \in 1..(n - 1) : Slot(s, o, j - 1) = <<"array", o[j].items>>
    BY <1>1, <1>2, <1>6 DEF Nested
  <2> HIDE DEF n
  <2> QED
    BY <1>2, <1>3, <2>1, <2>2, <2>3 DEF Nested
<1>8. More(o) /\ Current(s, o) = Slot(s, open, n - 1)
  <2>1. CASE n = 1
    <3>1. o = <<>>
      BY <1>2, <2>1, EmptySeq DEF IsSeq
    <3> QED
      BY <2>1, <3>1 DEF More, Current, Slot
  <2>2. CASE n # 1
    <3>1. n - 1 \in 1..(n - 1) /\ n - 1 # 0
      BY <1>1, <2>2
    <3>2. o # <<>>
      BY <1>2, <3>1, EmptySeq DEF IsSeq
    <3>3. Last(o) = open[n - 1]
      BY <1>2, <3>1, <3>2, Fronted, SMTT(30), ZenonT(30)
    <3>4. Opens(open[n - 1])
      BY <3>1 DEF Nested
    <3> QED
      BY <3>1, <3>2, <3>3, <3>4 DEF More, Current, Slot, Opens
  <2> QED
    BY <2>1, <2>2
<1> QED
  BY <1>5, <1>7, <1>8 DEF o, t

-------------------------------------------------------------------------------
(* Steps that the reader takes with the writing. *)

(* The reader is where the writing is. *)
Together(s, c) ==
  /\ Parser(p) /\ Sayable(s)
  /\ Agrees(p, s, c, sym) /\ Live(s, c, sym)
  /\ source # <<>> => sym # "eof"

(* And it still is after a step. *)
Follows(s, c) ==
  \/ /\ Took
     /\ \A y : Agrees(p', s, After(s, c, sym), y)
     /\ Owed(p', s, After(s, c, sym).at) = Owed(p, s, c.at)
  \/ /\ Went
     /\ Agrees(p', s, c, sym)
     /\ Owed(p', s, c.at) = Owed(p, s, c.at)

LEMMA Arrives ==
  ASSUME NEW q, NEW s, NEW c, NEW y
  PROVE  /\ q.mode = "statement" /\ AtStatement(q, c, y) => Agrees(q, s, c, y)
         /\ q.mode = "header" /\ AtHeader(q, s, c) => Agrees(q, s, c, y)
         /\ q.mode = "key" /\ AtKey(q, s, c, y) => Agrees(q, s, c, y)
         /\ q.mode = "bare" /\ AtBare(q, s, c, y) => Agrees(q, s, c, y)
         /\ q.mode = "afterPart" /\ AtAfterPart(q, s, c) => Agrees(q, s, c, y)
         /\ q.mode = "equals" /\ s.kind = "key" /\ AtKeyEnd(q, s, c, y) => Agrees(q, s, c, y)
         /\ q.mode = "close" /\ s.kind # "key" /\ AtKeyEnd(q, s, c, y) => Agrees(q, s, c, y)
         /\ q.mode = "closeArray" /\ q.stmt = s /\ c = Phase("close") => Agrees(q, s, c, y)
         /\ q.mode = "afterEquals" /\ WithinValue(q, s, <<>>) /\ c = Phase("value") => Agrees(q, s, c, y)
         /\ q.mode = "value" /\ WithinValue(q, s, c.open) /\ BeforeValue(c, y) => Agrees(q, s, c, y)
         /\ q.mode \in TextModes /\ AtText(q, s, c) => Agrees(q, s, c, y)
         /\ q.mode = "number" /\ AtNumber(q, s, c, y) => Agrees(q, s, c, y)
         /\ q.mode = "element" /\ AtElement(q, s, c, y, "element", "elementRemark") => Agrees(q, s, c, y)
         /\ q.mode = "afterElement" /\ AtElement(q, s, c, y, "afterElement", "itemRemark")
              => Agrees(q, s, c, y)
         /\ q.mode = "lineEnd" /\ q.stmt = s /\ c = Phase("lineEnd") => Agrees(q, s, c, y)
         /\ q.mode = "carriageReturn" /\ (c = Phase("start") \/ (q.stmt = s /\ c = Phase("return")))
              => Agrees(q, s, c, y)
         /\ q.mode = "apply" /\ AtApply(q, s, c, y) => Agrees(q, s, c, y)
         /\ q.mode \in {"end", "conflict"} => Agrees(q, s, c, y)
BY DEF Agrees, TextModes

LEMMA OwedIs ==
  ASSUME NEW q, NEW s, NEW at
  PROVE  /\ q.mode \notin {"end", "statement", "carriageReturn", "apply"} => Owed(q, s, at) = Own(s)
         /\ q.mode = "statement" /\ at \in {"start", "remark"} => Owed(q, s, at) = Own(s)
         /\ q.mode = "statement" /\ at \notin {"start", "remark"} => Owed(q, s, at) = <<>>
         /\ q.mode \in {"carriageReturn", "apply"} /\ at # "start" => Owed(q, s, at) = Own(s)
         /\ q.mode \in {"carriageReturn", "apply"} /\ at = "start"
              => Owed(q, s, at) = <<q.stmt>> \o Own(s)
         /\ q.mode = "end" => Owed(q, s, at) = <<>>
BY DEF Owed

LEMMA StatementOwes ==
  ASSUME NEW q, q.mode = "statement", NEW s
  PROVE  /\ \A at \in {"start", "remark"} : Owed(q, s, at) = Own(s)
         /\ \A at \in {"done", "lastRemark", "return", "lineEnd"} : Owed(q, s, at) = <<>>
BY DEF Owed

LEMMA EndOwes ==
  ASSUME NEW q, NEW s, NEW at, q.mode \in {"carriageReturn", "apply"}, at # "start"
  PROVE  Owed(q, s, at) = Own(s)
BY DEF Owed

LEMMA StartOwes ==
  ASSUME NEW q, NEW s, NEW at, q.mode \in {"carriageReturn", "apply"}, at = "start"
  PROVE  Owed(q, s, at) = <<q.stmt>> \o Own(s)
BY DEF Owed

LEMMA OtherwiseOwes ==
  ASSUME NEW q, q.mode \notin {"end", "statement", "carriageReturn", "apply"}, NEW s, NEW at
  PROVE  Owed(q, s, at) = Own(s)
BY DEF Owed

LEMMA PhaseFields ==
  \A at : Phase(at) = Place(at, 0, 0, <<>>) /\ Phase(at).at = at /\ Phase(at).open = <<>>
BY PlaceFields DEF Phase

LEMMA FollowsBlank ==
  ASSUME NEW s, NEW c, Together(s, c), SkipBlank
  PROVE  Follows(s, c)
<1> DEFINE d == After(s, c, sym)
<1>1. /\ DOMAIN p = Fields /\ ~p.comment
      /\ p.mode \in {"statement", "element", "afterElement"}
      /\ Agrees(p, s, c, sym) /\ Live(s, c, sym)
  BY DEF SkipBlank, At, Together, Parser
<1>2. Took /\ sym # "eof" /\ d # Nowhere
  BY <1>1, TakesTook DEF SkipBlank, Took, Together, Live
<1>3. /\ p'.mode = p.mode /\ p'.stmt = p.stmt /\ p'.open = p.open
      /\ \/ sym \in Blank /\ ~p'.comment
         \/ sym = "#" /\ p'.comment
  BY <1>1, Takes DEF SkipBlank, Skip, Becomes
<1>4. CASE p.mode = "statement"
  <2>1. AtStatement(p, c, sym)
    BY <1>1, <1>4 DEF Agrees
  <2>2. CASE c = Phase("start")
    <3>1. \/ sym \in Blank /\ d = Phase("start")
          \/ sym = "#" /\ d = Phase("remark")
      BY <1>2, <1>3, <2>2, FromStart DEF Blank
    <3>2. d.at \in {"start", "remark"} /\ c.at = "start"
      BY <2>2, <3>1, PhaseFields
    <3> HIDE DEF d
    <3>3. \A y : AtStatement(p', d, y)
      BY <1>3, <3>1 DEF AtStatement, Blank
    <3>4. \A y : Agrees(p', s, d, y)
      BY <1>3, <1>4, <3>3, Arrives
    <3>5. Owed(p, s, c.at) = Own(s)
      BY <1>4, <3>2, StatementOwes
    <3>6. p'.mode = "statement"
      BY <1>3, <1>4
    <3>7. Owed(p', s, d.at) = Own(s)
      BY <3>2, <3>6, StatementOwes
    <3> QED
      BY <1>2, <3>4, <3>5, <3>7 DEF Follows, d
  <2>3. CASE c # Phase("start")
    <3>1. sym = "nl"
      BY <1>1, <1>2, <1>3, <2>1, <2>3, FromClose DEF AtStatement, Break, Blank
    <3>2. \/ c = Phase("remark") /\ d = Phase("start")
          \/ c \in {Phase("lastRemark"), Phase("return"), Phase("lineEnd")} /\ d = Phase("done")
      BY <1>1, <1>2, <2>1, <2>3, <3>1, FromClose, FromRemarks, FromLineEnd, PhaseFields DEF AtStatement
    <3>3. \/ d.at = "start" /\ c.at = "remark"
          \/ d.at = "done" /\ c.at \in {"lastRemark", "return", "lineEnd"}
      BY <3>2, PhaseFields
    <3> HIDE DEF d
    <3>4. \A y : AtStatement(p', d, y)
      BY <1>3, <3>1, <3>2 DEF AtStatement
    <3>5. \A y : Agrees(p', s, d, y)
      BY <1>3, <1>4, <3>4, Arrives
    <3>6. p'.mode = "statement"
      BY <1>3, <1>4
    <3>7. CASE d.at = "start" /\ c.at = "remark"
      <4>1. Owed(p, s, c.at) = Own(s)
        BY <1>4, <3>7, StatementOwes
      <4>2. Owed(p', s, d.at) = Own(s)
        BY <3>6, <3>7, StatementOwes
      <4> QED
        BY <1>2, <3>5, <4>1, <4>2 DEF Follows, d
    <3>8. CASE d.at = "done" /\ c.at \in {"lastRemark", "return", "lineEnd"}
      <4>1. Owed(p, s, c.at) = <<>>
        BY <1>4, <3>8, StatementOwes
      <4>2. Owed(p', s, d.at) = <<>>
        BY <3>6, <3>8, StatementOwes
      <4> QED
        BY <1>2, <3>5, <4>1, <4>2 DEF Follows, d
    <3> QED
      BY <3>3, <3>7, <3>8
  <2> QED
    BY <2>2, <2>3
<1>5. ASSUME NEW remark, <<p.mode, remark>> \in {<<"element", "elementRemark">>, <<"afterElement", "itemRemark">>},
             AtElement(p, s, c, sym, p.mode, remark)
      PROVE  Follows(s, c)
  <2> DEFINE o == c.open
  <2>1. WithinValue(p', s, o) /\ o # <<>>
    BY <1>3, <1>5 DEF AtElement, WithinValue
  <2>2. \/ c = Place(p.mode, 0, 0, o)
        \/ c = Place(remark, 0, 0, o) /\ sym \in Break
    BY <1>1, <1>5 DEF AtElement
  <2> HIDE DEF o
  <2>3. \/ sym \in Blank /\ d = Place(p.mode, 0, 0, o)
        \/ sym = "#" /\ d = Place(remark, 0, 0, o)
    BY <1>2, <1>3, <1>5, <2>2, FromElement, FromItem, FromRemarks DEF Break, Blank
  <2> HIDE DEF d
  <2>4. d.open = o
    BY <2>3, PlaceFields
  <2>5. \A y : AtElement(p', s, d, y, p.mode, remark)
    BY <1>3, <2>1, <2>3, <2>4 DEF AtElement, Blank
  <2>6. \A y : Agrees(p', s, d, y)
    BY <1>3, <1>5, <2>5, Arrives
  <2>7. Owed(p', s, d.at) = Owed(p, s, c.at)
    BY <1>3, <1>5, OwedIs
  <2> QED
    BY <1>2, <2>6, <2>7 DEF Follows, d
<1>6. CASE p.mode = "element"
  BY <1>1, <1>5, <1>6 DEF Agrees
<1>7. CASE p.mode = "afterElement"
  BY <1>1, <1>5, <1>7 DEF Agrees
<1> QED
  BY <1>1, <1>4, <1>6, <1>7

LEMMA FollowsComment ==
  ASSUME NEW s, NEW c, Together(s, c), Comment
  PROVE  Follows(s, c)
<1> DEFINE d == After(s, c, sym)
<1>1. /\ DOMAIN p = Fields /\ p.comment
      /\ p.mode \in {"statement", "element", "afterElement", "apply"}
      /\ Agrees(p, s, c, sym) /\ Live(s, c, sym)
  BY DEF Comment, Together, Parser
<1>2. /\ p'.mode = p.mode /\ p'.stmt = p.stmt /\ p'.open = p.open
      /\ \/ sym \notin Break /\ p'.comment /\ Took /\ d # Nowhere
         \/ sym \in Break /\ ~p'.comment /\ Went
  BY <1>1, Takes, TakesTook, GoesOn, GoesWent DEF Comment, Skip, Becomes, Live, Break
<1>3. \/ /\ p.mode = "statement" /\ c = Phase("remark")
      \/ /\ p.mode = "apply" /\ c = Phase("lastRemark") /\ p.stmt = s
      \/ /\ p.mode = "element" /\ c = Place("elementRemark", 0, 0, c.open)
         /\ WithinValue(p, s, c.open) /\ c.open # <<>>
      \/ /\ p.mode = "afterElement" /\ c = Place("itemRemark", 0, 0, c.open)
         /\ WithinValue(p, s, c.open) /\ c.open # <<>>
  BY <1>1 DEF Agrees, AtStatement, AtElement, AtApply
<1>4. sym \notin Break => d = c
  BY <1>3, FromRemarks, PhaseFields DEF Break
<1>5. \A y : p'.comment \/ y \in Break => Agrees(p', s, c, y)
  <2>1. WithinValue(p, s, c.open) => WithinValue(p', s, c.open)
    BY <1>2 DEF WithinValue
  <2>2. \A y : p'.comment \/ y \in Break =>
           \/ p'.mode = "statement" /\ AtStatement(p', c, y)
           \/ p'.mode = "apply" /\ AtApply(p', s, c, y)
           \/ p'.mode = "element" /\ AtElement(p', s, c, y, "element", "elementRemark")
           \/ p'.mode = "afterElement" /\ AtElement(p', s, c, y, "afterElement", "itemRemark")
    BY <1>2, <1>3, <2>1 DEF AtStatement, AtElement, AtApply
  <2> QED
    BY <2>2, Arrives
<1>6. Owed(p', s, c.at) = Owed(p, s, c.at)
  BY <1>2 DEF Owed
<1> HIDE DEF d
<1> QED
  BY <1>2, <1>4, <1>5, <1>6 DEF Follows, d

(* In all other modes there is only the statement itself to be read. *)
LEMMA OwesItself ==
  ASSUME NEW s, NEW c, NEW d,
         \/ p.mode \notin {"end", "statement", "carriageReturn", "apply"}
         \/ p.mode = "statement" /\ c.at = "start",
         p'.mode \notin {"end", "statement", "carriageReturn", "apply"}
  PROVE  Owed(p', s, d.at) = Owed(p, s, c.at)
<1>1. Owed(p', s, d.at) = Own(s)
  BY OtherwiseOwes
<1>2. CASE p.mode \notin {"end", "statement", "carriageReturn", "apply"}
  BY <1>1, <1>2, OtherwiseOwes
<1>3. CASE p.mode = "statement" /\ c.at = "start"
  BY <1>1, <1>3, StatementOwes
<1> QED
  BY <1>2, <1>3

LEMMA StemFields ==
  ASSUME NEW s, NEW n
  PROVE  Stem(s, n).kind = s.kind /\ Stem(s, n).path = SubSeq(s.path, 1, n) /\ Stem(s, n).value = <<>>
BY DEF Stem, Statement

LEMMA Spoken ==
  ASSUME NEW s, Sayable(s), s.kind \in Kinds \/ s.path # <<>> \/ (\E n : n \in DOMAIN s.path)
  PROVE  /\ s = Statement(s.kind, s.path, s.value) /\ s.kind \in Kinds
         /\ IsSeq(s.path) /\ s.path # <<>>
         /\ \A n \in DOMAIN s.path : IsSeq(s.path[n])
         /\ s.kind # "key" => s.value = <<>>
         /\ Len(s.path) \in Nat \ {0} /\ DOMAIN s.path = 1..Len(s.path)
<1>1. s # Nothing
  <2>1. Nothing.kind = "" /\ Nothing.path = <<>>
    BY DEF Nothing, Statement
  <2> QED
    BY <2>1, EmptyList DEF Kinds
<1>2. /\ s = Statement(s.kind, s.path, s.value) /\ s.kind \in Kinds
      /\ IsSeq(s.path) /\ s.path # <<>>
      /\ \A n \in DOMAIN s.path : IsSeq(s.path[n])
      /\ s.kind # "key" => s.value = <<>>
  BY <1>1 DEF Sayable, IsSeq, Kinds
<1>3. Len(s.path) # 0
  BY <1>2, EmptySeq DEF IsSeq
<1> QED
  BY <1>2, <1>3, SeqFacts

(* How a key begins. *)
LEMMA FirstPart ==
  ASSUME NEW s, Sayable(s), s.kind \in Kinds
  PROVE  1 \in DOMAIN s.path /\ Statement(s.kind, <<>>, <<>>) = Stem(s, 1 - 1)
<1>1. IsSeq(s.path) /\ Len(s.path) \in Nat \ {0} /\ DOMAIN s.path = 1..Len(s.path)
  BY Spoken
<1>2. SubSeq(s.path, 1, 0) = <<>>
  BY <1>1, Beginnings
<1>3. Stem(s, 0) = Statement(s.kind, <<>>, <<>>)
  BY <1>2 DEF Stem
<1>4. 1 - 1 = 0 /\ 1 \in DOMAIN s.path
  BY <1>1
<1> QED
  BY <1>3, <1>4

LEMMA FollowsStatement ==
  ASSUME NEW s, NEW c, Together(s, c), ParseStatement
  PROVE  Follows(s, c)
<1> DEFINE d == After(s, c, sym)
<1>1. /\ DOMAIN p = Fields /\ p.mode = "statement" /\ ~p.comment
      /\ AtStatement(p, c, sym) /\ Live(s, c, sym) /\ Sayable(s)
      /\ sym \notin Blank \union {"#"}
  BY DEF ParseStatement, At, Together, Parser, Agrees
<1>2. CASE sym = "eof"
  <2>1. Went /\ p'.mode = "end"
    BY <1>1, <1>2, GoesOn, GoesWent DEF ParseStatement, Becomes
  <2>2. Agrees(p', s, c, sym)
    BY <2>1, Arrives
  <2>3. c.at \in {"start", "remark"} => s = Nothing
    BY <1>1, <1>2 DEF Live, Finished
  <2>4. Owed(p', s, c.at) = Owed(p, s, c.at)
    BY <1>1, <2>1, <2>3, OwedIs DEF Own
  <2> QED
    BY <2>1, <2>2, <2>4 DEF Follows
<1>3. CASE sym # "eof"
  <2>1. d # Nowhere
    BY <1>1, <1>3 DEF Live
  <2>2. c = Phase("start") /\ c.at = "start"
    BY <1>1, <1>3, <2>1, FromClose, PhaseFields DEF AtStatement, Break, Blank
  <2>3. \/ sym = "[" /\ s.kind = "table" /\ d = Place("key", 1, 0, <<>>)
        \/ sym = "[" /\ s.kind = "array" /\ d = Phase("header")
        \/ sym # "[" /\ s.kind = "key" /\ d = BeginPart(s, 1, sym)
    BY <1>1, <1>3, <2>1, <2>2, FromStart
  <2>4. s.kind \in Kinds
    BY <2>3 DEF Kinds
  <2>5. CASE sym = "["
    <3>1. Took /\ p'.mode = "header" /\ p'.stmt = Statement("table", <<>>, <<>>)
      BY <1>1, <1>3, <2>5, Takes, TakesTook DEF ParseStatement, Becomes
    <3> HIDE DEF d
    <3>2. AtHeader(p', s, d)
      BY <2>3, <2>5, <3>1 DEF AtHeader
    <3>3. \A y : Agrees(p', s, d, y)
      BY <3>1, <3>2, Arrives
    <3>4. Owed(p', s, d.at) = Owed(p, s, c.at)
      BY <1>1, <2>2, <3>1, OwesItself
    <3> QED
      BY <3>1, <3>3, <3>4 DEF Follows, d
  <2>6. CASE sym # "["
    <3>1. Went /\ p'.mode = "key" /\ p'.stmt = Statement("key", <<>>, <<>>)
      BY <1>1, <1>3, <2>6, GoesOn, GoesWent DEF ParseStatement, Becomes
    <3>2. s.kind = "key" /\ p'.stmt = Stem(s, 1 - 1) /\ 1 \in DOMAIN s.path
      BY <1>1, <2>3, <2>4, <2>6, <3>1, FirstPart
    <3>3. BeforePart(s, c, sym, 1)
      BY <1>1, <2>2, <2>6, <3>2 DEF BeforePart
    <3>4. AtKey(p', s, c, sym)
      BY <3>2, <3>3 DEF AtKey
    <3>5. Agrees(p', s, c, sym)
      BY <3>1, <3>4, Arrives
    <3>6. Owed(p', s, c.at) = Owed(p, s, c.at)
      BY <1>1, <2>2, <3>1, OwesItself
    <3> QED
      BY <3>1, <3>5, <3>6 DEF Follows
  <2> QED
    BY <2>5, <2>6
<1> QED
  BY <1>2, <1>3

LEMMA FollowsHeader ==
  ASSUME NEW s, NEW c, Together(s, c), ParseTableHeader
  PROVE  Follows(s, c)
<1> DEFINE d == After(s, c, sym)
<1>1. /\ DOMAIN p = Fields /\ p.mode = "header" /\ ~p.comment
      /\ AtHeader(p, s, c) /\ Live(s, c, sym) /\ Sayable(s)
  BY DEF ParseTableHeader, At, Together, Parser, Agrees
<1>2. sym # "eof" /\ d # Nowhere /\ s.kind \in Kinds
  BY <1>1, PhaseFields, PlaceFields DEF Live, Finished, AtHeader, Kinds
<1>3. 1 \in DOMAIN s.path /\ Statement(s.kind, <<>>, <<>>) = Stem(s, 1 - 1)
  BY <1>1, <1>2, FirstPart
<1>4. CASE s.kind = "array"
  <2>1. sym = "[" /\ d = Place("key", 1, 0, <<>>)
    BY <1>1, <1>2, <1>4, FromClose DEF AtHeader
  <2> DEFINE t == [p.stmt EXCEPT !.kind = "array"]
  <2>2. t = Statement("array", <<>>, <<>>)
    BY <1>1 DEF AtHeader, Statement
  <2>3. Took /\ p'.mode = "key" /\ p'.stmt = t
    BY <1>1, <2>1, Takes, TakesTook DEF ParseTableHeader, Becomes
  <2> HIDE DEF d, t
  <2>4. \A y : AtKey(p', s, d, y)
    BY <1>3, <1>4, <2>1, <2>2, <2>3 DEF AtKey, BeforePart
  <2>5. \A y : Agrees(p', s, d, y)
    BY <2>3, <2>4, Arrives
  <2>6. Owed(p', s, d.at) = Owed(p, s, c.at)
    BY <1>1, <2>3, OwesItself
  <2> QED
    BY <2>3, <2>5, <2>6 DEF Follows, d
<1>5. CASE s.kind # "array"
  <2>1. s.kind = "table" /\ c = Place("key", 1, 0, <<>>)
    BY <1>1, <1>5 DEF AtHeader
  <2>2. d = IF sym = "sp" THEN c ELSE BeginPart(s, 1, sym)
    BY <2>1, PlaceFields DEF After
  <2>3. sym # "["
    BY <1>2, <2>2, FromPart DEF BareChars
  <2>4. Went /\ p'.mode = "key" /\ p'.stmt = p.stmt
    BY <1>1, <2>3, GoesOn, GoesWent DEF ParseTableHeader, Becomes
  <2>5. AtKey(p', s, c, sym)
    BY <1>1, <1>3, <2>1, <2>4 DEF AtKey, BeforePart, AtHeader
  <2>6. Agrees(p', s, c, sym)
    BY <2>4, <2>5, Arrives
  <2>7. Owed(p', s, c.at) = Owed(p, s, c.at)
    BY <1>1, <2>4, OwesItself
  <2> QED
    BY <2>4, <2>6, <2>7 DEF Follows
<1> QED
  BY <1>4, <1>5

(* The whole key is read. *)
LEMMA WholeStem ==
  ASSUME NEW s, Sayable(s), s.kind \in Kinds
  PROVE  /\ Stem(s, Len(s.path)) = Statement(s.kind, s.path, <<>>)
         /\ s.kind # "key" => Stem(s, Len(s.path)) = s
<1>1. /\ IsSeq(s.path) /\ s = Statement(s.kind, s.path, s.value)
      /\ s.kind # "key" => s.value = <<>>
  BY Spoken
<1>2. SubSeq(s.path, 1, Len(s.path)) = s.path
  BY <1>1, Beginnings
<1> QED
  BY <1>1, <1>2 DEF Stem

LEMMA FollowsClose ==
  ASSUME NEW s, NEW c, Together(s, c), CloseHeader
  PROVE  Follows(s, c)
<1> DEFINE d == After(s, c, sym)
<1>1. /\ DOMAIN p = Fields /\ p.mode \in {"close", "closeArray"} /\ ~p.comment
      /\ Agrees(p, s, c, sym) /\ Live(s, c, sym) /\ Sayable(s)
      /\ p.stmt.kind \in Kinds /\ p.stmt.kind # "key"
  BY DEF CloseHeader, At, Together, Parser, InKey, KeyModes
<1>2. CASE p.mode = "close"
  <2>1. AtKeyEnd(p, s, c, sym)
    BY <1>1, <1>2 DEF Agrees
  <2>2. p.stmt.kind = s.kind /\ p.stmt = s
    BY <1>1, <2>1, StemFields, WholeStem DEF AtKeyEnd
  <2>3. sym # "eof" /\ d # Nowhere
    BY <1>1, <2>1, PlaceFields DEF Live, Finished, AtKeyEnd, PartDone
  <2>4. sym = "]" /\ d = IF s.kind = "array" THEN Phase("close") ELSE Phase("lineEnd")
    BY <1>1, <2>1, <2>2, <2>3, FromEndPart DEF AtKeyEnd
  <2>5. Took /\ p'.stmt = p.stmt /\ p'.mode = IF s.kind = "array" THEN "closeArray" ELSE "lineEnd"
    BY <1>1, <1>2, <2>2, <2>4, Takes, TakesTook DEF CloseHeader, At, Becomes
  <2> HIDE DEF d
  <2>6. \A y : Agrees(p', s, d, y)
    BY <2>2, <2>4, <2>5, Arrives
  <2>7. Owed(p', s, d.at) = Owed(p, s, c.at)
    BY <1>1, <1>2, <2>5, OwesItself
  <2> QED
    BY <2>5, <2>6, <2>7 DEF Follows, d
<1>3. CASE p.mode = "closeArray"
  <2>1. p.stmt = s /\ c = Phase("close")
    BY <1>1, <1>3 DEF Agrees
  <2>2. sym # "eof" /\ d # Nowhere
    BY <1>1, <2>1, PhaseFields DEF Live, Finished
  <2>3. sym = "]" /\ d = Phase("lineEnd")
    BY <2>1, <2>2, FromClose
  <2>4. Took /\ p'.stmt = p.stmt /\ p'.mode = "lineEnd"
    BY <1>1, <1>3, <2>3, Takes, TakesTook DEF CloseHeader, At, Becomes
  <2> HIDE DEF d
  <2>5. \A y : Agrees(p', s, d, y)
    BY <2>1, <2>3, <2>4, Arrives
  <2>6. Owed(p', s, d.at) = Owed(p, s, c.at)
    BY <1>1, <1>3, <2>4, OwesItself
  <2> QED
    BY <2>4, <2>5, <2>6 DEF Follows, d
<1> QED
  BY <1>1, <1>2, <1>3

LEMMA AnyPart ==
  ASSUME NEW s, NEW c, NEW y, NEW n, BeforePart(s, c, y, n), Live(s, c, y), Sayable(s), n \in DOMAIN s.path
  PROVE  /\ y # "eof" /\ After(s, c, y) # Nowhere
         /\ After(s, c, y) = IF y = "sp" THEN c ELSE BeginPart(s, n, y)
         /\ y = "sp" => c = Place("key", n, 0, <<>>)
<1>1. CASE c = Place("key", n, 0, <<>>)
  <2>1. c.at = "key" /\ c.part = n
    BY <1>1, PlaceFields
  <2>2. y # "eof" /\ After(s, c, y) # Nowhere
    BY <2>1 DEF Live, Finished
  <2>3. After(s, c, y) = IF y = "sp" THEN c ELSE BeginPart(s, n, y)
    BY <2>1 DEF After
  <2> QED
    BY <1>1, <2>2, <2>3
<1>2. CASE c # Place("key", n, 0, <<>>)
  <2>1. c = Phase("start") /\ n = 1 /\ s.kind = "key" /\ y \notin Blank \union {"#", "["}
    BY <1>2 DEF BeforePart
  <2>2. s # Nothing
    <3>1. Nothing.kind = ""
      BY DEF Nothing, Statement
    <3> QED
      BY <2>1, <3>1
  <2>3. y # "eof" /\ After(s, c, y) # Nowhere
    BY <2>1, <2>2, PhaseFields DEF Live, Finished
  <2>4. After(s, c, y) = BeginPart(s, 1, y)
    BY <2>1, <2>3, FromStart
  <2> QED
    BY <2>1, <2>3, <2>4 DEF Blank
<1> QED
  BY <1>1, <1>2

LEMMA InBareIs ==
  ASSUME NEW s, NEW n, NEW k, NEW q, NEW y, n \in DOMAIN s.path, IsSeq(s.path[n]),
         k \in 1..Len(s.path[n]), q.stmt = Stem(s, n - 1), q.buf = SubSeq(s.path[n], 1, k)
  PROVE  AtBare(q, s, InBare(s, n, k), y)
<1>1. CASE k = Len(s.path[n])
  <2>1. q.buf = s.path[n]
    BY <1>1, Beginnings
  <2> QED
    BY <1>1, <2>1 DEF InBare, AtBare
<1>2. CASE k # Len(s.path[n])
  <2>1. k \in 1..(Len(s.path[n]) - 1)
    BY <1>2, SeqFacts
  <2> QED
    BY <1>2, <2>1 DEF InBare, AtBare
<1> QED
  BY <1>1, <1>2

LEMMA FollowsKeyPath ==
  ASSUME NEW s, NEW c, Together(s, c), ParseKeyPath
  PROVE  Follows(s, c)
<1> DEFINE d == After(s, c, sym)
<1>1. /\ DOMAIN p = Fields /\ p.mode = "key" /\ ~p.comment /\ p.within = "key"
      /\ AtKey(p, s, c, sym) /\ Live(s, c, sym) /\ Sayable(s)
  BY DEF ParseKeyPath, At, Together, Parser, Agrees, InKey, KeyModes
<1>2. PICK n \in DOMAIN s.path : p.stmt = Stem(s, n - 1) /\ BeforePart(s, c, sym, n)
  BY <1>1 DEF AtKey
<1>3. /\ sym # "eof" /\ d # Nowhere
      /\ d = IF sym = "sp" THEN c ELSE BeginPart(s, n, sym)
      /\ sym = "sp" => c = Place("key", n, 0, <<>>)
  BY <1>1, <1>2, AnyPart
<1>4. CASE sym = "sp"
  <2>1. Took /\ p'.mode = "key" /\ p'.stmt = p.stmt
    BY <1>1, <1>4, Takes, TakesTook DEF ParseKeyPath, Skip, Becomes, BareChars
  <2> HIDE DEF d
  <2>2. \A y : AtKey(p', s, d, y)
    BY <1>2, <1>3, <1>4, <2>1 DEF AtKey, BeforePart
  <2>3. \A y : Agrees(p', s, d, y)
    BY <2>1, <2>2, Arrives
  <2>4. Owed(p', s, d.at) = Owed(p, s, c.at)
    BY <1>1, <2>1, OwesItself
  <2> QED
    BY <2>1, <2>3, <2>4 DEF Follows, d
<1>5. ASSUME NEW m, <<sym, m>> \in {<<"dq", "basic">>, <<"sq", "literal">>} PROVE Follows(s, c)
  <2>1. d = Place(m, n, 0, <<>>)
    BY <1>3, <1>5, FromPart DEF BareChars
  <2>2. Took /\ p'.mode = m /\ p'.stmt = p.stmt /\ p'.within = "key" /\ p'.buf = <<>>
    BY <1>1, <1>5, Takes, TakesTook DEF ParseKeyPath, Becomes, BareChars
  <2> HIDE DEF d
  <2>3. d.part = n /\ d.char = 0 /\ d.open = <<>> /\ d.at = m
    BY <2>1, PlaceFields
  <2>4. IsSeq(s.path[n]) /\ n # 0
    BY <1>1, Spoken
  <2>5. Text(s, d) = s.path[n] /\ Len(s.path[n]) \in Nat /\ SubSeq(s.path[n], 1, 0) = <<>>
    BY <2>3, <2>4, SeqFacts, Beginnings DEF Text
  <2>6. AtText(p', s, d)
    BY <1>2, <2>1, <2>2, <2>3, <2>5 DEF AtText
  <2>7. \A y : Agrees(p', s, d, y)
    BY <1>5, <2>2, <2>6, Arrives DEF TextModes
  <2>8. Owed(p', s, d.at) = Owed(p, s, c.at)
    BY <1>1, <1>5, <2>2, OwesItself
  <2> QED
    BY <2>2, <2>7, <2>8 DEF Follows, d
<1>6. CASE sym \in BareChars
  <2>1. Went /\ p'.mode = "bare" /\ p'.stmt = p.stmt /\ p'.buf = <<>>
    BY <1>1, <1>6, GoesOn, GoesWent DEF ParseKeyPath, Becomes, BareChars
  <2>2. AtBare(p', s, c, sym)
    BY <1>2, <1>6, <2>1 DEF AtBare
  <2>3. Agrees(p', s, c, sym)
    BY <2>1, <2>2, Arrives
  <2>4. Owed(p', s, c.at) = Owed(p, s, c.at)
    BY <1>1, <2>1, OwesItself
  <2> QED
    BY <2>1, <2>3, <2>4 DEF Follows
<1> QED
  BY <1>3, <1>4, <1>5, <1>6, FromPart

(* A part of the key is added to the statement. *)
LEMMA StemLonger ==
  ASSUME NEW s, Sayable(s), NEW n \in DOMAIN s.path, NEW t, t = Stem(s, n - 1)
  PROVE  [t EXCEPT !.path = Append(@, s.path[n])] = Stem(s, n)
<1>1. IsSeq(s.path) /\ DOMAIN s.path = 1..Len(s.path) /\ Len(s.path) \in Nat \ {0}
  BY Spoken
<1>2. n - 1 \in 0..(Len(s.path) - 1) /\ (n - 1) + 1 = n
  BY <1>1
<1>3. SubSeq(s.path, 1, n) = Append(SubSeq(s.path, 1, n - 1), s.path[n])
  BY <1>1, <1>2, Beginnings, SMTT(30), ZenonT(30)
<1> DEFINE a == SubSeq(s.path, 1, n - 1)
           b == SubSeq(s.path, 1, n)
           x == s.path[n]
           k == s.kind
<1>4. t = [kind |-> k, path |-> a, value |-> <<>>] /\ b = Append(a, x)
  BY <1>3 DEF Stem, Statement
<1> HIDE DEF a, b, x, k
<1> DEFINE longer == Append(a, x)
<1>5. [t EXCEPT !.path = Append(@, x)] = [kind |-> k, path |-> b, value |-> <<>>]
  <2>1. b = longer
    BY <1>4
  <2>2. t.path = a
    BY <1>4
  <2>3. [t EXCEPT !.path = Append(@, x)] = [t EXCEPT !.path = longer]
    BY <2>2
  <2> HIDE DEF longer
  <2>4. [t EXCEPT !.path = longer] = [kind |-> k, path |-> longer, value |-> <<>>]
    BY <1>4
  <2> QED
    BY <2>1, <2>3, <2>4
<1> QED
  BY <1>5 DEF Stem, Statement, b, x, k

LEMMA FollowsBare ==
  ASSUME NEW s, NEW c, Together(s, c), BareKey
  PROVE  Follows(s, c)
<1> DEFINE d == After(s, c, sym)
<1>1. /\ DOMAIN p = Fields /\ p.mode = "bare" /\ ~p.comment
      /\ AtBare(p, s, c, sym) /\ Live(s, c, sym) /\ Sayable(s)
  BY DEF BareKey, At, Together, Parser, Agrees
<1>2. PICK n \in DOMAIN s.path :
        /\ p.stmt = Stem(s, n - 1)
        /\ \/ p.buf = <<>> /\ BeforePart(s, c, sym, n) /\ sym \in BareChars
           \/ \E k \in 1..(Len(s.path[n]) - 1) :
                c = Place("bare", n, k, <<>>) /\ p.buf = SubSeq(s.path[n], 1, k)
           \/ c = PartDone(n) /\ p.buf = s.path[n]
  BY <1>1 DEF AtBare
<1>3. IsSeq(s.path[n]) /\ Len(s.path[n]) \in Nat
  BY <1>1, Spoken, SeqFacts
<1>4. ASSUME NEW k \in 1..Len(s.path[n]), sym \in BareChars, sym = s.path[n][k],
             p.buf = SubSeq(s.path[n], 1, k - 1), d = InBare(s, n, k)
      PROVE  Follows(s, c)
  <2>1. Took /\ p'.mode = "bare" /\ p'.stmt = p.stmt /\ p'.buf = Append(p.buf, sym)
    BY <1>1, <1>4, Takes, TakesTook DEF BareKey, Becomes
  <2>2. p'.buf = SubSeq(s.path[n], 1, k)
    <3>1. k - 1 \in 0..(Len(s.path[n]) - 1) /\ (k - 1) + 1 = k
      BY <1>3
    <3> QED
      BY <1>3, <1>4, <2>1, <3>1, Beginnings
  <2> HIDE DEF d
  <2>3. \A y : AtBare(p', s, d, y)
    BY <1>2, <1>3, <1>4, <2>1, <2>2, InBareIs
  <2>4. \A y : Agrees(p', s, d, y)
    BY <2>1, <2>3, Arrives
  <2>5. Owed(p', s, d.at) = Owed(p, s, c.at)
    BY <1>1, <2>1, OwesItself
  <2> QED
    BY <2>1, <2>4, <2>5 DEF Follows, d
<1>5. CASE p.buf = <<>> /\ BeforePart(s, c, sym, n) /\ sym \in BareChars
  <2>1. d # Nowhere /\ d = BeginPart(s, n, sym)
    BY <1>1, <1>2, <1>5, AnyPart DEF BareChars
  <2>2. s.path[n] # <<>> /\ sym = s.path[n][1] /\ d = InBare(s, n, 1)
    BY <1>5, <2>1, FromPart DEF BareChars
  <2>3. 1 \in 1..Len(s.path[n])
    BY <1>3, <2>2, EmptySeq DEF IsSeq
  <2>4. p.buf = SubSeq(s.path[n], 1, 1 - 1)
    <3>1. 1 - 1 = 0
      OBVIOUS
    <3> QED
      BY <1>3, <1>5, <3>1, Beginnings
  <2> QED
    BY <1>4, <1>5, <2>2, <2>3, <2>4
<1>6. ASSUME NEW k \in 1..(Len(s.path[n]) - 1), c = Place("bare", n, k, <<>>), p.buf = SubSeq(s.path[n], 1, k)
      PROVE  Follows(s, c)
  <2>1. sym # "eof" /\ d # Nowhere
    BY <1>1, <1>6, PlaceFields DEF Live, Finished
  <2>2. sym \in BareChars /\ sym = s.path[n][k + 1] /\ d = InBare(s, n, k + 1)
    BY <1>6, <2>1, FromBare
  <2>3. k + 1 \in 1..Len(s.path[n]) /\ (k + 1) - 1 = k
    BY <1>3
  <2> QED
    BY <1>4, <1>6, <2>2, <2>3
<1>7. CASE c = PartDone(n) /\ p.buf = s.path[n]
  <2>1. sym # "eof" /\ d # Nowhere
    BY <1>1, <1>7, PlaceFields DEF Live, Finished, PartDone
  <2>2. sym \notin BareChars
    BY <1>7, <2>1, FromEndPart DEF BareChars
  <2>3. Went /\ p'.mode = "afterPart" /\ p'.stmt = [p.stmt EXCEPT !.path = Append(@, p.buf)]
    BY <1>1, <2>2, GoesOn, GoesWent DEF BareKey, Becomes
  <2>4. p'.stmt = Stem(s, n)
    BY <1>1, <1>2, <1>7, <2>3, StemLonger
  <2>5. AtAfterPart(p', s, c)
    BY <1>7, <2>4 DEF AtAfterPart
  <2>6. Agrees(p', s, c, sym)
    BY <2>3, <2>5, Arrives
  <2>7. Owed(p', s, c.at) = Owed(p, s, c.at)
    BY <1>1, <2>3, OwesItself
  <2> QED
    BY <2>3, <2>6, <2>7 DEF Follows
<1> QED
  BY <1>2, <1>5, <1>6, <1>7

LEMMA FollowsAfterPart ==
  ASSUME NEW s, NEW c, Together(s, c), AfterPart
  PROVE  Follows(s, c)
<1> DEFINE d == After(s, c, sym)
<1>1. /\ DOMAIN p = Fields /\ p.mode = "afterPart" /\ ~p.comment
      /\ AtAfterPart(p, s, c) /\ Live(s, c, sym) /\ Sayable(s)
  BY DEF AfterPart, At, Together, Parser, Agrees
<1>2. PICK n \in DOMAIN s.path : p.stmt = Stem(s, n) /\ c = PartDone(n)
  BY <1>1 DEF AtAfterPart
<1>3. sym # "eof" /\ d # Nowhere
  BY <1>1, <1>2, PlaceFields DEF Live, Finished, PartDone
<1>4. \/ sym = "sp" /\ d = PartDone(n)
      \/ sym = "." /\ n # Len(s.path) /\ d = Place("key", n + 1, 0, <<>>)
      \/ sym \in {"=", "]"} /\ n = Len(s.path)
  BY <1>2, <1>3, FromEndPart
<1>5. s.kind \in Kinds /\ p.stmt.kind = s.kind /\ Len(s.path) \in Nat /\ DOMAIN s.path = 1..Len(s.path)
  BY <1>1, <1>2, Spoken, StemFields
<1>6. CASE sym = "sp"
  <2>1. Took /\ p'.mode = "afterPart" /\ p'.stmt = p.stmt
    BY <1>1, <1>6, Takes, TakesTook DEF AfterPart, Skip, Becomes
  <2> HIDE DEF d
  <2>2. \A y : AtAfterPart(p', s, d)
    BY <1>2, <1>4, <1>6, <2>1 DEF AtAfterPart
  <2>3. \A y : Agrees(p', s, d, y)
    BY <2>1, <2>2, Arrives
  <2>4. Owed(p', s, d.at) = Owed(p, s, c.at)
    BY <1>1, <2>1, OwesItself
  <2> QED
    BY <2>1, <2>3, <2>4 DEF Follows, d
<1>7. CASE sym = "."
  <2>1. Took /\ p'.mode = "key" /\ p'.stmt = p.stmt
    BY <1>1, <1>7, Takes, TakesTook DEF AfterPart, Becomes
  <2>2. n + 1 \in DOMAIN s.path /\ (n + 1) - 1 = n
    BY <1>4, <1>5, <1>7
  <2> HIDE DEF d
  <2>3. \A y : AtKey(p', s, d, y)
    BY <1>2, <1>4, <1>7, <2>1, <2>2 DEF AtKey, BeforePart
  <2>4. \A y : Agrees(p', s, d, y)
    BY <2>1, <2>3, Arrives
  <2>5. Owed(p', s, d.at) = Owed(p, s, c.at)
    BY <1>1, <2>1, OwesItself
  <2> QED
    BY <2>1, <2>4, <2>5 DEF Follows, d
<1>8. CASE sym \in {"=", "]"}
  <2>1. Went /\ p'.stmt = p.stmt /\ p'.mode = IF s.kind = "key" THEN "equals" ELSE "close"
    BY <1>1, <1>5, <1>8, GoesOn, GoesWent DEF AfterPart, Becomes
  <2>2. AtKeyEnd(p', s, c, sym)
    BY <1>2, <1>4, <1>8, <2>1 DEF AtKeyEnd
  <2>3. Agrees(p', s, c, sym)
    BY <2>1, <2>2, Arrives
  <2>4. Owed(p', s, c.at) = Owed(p, s, c.at)
    BY <1>1, <2>1, OwesItself
  <2> QED
    BY <2>1, <2>3, <2>4 DEF Follows
<1> QED
  BY <1>4, <1>6, <1>7, <1>8

LEMMA FollowsKeyValue ==
  ASSUME NEW s, NEW c, Together(s, c), ParseKeyValue
  PROVE  Follows(s, c)
<1> DEFINE d == After(s, c, sym)
<1>1. /\ DOMAIN p = Fields /\ p.mode \in {"equals", "afterEquals"} /\ ~p.comment
      /\ Agrees(p, s, c, sym) /\ Live(s, c, sym) /\ Sayable(s)
      /\ p.mode = "equals" => p.open = <<>>
  BY DEF ParseKeyValue, At, Together, Parser, InKey, KeyModes
<1>2. CASE p.mode = "equals"
  <2>1. AtKeyEnd(p, s, c, sym) /\ s.kind = "key" /\ c = PartDone(Len(s.path))
    BY <1>1, <1>2 DEF Agrees, AtKeyEnd
  <2>2. sym # "eof" /\ d # Nowhere
    BY <1>1, <2>1, PlaceFields DEF Live, Finished, PartDone
  <2>3. sym = "=" /\ d = Phase("value")
    BY <2>1, <2>2, FromEndPart DEF AtKeyEnd
  <2>4. Took /\ p'.mode = "afterEquals" /\ p'.stmt = p.stmt /\ p'.open = <<>>
    BY <1>1, <1>2, <2>3, Takes, TakesTook DEF ParseKeyValue, At, Becomes
  <2>5. WithinValue(p', s, <<>>)
    BY <2>1, <2>4, NestedNone DEF WithinValue, AtKeyEnd
  <2> HIDE DEF d
  <2>6. \A y : Agrees(p', s, d, y)
    BY <2>3, <2>4, <2>5, Arrives
  <2>7. Owed(p', s, d.at) = Owed(p, s, c.at)
    BY <1>1, <2>4, OwesItself
  <2> QED
    BY <2>4, <2>6, <2>7 DEF Follows, d
<1>3. CASE p.mode = "afterEquals"
  <2>1. WithinValue(p, s, <<>>) /\ c = Phase("value")
    BY <1>1, <1>3 DEF Agrees
  <2>2. sym # "eof" /\ d # Nowhere
    BY <1>1, <2>1, PhaseFields DEF Live, Finished
  <2>3. CASE sym = "sp"
    <3>1. d = c
      BY <2>1, <2>3, PhaseFields DEF After
    <3>2. Took /\ p'.mode = "afterEquals" /\ p'.stmt = p.stmt /\ p'.open = p.open
      BY <1>1, <1>3, <2>3, Takes, TakesTook DEF ParseKeyValue, Skip, At, Becomes
    <3>3. WithinValue(p', s, <<>>)
      BY <2>1, <3>2 DEF WithinValue
    <3> HIDE DEF d
    <3>4. \A y : Agrees(p', s, d, y)
      BY <2>1, <3>1, <3>2, <3>3, Arrives
    <3>5. Owed(p', s, d.at) = Owed(p, s, c.at)
      BY <1>1, <3>2, OwesItself
    <3> QED
      BY <3>2, <3>4, <3>5 DEF Follows, d
  <2>4. CASE sym # "sp"
    <3>1. Went /\ p'.mode = "value" /\ p'.stmt = p.stmt /\ p'.open = p.open
      BY <1>1, <1>3, <2>4, GoesOn, GoesWent DEF ParseKeyValue, At, Becomes
    <3>2. WithinValue(p', s, c.open) /\ BeforeValue(c, sym)
      BY <2>1, <2>4, <3>1, PhaseFields DEF WithinValue, BeforeValue
    <3>3. Agrees(p', s, c, sym)
      BY <3>1, <3>2, Arrives
    <3>4. Owed(p', s, c.at) = Owed(p, s, c.at)
      BY <1>1, <3>1, OwesItself
    <3> QED
      BY <3>1, <3>3, <3>4 DEF Follows
  <2> QED
    BY <2>3, <2>4
<1> QED
  BY <1>1, <1>2, <1>3

LEMMA ValueDone ==
  ASSUME DOMAIN p = Fields, NEW v, NEW stack, Go(WithValue(v, stack)) \/ Take(WithValue(v, stack))
  PROVE  \/ /\ stack = <<>>
            /\ Becomes(p', "lineEnd", p.comment, p.within, p.buf, [p.stmt EXCEPT !.value = v], stack)
         \/ /\ stack # <<>>
            /\ Becomes(p', "afterElement", p.comment, p.within, p.buf, p.stmt,
                       [stack EXCEPT ![Len(stack)] = Append(@, v)])
<1> DEFINE a == [p.stmt EXCEPT !.value = v]
           b == [stack EXCEPT ![Len(stack)] = Append(@, v)]
<1>1. WithValue(v, stack) = IF stack = <<>> THEN [mode |-> "lineEnd", stmt |-> a, open |-> stack]
                                            ELSE [mode |-> "afterElement", open |-> b]
  BY DEF WithValue
<1> HIDE DEF a, b
<1>2. \/ /\ stack = <<>>
         /\ Becomes(p', "lineEnd", p.comment, p.within, p.buf, a, stack)
      \/ /\ stack # <<>>
         /\ Becomes(p', "afterElement", p.comment, p.within, p.buf, p.stmt, b)
  BY <1>1, Takes, GoesOn
<1> QED
  BY <1>2 DEF a, b

(* A value is read, and it is written. *)
LEMMA ValueAgrees ==
  ASSUME Parser(p), ~p.comment, NEW s, Sayable(s), NEW stack, NEW open,
         s.kind = "key", p.stmt = Stem(s, Len(s.path)), Nested(s, stack, open), More(open),
         NEW v, v = Current(s, open),
         Go(WithValue(v, stack)) \/ Take(WithValue(v, stack))
  PROVE  /\ p'.mode \in {"lineEnd", "afterElement"}
         /\ \A y : Agrees(p', s, AfterValue(open), y)
<1>1. DOMAIN p = Fields /\ Whole(p.stmt)
  BY DEF Parser
<1>2. CASE stack = <<>>
  <2>1. open = <<>>
    BY <1>2, NestedLengths
  <2>2. p'.mode = "lineEnd" /\ p'.stmt = [p.stmt EXCEPT !.value = v]
    BY <1>1, <1>2, ValueDone DEF Becomes
  <2>3. v = s.value
    BY <2>1 DEF Current
  <2>4. p'.stmt = Statement(p.stmt.kind, p.stmt.path, v)
    BY <1>1, <2>2, ValueSet
  <2>5. p'.stmt = s
    <3>1. s = Statement(s.kind, s.path, s.value) /\ IsSeq(s.path)
      BY Spoken DEF Kinds
    <3>2. p.stmt.kind = s.kind /\ p.stmt.path = SubSeq(s.path, 1, Len(s.path))
      BY StemFields
    <3>3. SubSeq(s.path, 1, Len(s.path)) = s.path
      BY <3>1, Beginnings
    <3> QED
      BY <2>3, <2>4, <3>1, <3>2, <3>3
  <2>6. AfterValue(open) = Phase("lineEnd")
    BY <2>1 DEF AfterValue
  <2> QED
    BY <2>2, <2>5, <2>6, Arrives
<1>3. CASE stack # <<>>
  <2> DEFINE o == [open EXCEPT ![Len(open)] = Level(@.items, @.done + 1)]
             t == [stack EXCEPT ![Len(stack)] = Append(@, v)]
  <2>1. open # <<>>
    BY <1>3, NestedLengths
  <2>2. p'.mode = "afterElement" /\ p'.stmt = p.stmt /\ p'.open = t /\ ~p'.comment
    BY <1>1, <1>3, ValueDone DEF Becomes
  <2>3. Nested(s, t, o)
    BY <2>1, NestedItem
  <2>4. o # <<>>
    <3>1. IsSeq(open)
      BY DEF Nested
    <3>2. \A w : [open EXCEPT ![Len(open)] = w] # <<>>
      BY <2>1, <3>1, SeqLastChanged
    <3> QED
      BY <3>2
  <2>5. AfterValue(open) = Place("afterElement", 0, 0, o)
    BY <2>1 DEF AfterValue
  <2> HIDE DEF o, t
  <2>6. WithinValue(p', s, o)
    BY <2>2, <2>3 DEF WithinValue
  <2>7. \A y : AtElement(p', s, Place("afterElement", 0, 0, o), y, "afterElement", "itemRemark")
    BY <2>2, <2>4, <2>6, PlaceFields DEF AtElement
  <2> QED
    BY <2>2, <2>5, <2>7, Arrives
<1> QED
  BY <1>2, <1>3

(* Where a value may begin, and what the writing does there. *)
LEMMA AnyValue ==
  ASSUME NEW s, NEW c, NEW y, BeforeValue(c, y), Live(s, c, y)
  PROVE  /\ y # "eof" /\ BeginValue(s, c.open, y) # Nowhere
         /\ After(s, c, y) = BeginValue(s, c.open, y)
<1>1. CASE c = Phase("value") /\ y # "sp"
  <2>1. y # "eof" /\ After(s, c, y) # Nowhere /\ c.open = <<>>
    BY <1>1, PhaseFields DEF Live, Finished
  <2>2. After(s, c, y) = BeginValue(s, <<>>, y)
    BY <1>1, <2>1, PhaseFields DEF After
  <2> QED
    BY <2>1, <2>2
<1>2. CASE c = Place("element", 0, 0, c.open) /\ y \notin Blank \union {"#", "]"}
  <2>1. y # "eof" /\ After(s, c, y) # Nowhere
    BY <1>2, PlaceFields DEF Live, Finished
  <2>2. After(s, c, y) = BeginValue(s, c.open, y)
    BY <1>2, <2>1, FromElement
  <2> QED
    BY <2>1, <2>2
<1> QED
  BY <1>1, <1>2 DEF BeforeValue

LEMMA NumberIs ==
  ASSUME NEW s, NEW q, NEW k, NEW open, NEW raw, NEW y,
         WithinValue(q, s, open), More(open), Tagged(Current(s, open), "number"),
         raw = Current(s, open)[2], Figures(raw), k \in 1..Len(raw), q.buf = SubSeq(raw, 1, k)
  PROVE  AtNumber(q, s, InNumber(raw, k, open), y)
<1>1. IsSeq(raw) /\ Len(raw) \in Nat
  BY SeqFacts DEF Tagged, IsSeq
<1>2. CASE k = Len(raw)
  <2>1. q.buf = raw
    BY <1>1, <1>2, Beginnings
  <2> QED
    BY <1>2, <2>1 DEF InNumber, AtNumber
<1>3. CASE k # Len(raw)
  <2>1. k \in 1..(Len(raw) - 1)
    BY <1>1, <1>3
  <2> QED
    BY <1>3, <2>1 DEF InNumber, AtNumber
<1> QED
  BY <1>2, <1>3

LEMMA FollowsParseValue ==
  ASSUME NEW s, NEW c, Together(s, c), ParseValue, ~Tripled("dq"), ~Tripled("sq")
  PROVE  Follows(s, c)
<1> DEFINE d == After(s, c, sym)
           o == c.open
           v == Current(s, o)
<1>1. /\ DOMAIN p = Fields /\ p.mode = "value" /\ ~p.comment /\ p.within = "value" /\ Parser(p)
      /\ WithinValue(p, s, o) /\ BeforeValue(c, sym) /\ Live(s, c, sym) /\ Sayable(s)
  BY DEF ParseValue, At, Together, Parser, Agrees, InValue, ValueModes
<1>2. sym # "eof" /\ d = BeginValue(s, o, sym) /\ d # Nowhere
  BY <1>1, AnyValue
<1>3. /\ More(o)
      /\ \/ sym = "dq" /\ Tagged(v, "string") /\ d = Place("basic", 0, 0, o)
         \/ sym = "sq" /\ Tagged(v, "string") /\ d = Place("literal", 0, 0, o)
         \/ sym = "true" /\ v = <<"boolean">> /\ d = AfterValue(o)
         \/ sym = "[" /\ Tagged(v, "array") /\ d = Place("element", 0, 0, Append(o, Level(v[2], 0)))
         \/ sym \in Numeric /\ Tagged(v, "number") /\ Figures(v[2]) /\ sym = v[2][1]
  BY <1>2, FromValue
<1>4. s.kind = "key" /\ p.stmt = Stem(s, Len(s.path)) /\ Nested(s, p.open, o)
  BY <1>1 DEF WithinValue
<1>5. ASSUME NEW m, <<sym, m>> \in {<<"dq", "basic">>, <<"sq", "literal">>} PROVE Follows(s, c)
  <2>1. d = Place(m, 0, 0, o) /\ Tagged(v, "string")
    BY <1>3, <1>5 DEF Numeric, Digits
  <2>2. Took /\ p'.mode = m /\ p'.stmt = p.stmt /\ p'.within = "value" /\ p'.buf = <<>> /\ p'.open = p.open
    BY <1>1, <1>5, Takes, TakesTook DEF ParseValue, Becomes, Digits
  <2>3. WithinValue(p', s, o)
    BY <1>1, <2>2 DEF WithinValue
  <2> HIDE DEF d, o
  <2>4. d.part = 0 /\ d.char = 0 /\ d.open = o /\ d.at = m
    BY <2>1, PlaceFields
  <2>5. Text(s, d) = v[2] /\ IsSeq(v[2])
    BY <2>1, <2>4 DEF Text, Tagged, IsSeq
  <2>6. Len(v[2]) \in Nat /\ SubSeq(v[2], 1, 0) = <<>>
    BY <2>5, SeqFacts, Beginnings
  <2>7. AtText(p', s, d)
    BY <1>3, <2>1, <2>2, <2>3, <2>4, <2>5, <2>6 DEF AtText
  <2>8. \A y : Agrees(p', s, d, y)
    BY <1>5, <2>2, <2>7, Arrives DEF TextModes
  <2>9. Owed(p', s, d.at) = Owed(p, s, c.at)
    BY <1>1, <1>5, <2>2, OwesItself
  <2> QED
    BY <2>2, <2>8, <2>9 DEF Follows, d
<1>6. CASE sym = "true"
  <2>1. v = <<"boolean">> /\ d = AfterValue(o)
    BY <1>3, <1>6 DEF Numeric, Digits
  <2>2. Take(WithValue(<<"boolean">>, p.open))
    BY <1>6 DEF ParseValue, Digits
  <2>3. Took
    BY <1>1, <2>2, TakesTook
  <2>4. p'.mode \in {"lineEnd", "afterElement"} /\ \A y : Agrees(p', s, d, y)
    BY <1>1, <1>3, <1>4, <2>1, <2>2, ValueAgrees
  <2>5. Owed(p', s, d.at) = Owed(p, s, c.at)
    BY <1>1, <2>4, OwesItself
  <2> QED
    BY <2>3, <2>4, <2>5 DEF Follows
<1>7. CASE sym = "["
  <2> DEFINE t == Append(p.open, <<>>)
             u == Append(o, Level(v[2], 0))
  <2>1. Tagged(v, "array") /\ d = Place("element", 0, 0, u)
    BY <1>3, <1>7 DEF Numeric, Digits
  <2>2. Took /\ p'.mode = "element" /\ p'.stmt = p.stmt /\ p'.open = t /\ ~p'.comment
    BY <1>1, <1>7, Takes, TakesTook DEF ParseValue, Becomes, Digits
  <2>3. Nested(s, t, u)
    BY <1>3, <1>4, <2>1, NestedDeeper
  <2>4. u # <<>>
    BY <1>4, SeqAppend DEF Nested
  <2> HIDE DEF t, u, d
  <2>5. WithinValue(p', s, u)
    BY <1>4, <2>2, <2>3 DEF WithinValue
  <2>6. \A y : AtElement(p', s, d, y, "element", "elementRemark")
    BY <2>1, <2>2, <2>4, <2>5, PlaceFields DEF AtElement
  <2>7. \A y : Agrees(p', s, d, y)
    BY <2>2, <2>6, Arrives
  <2>8. Owed(p', s, d.at) = Owed(p, s, c.at)
    BY <1>1, <2>2, OwesItself
  <2> QED
    BY <2>2, <2>7, <2>8 DEF Follows, d
<1>8. CASE sym \in Numeric
  <2>1. Tagged(v, "number") /\ Figures(v[2]) /\ sym = v[2][1]
    BY <1>3, <1>8 DEF Numeric, Digits
  <2>2. sym \in Digits \union {"-"}
    BY <2>1 DEF Figures
  <2>3. Went /\ p'.mode = "number" /\ p'.stmt = p.stmt /\ p'.open = p.open /\ p'.buf = <<>>
    BY <1>1, <2>2, GoesOn, GoesWent DEF ParseValue, Becomes, Digits
  <2>4. WithinValue(p', s, o)
    BY <1>1, <2>3 DEF WithinValue
  <2>5. AtNumber(p', s, c, sym)
    BY <1>1, <1>3, <1>8, <2>1, <2>3, <2>4 DEF AtNumber
  <2>6. Agrees(p', s, c, sym)
    BY <2>3, <2>5, Arrives
  <2>7. Owed(p', s, c.at) = Owed(p, s, c.at)
    BY <1>1, <2>3, OwesItself
  <2> QED
    BY <2>3, <2>6, <2>7 DEF Follows
<1> QED
  BY <1>3, <1>5, <1>6, <1>7, <1>8

LEMMA TextIs ==
  ASSUME NEW s, Sayable(s), NEW c, AtText(p, s, c)
  PROVE  IsSeq(Text(s, c))
<1>1. CASE c.part \in DOMAIN s.path
  <2>1. IsSeq(s.path[c.part]) /\ c.part # 0
    BY <1>1, Spoken
  <2> QED
    BY <2>1 DEF Text
<1>2. CASE c.part = 0 /\ Tagged(Current(s, c.open), "string")
  BY <1>2 DEF Text, Tagged, IsSeq
<1> QED
  BY <1>1, <1>2 DEF AtText

(* One more character of the text is read. *)
LEMMA TextGoesOn ==
  ASSUME NEW s, NEW c, Sayable(s), AtText(p, s, c), NEW m \in TextModes, NEW x,
         c.char < Len(Text(s, c)), Text(s, c)[c.char + 1] = x,
         Becomes(p', m, p.comment, p.within, Append(p.buf, x), p.stmt, p.open)
  PROVE  AtText(p', s, Place(m, c.part, c.char + 1, c.open))
<1> DEFINE t == Text(s, c)
           d == Place(m, c.part, c.char + 1, c.open)
           k == c.char
<1>1. IsSeq(t) /\ Len(t) \in Nat /\ k \in 0..(Len(t) - 1)
  <2>1. IsSeq(t) /\ Len(t) \in Nat
    BY TextIs, SeqFacts
  <2>2. k \in 0..Len(t)
    BY DEF AtText
  <2> HIDE DEF t, k
  <2>3. k < Len(t)
    BY DEF t, k
  <2> QED
    BY <2>1, <2>2, <2>3
<1>2. d.part = c.part /\ d.char = k + 1 /\ d.open = c.open /\ d.at = m
  BY PlaceFields
<1>3. Text(s, d) = t
  BY <1>2 DEF Text
<1>4. Append(p.buf, x) = SubSeq(t, 1, k + 1)
  BY <1>1, Beginnings DEF AtText
<1>5. k + 1 \in 0..Len(t)
  BY <1>1
<1>6. WithinValue(p, s, c.open) => WithinValue(p', s, c.open)
  BY DEF WithinValue, Becomes
<1>7. /\ p'.mode = m /\ p'.within = p.within /\ p'.stmt = p.stmt /\ p'.buf = SubSeq(t, 1, k + 1)
  BY <1>4 DEF Becomes
<1> HIDE DEF t, k
<1>8. \/ p'.within = "key" /\ d.open = <<>> /\ d.part \in DOMAIN s.path /\ p'.stmt = Stem(s, d.part - 1)
      \/ /\ p'.within = "value" /\ d.part = 0
         /\ WithinValue(p', s, d.open) /\ More(d.open) /\ Tagged(Current(s, d.open), "string")
  BY <1>2, <1>6, <1>7 DEF AtText
<1>9. d = Place(p'.mode, d.part, d.char, d.open)
  BY <1>2, <1>7 DEF k
<1> HIDE DEF d
<1>10. AtText(p', s, d)
  BY <1>2, <1>3, <1>5, <1>7, <1>8, <1>9 DEF AtText
<1> QED
  BY <1>10 DEF d, k

LEMMA TextTaken ==
  ASSUME NEW s, NEW c, Together(s, c), p.mode \in TextModes, NEW m \in TextModes, NEW x,
         c.char < Len(Text(s, c)), Text(s, c)[c.char + 1] = x, Took,
         After(s, c, sym) = Place(m, c.part, c.char + 1, c.open),
         Becomes(p', m, p.comment, p.within, Append(p.buf, x), p.stmt, p.open)
  PROVE  Follows(s, c)
<1> DEFINE d == Place(m, c.part, c.char + 1, c.open)
<1>1. AtText(p, s, c) /\ Sayable(s)
  BY DEF Together, Agrees
<1>2. AtText(p', s, d)
  BY <1>1, TextGoesOn
<1>3. p'.mode = m
  BY DEF Becomes
<1>4. \A y : Agrees(p', s, d, y)
  BY <1>2, <1>3, Arrives
<1>5. Owed(p', s, d.at) = Owed(p, s, c.at)
  <2>1. /\ p.mode \notin {"end", "statement", "carriageReturn", "apply"}
        /\ p'.mode \notin {"end", "statement", "carriageReturn", "apply"}
    BY <1>3 DEF TextModes
  <2> QED
    BY <2>1, OwesItself
<1> HIDE DEF d
<1> QED
  BY <1>4, <1>5 DEF Follows, d

(* The text is read, and it is written. *)
LEMMA TextDone ==
  ASSUME NEW s, NEW c, Together(s, c), ~p.comment, p.mode \in TextModes, Take(WithString),
         c.char = Len(Text(s, c)), After(s, c, sym) = AfterText(c)
  PROVE  Follows(s, c)
<1> DEFINE d == AfterText(c)
           t == Text(s, c)
<1>1. /\ DOMAIN p = Fields /\ Parser(p) /\ AtText(p, s, c) /\ Sayable(s)
      /\ p.mode \notin {"end", "statement", "carriageReturn", "apply"}
  BY DEF Together, Agrees, Parser, TextModes
<1>2. p.buf = t
  BY <1>1, TextIs, Beginnings DEF AtText
<1>3. CASE p.within = "key"
  <2>1. c.part \in DOMAIN s.path /\ p.stmt = Stem(s, c.part - 1)
    BY <1>1, <1>3 DEF AtText
  <2>2. c.part # 0
    BY <1>1, <2>1, Spoken
  <2>3. d = PartDone(c.part) /\ t = s.path[c.part]
    BY <2>2 DEF AfterText, Text
  <2>4. Take(WithPart(p.buf))
    BY <1>3 DEF WithString
  <2>5. Took /\ p'.mode = "afterPart" /\ p'.stmt = [p.stmt EXCEPT !.path = Append(@, p.buf)]
    <3>1. Took
      BY <1>1, <2>4, TakesTook
    <3> QED
      BY <1>1, <2>4, <3>1, TakesPart
  <2>6. p'.stmt = Stem(s, c.part)
    <3>1. [p.stmt EXCEPT !.path = Append(@, s.path[c.part])] = Stem(s, c.part)
      BY <1>1, <2>1, StemLonger
    <3>2. p.buf = s.path[c.part]
      BY <1>2, <2>3
    <3> QED
      BY <2>5, <3>1, <3>2
  <2>7. AtAfterPart(p', s, d)
    BY <2>1, <2>3, <2>6 DEF AtAfterPart
  <2> HIDE DEF d
  <2>8. \A y : Agrees(p', s, d, y)
    <3>1. p'.mode = "afterPart"
      BY <2>5
    <3> QED
      BY <2>7, <3>1, Arrives
  <2>9. Owed(p', s, d.at) = Owed(p, s, c.at)
    <3>1. p'.mode \notin {"end", "statement", "carriageReturn", "apply"}
      BY <2>5
    <3> QED
      BY <1>1, <3>1, OwesItself
  <2> QED
    BY <2>5, <2>8, <2>9 DEF Follows, d
<1>4. CASE p.within # "key"
  <2>1. /\ p.within = "value" /\ c.part = 0
        /\ WithinValue(p, s, c.open) /\ More(c.open) /\ Tagged(Current(s, c.open), "string")
    BY <1>1, <1>4 DEF AtText
  <2>2. d = AfterValue(c.open) /\ t = Current(s, c.open)[2]
    BY <2>1 DEF AfterText, Text
  <2>3. <<"string", p.buf>> = Current(s, c.open)
    BY <1>2, <2>1, <2>2 DEF Tagged
  <2>4. Take(WithValue(<<"string", p.buf>>, p.open))
    BY <1>4 DEF WithString
  <2>5. Took
    BY <1>1, <2>4, TakesTook
  <2>6. s.kind = "key" /\ p.stmt = Stem(s, Len(s.path)) /\ Nested(s, p.open, c.open)
    BY <2>1 DEF WithinValue
  <2>7. p'.mode \in {"lineEnd", "afterElement"} /\ \A y : Agrees(p', s, AfterValue(c.open), y)
    BY <1>1, <2>1, <2>3, <2>4, <2>6, ValueAgrees
  <2>8. Owed(p', s, d.at) = Owed(p, s, c.at)
    BY <1>1, <2>7, OwesItself
  <2> QED
    BY <2>2, <2>5, <2>7, <2>8 DEF Follows
<1> QED
  BY <1>3, <1>4

LEMMA TextStep ==
  ASSUME NEW s, NEW c, Together(s, c), p.mode \in TextModes
  PROVE  LET d == After(s, c, sym)
             t == Text(s, c)
             k == c.char
         IN
         /\ sym # "eof"
         /\ \/ p.mode = "basic" /\ sym = "dq" /\ k = Len(t) /\ d = AfterText(c)
            \/ p.mode = "basic" /\ sym = "bs" /\ d = Place("escape", c.part, k, c.open)
            \/ p.mode = "basic" /\ sym \notin {"dq", "bs", "nl"} /\ k < Len(t) /\ t[k + 1] = sym
                 /\ d = Place("basic", c.part, k + 1, c.open)
            \/ p.mode = "escape" /\ sym \in DOMAIN Escapes /\ k < Len(t) /\ t[k + 1] = Escapes[sym]
                 /\ d = Place("basic", c.part, k + 1, c.open)
            \/ p.mode = "literal" /\ sym = "sq" /\ k = Len(t) /\ d = AfterText(c)
            \/ p.mode = "literal" /\ sym \notin {"sq", "nl"} /\ k < Len(t) /\ t[k + 1] = sym
                 /\ d = Place("literal", c.part, k + 1, c.open)
<1>1. c = Place(p.mode, c.part, c.char, c.open) /\ Live(s, c, sym)
  BY DEF Together, Agrees, AtText
<1>2. sym # "eof" /\ After(s, c, sym) # Nowhere
  BY <1>1, PlaceFields DEF Live, Finished, TextModes
<1> DEFINE at == p.mode
           n == c.part
           k == c.char
           o == c.open
<1>3. c = Place(at, n, k, o) /\ at \in TextModes
  BY <1>1
<1> HIDE DEF at, n, k, o
<1>4. \/ at = "basic" /\ sym = "dq" /\ k = Len(Text(s, c)) /\ After(s, c, sym) = AfterText(c)
      \/ at = "basic" /\ sym = "bs" /\ After(s, c, sym) = Place("escape", n, k, o)
      \/ at = "basic" /\ sym \notin {"dq", "bs", "nl"} /\ k < Len(Text(s, c)) /\ Text(s, c)[k + 1] = sym
           /\ After(s, c, sym) = Place("basic", n, k + 1, o)
      \/ at = "escape" /\ sym \in DOMAIN Escapes /\ k < Len(Text(s, c))
           /\ Text(s, c)[k + 1] = Escapes[sym] /\ After(s, c, sym) = Place("basic", n, k + 1, o)
      \/ at = "literal" /\ sym = "sq" /\ k = Len(Text(s, c)) /\ After(s, c, sym) = AfterText(c)
      \/ at = "literal" /\ sym \notin {"sq", "nl"} /\ k < Len(Text(s, c)) /\ Text(s, c)[k + 1] = sym
           /\ After(s, c, sym) = Place("literal", n, k + 1, o)
  BY <1>2, <1>3, FromText
<1> QED
  BY <1>2, <1>4 DEF at, n, k, o

LEMMA FollowsString ==
  ASSUME NEW s, NEW c, Together(s, c), ParseBasicString \/ ParseLiteralString
  PROVE  Follows(s, c)
<1> DEFINE d == After(s, c, sym)
           t == Text(s, c)
           k == c.char
<1>1. /\ DOMAIN p = Fields /\ p.mode \in {"basic", "literal"} /\ ~p.comment
      /\ AtText(p, s, c) /\ p.mode \in TextModes
  BY DEF ParseBasicString, ParseLiteralString, At, Together, Parser, Agrees, TextModes
<1>2. /\ sym # "eof"
      /\ \/ p.mode = "basic" /\ sym = "dq" /\ k = Len(t) /\ d = AfterText(c)
         \/ p.mode = "basic" /\ sym = "bs" /\ d = Place("escape", c.part, k, c.open)
         \/ p.mode = "basic" /\ sym \notin {"dq", "bs", "nl"} /\ k < Len(t) /\ t[k + 1] = sym
              /\ d = Place("basic", c.part, k + 1, c.open)
         \/ p.mode = "literal" /\ sym = "sq" /\ k = Len(t) /\ d = AfterText(c)
         \/ p.mode = "literal" /\ sym \notin {"sq", "nl"} /\ k < Len(t) /\ t[k + 1] = sym
              /\ d = Place("literal", c.part, k + 1, c.open)
  BY <1>1, TextStep
<1>3. \/ p.mode = "basic" /\ sym = "dq" /\ Take(WithString)
      \/ p.mode = "literal" /\ sym = "sq" /\ Take(WithString)
      \/ p.mode = "basic" /\ sym = "bs" /\ Take(To("escape"))
      \/ p.mode = "basic" /\ sym \notin {"dq", "bs", "nl"} /\ Keep
      \/ p.mode = "literal" /\ sym \notin {"sq", "nl"} /\ Keep
      \/ p.mode = "basic" /\ sym = "nl"
      \/ p.mode = "literal" /\ sym = "nl"
  BY <1>2 DEF ParseBasicString, ParseLiteralString, At
<1>4. CASE Take(WithString) /\ k = Len(t) /\ d = AfterText(c)
  BY <1>1, <1>4, TextDone
<1>5. CASE Keep /\ k < Len(t) /\ t[k + 1] = sym /\ d = Place(p.mode, c.part, k + 1, c.open)
  <2>1. Took /\ Becomes(p', p.mode, p.comment, p.within, Append(p.buf, sym), p.stmt, p.open)
    BY <1>1, <1>5, Takes, TakesTook
  <2> QED
    BY <1>1, <1>5, <2>1, TextTaken
<1>6. CASE Take(To("escape")) /\ p.mode = "basic" /\ d = Place("escape", c.part, k, c.open)
  <2>1. Took /\ Becomes(p', "escape", p.comment, p.within, p.buf, p.stmt, p.open)
    BY <1>1, <1>6, Takes, TakesTook
  <2> HIDE DEF d
  <2>2. d.part = c.part /\ d.char = c.char /\ d.open = c.open /\ d.at = "escape"
    BY <1>6, PlaceFields
  <2>3. Text(s, d) = t
    BY <2>2 DEF Text
  <2>4. AtText(p', s, d)
    <3>1. WithinValue(p, s, c.open) => WithinValue(p', s, c.open)
      BY <2>1 DEF WithinValue, Becomes
    <3>2. p'.mode = "escape" /\ p'.within = p.within /\ p'.stmt = p.stmt /\ p'.buf = p.buf
      BY <2>1 DEF Becomes
    <3>3. d = Place(p'.mode, d.part, d.char, d.open)
      BY <1>6, <2>2, <3>2
    <3> QED
      BY <1>1, <2>2, <2>3, <3>1, <3>2, <3>3 DEF AtText
  <2>5. p'.mode = "escape"
    BY <2>1 DEF Becomes
  <2>6. \A y : Agrees(p', s, d, y)
    BY <2>4, <2>5, Arrives DEF TextModes
  <2>7. Owed(p', s, d.at) = Owed(p, s, c.at)
    BY <1>1, <2>5, OwesItself
  <2> QED
    BY <2>1, <2>6, <2>7 DEF Follows, d
<1> HIDE DEF d, t, k
<1> QED
  BY <1>2, <1>3, <1>4, <1>5, <1>6

LEMMA FollowsEscape ==
  ASSUME NEW s, NEW c, Together(s, c), ParseEscape
  PROVE  Follows(s, c)
<1>1. DOMAIN p = Fields /\ p.mode = "escape" /\ p.mode \in TextModes
  BY DEF ParseEscape, At, Together, Parser, TextModes
<1>2. /\ sym # "eof" /\ sym \in DOMAIN Escapes /\ c.char < Len(Text(s, c))
      /\ Text(s, c)[c.char + 1] = Escapes[sym]
      /\ After(s, c, sym) = Place("basic", c.part, c.char + 1, c.open)
  BY <1>1, TextStep
<1>3. Take([mode |-> "basic", buf |-> Append(p.buf, Escapes[sym])])
  BY <1>2 DEF ParseEscape
<1> DEFINE b == Append(p.buf, Escapes[sym])
<1> HIDE DEF b
<1>4. Took /\ Becomes(p', "basic", p.comment, p.within, b, p.stmt, p.open)
  BY <1>1, <1>3, Takes, TakesTook DEF b
<1> QED
  BY <1>1, <1>2, <1>4, TextTaken DEF b, TextModes

LEMMA FollowsNumber ==
  ASSUME NEW s, NEW c, Together(s, c), ParseNumber
  PROVE  Follows(s, c)
<1> DEFINE d == After(s, c, sym)
<1>1. /\ DOMAIN p = Fields /\ p.mode = "number" /\ ~p.comment /\ Parser(p)
      /\ AtNumber(p, s, c, sym) /\ Live(s, c, sym) /\ Sayable(s)
  BY DEF ParseNumber, At, Together, Parser, Agrees
<1>2. PICK open :
        /\ WithinValue(p, s, open) /\ More(open) /\ Tagged(Current(s, open), "number")
        /\ LET raw == Current(s, open)[2] IN
           /\ Figures(raw)
           /\ \/ p.buf = <<>> /\ BeforeValue(c, sym) /\ c.open = open /\ sym \in Numeric
              \/ \E k \in 1..(Len(raw) - 1) :
                   c = Place("number", 0, k, open) /\ p.buf = SubSeq(raw, 1, k)
              \/ c = AfterValue(open) /\ p.buf = raw
  BY <1>1 DEF AtNumber
<1> DEFINE raw == Current(s, open)[2]
<1>3. /\ IsSeq(raw) /\ Len(raw) \in Nat \ {0} /\ Figures(raw)
      /\ \A k \in 1..Len(raw) : raw[k] \in Numeric
  <2>1. IsSeq(raw) /\ raw # <<>> /\ ToSet(raw) \subseteq Numeric
    BY <1>2 DEF Figures, Tagged, IsSeq
  <2>2. Len(raw) \in Nat \ {0}
    BY <2>1, EmptySeq DEF IsSeq
  <2>3. \A k \in 1..Len(raw) : raw[k] \in ToSet(raw)
    BY <2>1 DEF IsSeq, ToSet
  <2> QED
    BY <1>2, <2>1, <2>2, <2>3
<1>4. ASSUME NEW k \in 1..Len(raw), sym = raw[k], p.buf = SubSeq(raw, 1, k - 1), d = InNumber(raw, k, open)
      PROVE  Follows(s, c)
  <2>1. Took /\ p'.mode = "number" /\ p'.stmt = p.stmt /\ p'.open = p.open /\ p'.buf = Append(p.buf, sym)
    BY <1>1, <1>3, <1>4, Takes, TakesTook DEF ParseNumber, Becomes
  <2>2. p'.buf = SubSeq(raw, 1, k)
    <3>1. k - 1 \in 0..(Len(raw) - 1) /\ (k - 1) + 1 = k
      BY <1>3
    <3> QED
      BY <1>3, <1>4, <2>1, <3>1, Beginnings
  <2>3. WithinValue(p', s, open)
    BY <1>2, <2>1 DEF WithinValue
  <2> HIDE DEF d
  <2>4. \A y : AtNumber(p', s, d, y)
    BY <1>2, <1>3, <1>4, <2>2, <2>3, NumberIs
  <2>5. \A y : Agrees(p', s, d, y)
    BY <2>1, <2>4, Arrives
  <2>6. Owed(p', s, d.at) = Owed(p, s, c.at)
    BY <1>1, <2>1, OwesItself
  <2> QED
    BY <2>1, <2>5, <2>6 DEF Follows, d
<1>5. CASE p.buf = <<>> /\ BeforeValue(c, sym) /\ c.open = open /\ sym \in Numeric
  <2>1. d = BeginValue(s, open, sym) /\ d # Nowhere
    BY <1>1, <1>5, AnyValue
  <2>2. sym = raw[1] /\ d = InNumber(raw, 1, open)
    BY <1>5, <2>1, FromValue DEF Numeric, Digits
  <2>3. 1 \in 1..Len(raw) /\ 1 - 1 = 0
    BY <1>3
  <2>4. p.buf = SubSeq(raw, 1, 1 - 1)
    BY <1>3, <1>5, <2>3, Beginnings
  <2> QED
    BY <1>4, <2>2, <2>3, <2>4
<1>6. ASSUME NEW k \in 1..(Len(raw) - 1), c = Place("number", 0, k, open), p.buf = SubSeq(raw, 1, k)
      PROVE  Follows(s, c)
  <2>1. sym # "eof" /\ d # Nowhere
    BY <1>1, <1>6, PlaceFields DEF Live, Finished
  <2>2. sym = raw[k + 1] /\ d = InNumber(raw, k + 1, open)
    BY <1>6, <2>1, FromNumber
  <2>3. k + 1 \in 1..Len(raw) /\ (k + 1) - 1 = k
    BY <1>3
  <2> QED
    BY <1>4, <1>6, <2>2, <2>3
<1>7. CASE c = AfterValue(open) /\ p.buf = raw
  <2>1. c = Phase("lineEnd") \/ \E o : c = Place("afterElement", 0, 0, o)
    BY <1>7 DEF AfterValue
  <2>2. sym = "eof" \/ d # Nowhere
    BY <1>1 DEF Live
  <2>3. sym \in {"eof", "sp", "nl", "cr", "#", "]", "comma"}
    BY <2>1, <2>2, FromLineEnd, FromItem DEF Blank
  <2>4. Number(p.buf)
    BY <1>3, <1>7 DEF Figures
  <2>5. Go(WithValue(<<"number", p.buf>>, p.open))
    BY <2>3, <2>4 DEF ParseNumber, Numeric, Digits
  <2>6. Went
    BY <1>1, <2>5, GoesWent
  <2>7. <<"number", p.buf>> = Current(s, open)
    BY <1>2, <1>7 DEF Tagged
  <2>8. s.kind = "key" /\ p.stmt = Stem(s, Len(s.path)) /\ Nested(s, p.open, open)
    BY <1>2 DEF WithinValue
  <2>9. p'.mode \in {"lineEnd", "afterElement"} /\ \A y : Agrees(p', s, AfterValue(open), y)
    BY <1>1, <1>2, <2>5, <2>7, <2>8, ValueAgrees
  <2>10. Owed(p', s, c.at) = Owed(p, s, c.at)
    BY <1>1, <2>9, OwesItself
  <2> QED
    BY <1>7, <2>6, <2>9, <2>10 DEF Follows
<1> QED
  BY <1>2, <1>5, <1>6, <1>7

LEMMA ArrayDone ==
  ASSUME NEW s, NEW c, Together(s, c), ~p.comment, p.mode \in {"element", "afterElement"},
         WithinValue(p, s, c.open), c.open # <<>>,
         Take(WithArray), After(s, c, sym) = EndArray(c.open), After(s, c, sym) # Nowhere
  PROVE  Follows(s, c)
<1> DEFINE d == After(s, c, sym)
           o == c.open
<1>1. DOMAIN p = Fields /\ Parser(p) /\ Sayable(s)
  BY DEF Together, Parser
<1>2. Last(o).done = Len(Last(o).items) /\ d = AfterValue(Front(o))
  BY DEF EndArray
<1>3. s.kind = "key" /\ p.stmt = Stem(s, Len(s.path)) /\ Nested(s, p.open, o)
  BY DEF WithinValue
<1>4. /\ Nested(s, Front(p.open), Front(o)) /\ More(Front(o))
      /\ Current(s, Front(o)) = <<"array", Last(p.open)>>
  BY <1>2, <1>3, NestedOut
<1>5. Take(WithValue(<<"array", Last(p.open)>>, Front(p.open)))
  BY DEF WithArray
<1>6. Took
  BY <1>1, <1>5, TakesTook
<1>7. p'.mode \in {"lineEnd", "afterElement"} /\ \A y : Agrees(p', s, AfterValue(Front(o)), y)
  BY <1>1, <1>3, <1>4, <1>5, ValueAgrees
<1>8. Owed(p', s, d.at) = Owed(p, s, c.at)
  BY <1>7, OwesItself
<1> QED
  BY <1>2, <1>6, <1>7, <1>8 DEF Follows

LEMMA FollowsElement ==
  ASSUME NEW s, NEW c, Together(s, c), ParseElement
  PROVE  Follows(s, c)
<1> DEFINE d == After(s, c, sym)
           o == c.open
<1>1. /\ DOMAIN p = Fields /\ p.mode = "element" /\ ~p.comment
      /\ AtElement(p, s, c, sym, "element", "elementRemark") /\ Live(s, c, sym)
      /\ sym \notin Blank \union {"#"}
  BY DEF ParseElement, At, Together, Parser, Agrees
<1>2. WithinValue(p, s, o) /\ o # <<>>
  BY <1>1 DEF AtElement
<1>3. /\ c = Place("element", 0, 0, o) \/ (c = Place("elementRemark", 0, 0, o) /\ sym = "eof")
  BY <1>1 DEF AtElement, Break, Blank
<1>4. sym # "eof" /\ d # Nowhere /\ c = Place("element", 0, 0, o)
  BY <1>1, <1>3, PlaceFields DEF Live, Finished
<1>5. CASE sym = "]"
  <2>1. d = EndArray(o)
    BY <1>4, <1>5, FromElement DEF Blank
  <2>2. Take(WithArray)
    BY <1>5 DEF ParseElement
  <2> QED
    BY <1>1, <1>2, <1>4, <2>1, <2>2, ArrayDone
<1>6. CASE sym # "]"
  <2>1. Went /\ p'.mode = "value" /\ p'.stmt = p.stmt /\ p'.open = p.open
    BY <1>1, <1>4, <1>6, GoesOn, GoesWent DEF ParseElement, Becomes
  <2>2. WithinValue(p', s, o)
    BY <1>2, <2>1 DEF WithinValue
  <2>3. BeforeValue(c, sym)
    BY <1>1, <1>2, <1>4, <1>6 DEF BeforeValue
  <2>4. Agrees(p', s, c, sym)
    BY <2>1, <2>2, <2>3, Arrives
  <2>5. Owed(p', s, c.at) = Owed(p, s, c.at)
    BY <1>1, <2>1, OwesItself
  <2> QED
    BY <2>1, <2>4, <2>5 DEF Follows
<1> QED
  BY <1>5, <1>6

LEMMA FollowsAfterElement ==
  ASSUME NEW s, NEW c, Together(s, c), AfterElement
  PROVE  Follows(s, c)
<1> DEFINE d == After(s, c, sym)
           o == c.open
<1>1. /\ DOMAIN p = Fields /\ p.mode = "afterElement" /\ ~p.comment
      /\ AtElement(p, s, c, sym, "afterElement", "itemRemark") /\ Live(s, c, sym)
      /\ sym \notin Blank \union {"#"}
  BY DEF AfterElement, At, Together, Parser, Agrees
<1>2. WithinValue(p, s, o) /\ o # <<>>
  BY <1>1 DEF AtElement
<1>3. /\ c = Place("afterElement", 0, 0, o) \/ (c = Place("itemRemark", 0, 0, o) /\ sym = "eof")
  BY <1>1 DEF AtElement, Break, Blank
<1>4. sym # "eof" /\ d # Nowhere /\ c = Place("afterElement", 0, 0, o)
  BY <1>1, <1>3, PlaceFields DEF Live, Finished
<1>5. \/ sym = "]" /\ d = EndArray(o)
      \/ sym = "comma" /\ d = Place("element", 0, 0, o)
  BY <1>1, <1>4, FromItem
<1>6. CASE sym = "]"
  <2>1. Take(WithArray) /\ d = EndArray(o)
    BY <1>5, <1>6 DEF AfterElement
  <2> QED
    BY <1>1, <1>2, <1>4, <2>1, ArrayDone
<1>7. CASE sym = "comma"
  <2>1. Took /\ p'.mode = "element" /\ p'.stmt = p.stmt /\ p'.open = p.open /\ ~p'.comment
    BY <1>1, <1>7, Takes, TakesTook DEF AfterElement, Becomes
  <2>2. WithinValue(p', s, o) /\ d = Place("element", 0, 0, o)
    BY <1>2, <1>5, <1>7, <2>1 DEF WithinValue
  <2> HIDE DEF d, o
  <2>3. \A y : AtElement(p', s, d, y, "element", "elementRemark")
    BY <1>2, <2>1, <2>2, PlaceFields DEF AtElement
  <2>4. \A y : Agrees(p', s, d, y)
    BY <2>1, <2>3, Arrives
  <2>5. Owed(p', s, d.at) = Owed(p, s, c.at)
    BY <1>1, <2>1, OwesItself
  <2> QED
    BY <2>1, <2>4, <2>5 DEF Follows, d
<1> QED
  BY <1>5, <1>6, <1>7

LEMMA FollowsLineEnd ==
  ASSUME NEW s, NEW c, Together(s, c), ExpectLineEnd
  PROVE  Follows(s, c)
<1> DEFINE d == After(s, c, sym)
<1>1. /\ DOMAIN p = Fields /\ p.mode = "lineEnd" /\ ~p.comment
      /\ p.stmt = s /\ c = Phase("lineEnd") /\ Live(s, c, sym)
  BY DEF ExpectLineEnd, At, Together, Parser, Agrees
<1>2. \/ sym = "eof"
      \/ sym = "sp" /\ d = Phase("lineEnd")
      \/ sym = "nl" /\ d = Phase("done")
      \/ sym = "cr" /\ d = Phase("return")
      \/ sym = "#" /\ d = Phase("lastRemark")
  BY <1>1, FromLineEnd DEF Live
<1>3. CASE sym = "eof"
  <2>1. Went /\ p'.mode = "apply" /\ p'.stmt = s /\ ~p'.comment
    BY <1>1, <1>3, GoesOn, GoesWent DEF ExpectLineEnd, Becomes
  <2>2. AtApply(p', s, c, sym)
    BY <1>1, <1>3, <2>1 DEF AtApply, Break
  <2>3. Agrees(p', s, c, sym)
    BY <2>1, <2>2, Arrives
  <2>4. Owed(p', s, c.at) = Owed(p, s, c.at)
    <3>1. c.at = "lineEnd"
      BY <1>1, PhaseFields
    <3>2. Owed(p, s, c.at) = Own(s)
      BY <1>1, OtherwiseOwes
    <3>3. Owed(p', s, c.at) = Own(s)
      BY <2>1, <3>1, EndOwes
    <3> QED
      BY <3>2, <3>3
  <2> QED
    BY <2>1, <2>3, <2>4 DEF Follows
<1>4. CASE sym # "eof"
  <2>1. /\ Took /\ p'.stmt = s
        /\ \/ sym = "sp" /\ p'.mode = "lineEnd" /\ ~p'.comment
           \/ sym = "nl" /\ p'.mode = "apply" /\ ~p'.comment
           \/ sym = "cr" /\ p'.mode = "carriageReturn" /\ ~p'.comment
           \/ sym = "#" /\ p'.mode = "apply" /\ p'.comment
    BY <1>1, <1>2, <1>4, Takes, TakesTook DEF ExpectLineEnd, Skip, Becomes
  <2>2. d.at # "start"
    BY <1>2, <1>4, PhaseFields
  <2>3. Owed(p', s, d.at) = Owed(p, s, c.at)
    <3>1. Owed(p, s, c.at) = Own(s)
      BY <1>1, OtherwiseOwes
    <3> HIDE DEF d
    <3>2. CASE p'.mode = "lineEnd"
      BY <3>1, <3>2, OtherwiseOwes
    <3>3. CASE p'.mode \in {"carriageReturn", "apply"}
      BY <2>2, <3>1, <3>3, EndOwes
    <3> QED
      BY <2>1, <3>2, <3>3
  <2> HIDE DEF d
  <2>4. \A y : Agrees(p', s, d, y)
    <3>1. p'.mode = "apply" => \A y : AtApply(p', s, d, y)
      BY <1>2, <2>1 DEF AtApply
    <3> QED
      BY <1>2, <2>1, <3>1, Arrives
  <2> QED
    BY <2>1, <2>3, <2>4 DEF Follows, d
<1> QED
  BY <1>3, <1>4

LEMMA FollowsCarriageReturn ==
  ASSUME NEW s, NEW c, Together(s, c), CarriageReturn
  PROVE  Follows(s, c)
<1> DEFINE d == After(s, c, sym)
<1>1. /\ DOMAIN p = Fields /\ p.mode = "carriageReturn" /\ ~p.comment
      /\ (c = Phase("start") \/ (p.stmt = s /\ c = Phase("return")))
      /\ Live(s, c, sym)
  BY DEF CarriageReturn, At, Together, Parser, Agrees
<1>2. CASE sym = "nl"
  <2>1. Took /\ p'.mode = "apply" /\ p'.stmt = p.stmt /\ ~p'.comment
    BY <1>1, <1>2, Takes, TakesTook DEF CarriageReturn, Becomes
  <2>2. d # Nowhere
    BY <1>1, <1>2 DEF Live
  <2>3. \/ c = Phase("start") /\ d = Phase("start")
        \/ p.stmt = s /\ c = Phase("return") /\ d = Phase("done")
    BY <1>1, <1>2, <2>2, FromStart, FromClose DEF Blank
  <2>4. \/ c.at = "start" /\ d.at = "start"
        \/ c.at = "return" /\ d.at = "done"
    BY <2>3, PhaseFields
  <2> HIDE DEF d
  <2>5. \A y : AtApply(p', s, d, y)
    BY <2>1, <2>3 DEF AtApply
  <2>6. \A y : Agrees(p', s, d, y)
    BY <2>1, <2>5, Arrives
  <2>7. Owed(p', s, d.at) = Owed(p, s, c.at)
    <3>1. CASE c.at = "start" /\ d.at = "start"
      <4>1. Owed(p, s, c.at) = <<p.stmt>> \o Own(s)
        BY <1>1, <3>1, StartOwes
      <4>2. Owed(p', s, d.at) = <<p'.stmt>> \o Own(s)
        BY <2>1, <3>1, StartOwes
      <4> QED
        BY <2>1, <4>1, <4>2
    <3>2. CASE c.at = "return" /\ d.at = "done"
      <4>1. Owed(p, s, c.at) = Own(s)
        BY <1>1, <3>2, EndOwes
      <4>2. Owed(p', s, d.at) = Own(s)
        BY <2>1, <3>2, EndOwes
      <4> QED
        BY <4>1, <4>2
    <3> QED
      BY <2>4, <3>1, <3>2
  <2> QED
    BY <2>1, <2>6, <2>7 DEF Follows, d
<1>3. CASE sym # "nl"
  <2>1. Went /\ p'.mode = "apply" /\ p'.stmt = p.stmt /\ ~p'.comment
    BY <1>1, <1>3, GoesOn, GoesWent DEF CarriageReturn, Becomes
  <2>2. \/ c = Phase("start")
        \/ p.stmt = s /\ c = Phase("return") /\ sym = "eof"
    BY <1>1, <1>3, FromClose DEF Live
  <2>3. AtApply(p', s, c, sym)
    BY <2>1, <2>2 DEF AtApply, Break
  <2>4. Agrees(p', s, c, sym)
    BY <2>1, <2>3, Arrives
  <2>5. Owed(p', s, c.at) = Owed(p, s, c.at)
    BY <1>1, <2>1 DEF Owed
  <2> QED
    BY <2>1, <2>4, <2>5 DEF Follows
<1> QED
  BY <1>2, <1>3

LEMMA ReaderFollows ==
  ASSUME NEW s, NEW c, Together(s, c), Parse, ~Apply,
         p.mode = "value" => ~Tripled("dq") /\ ~Tripled("sq")
  PROVE  Follows(s, c)
<1>1. CASE ParseValue
  BY <1>1, FollowsParseValue DEF ParseValue, At
<1> QED
  BY <1>1, FollowsBlank, FollowsComment, FollowsStatement, FollowsHeader, FollowsClose, FollowsKeyPath,
     FollowsBare, FollowsAfterPart, FollowsKeyValue, FollowsString, FollowsEscape, FollowsNumber,
     FollowsElement, FollowsAfterElement, FollowsLineEnd, FollowsCarriageReturn
  DEF Parse

-------------------------------------------------------------------------------
(* The rest of the writing. *)

(* The places of a text, each after the one before. *)
Leads(s, text, place, n) ==
  /\ IsFunctionOn(place, 0..n) /\ place[0] = Phase("start")
  /\ \A k \in 1..n : place[k] = After(s, place[k - 1], text[k])

LEMMA SomePlaces ==
  ASSUME NEW s, NEW text, NEW n \in Nat
  PROVE  \E place : Leads(s, text, place, n)
<1> DEFINE S == {m \in Nat : \E place : Leads(s, text, place, m)}
<1>1. 0 \in S
  <2> DEFINE f == [k \in 0..0 |-> Phase("start")]
  <2>1. IsFunctionOn(f, 0..0) /\ f[0] = Phase("start")
    BY DEF IsFunctionOn
  <2> HIDE DEF f
  <2> QED
    BY <2>1 DEF Leads
<1>2. ASSUME NEW m \in Nat, m \in S PROVE m + 1 \in S
  <2>1. PICK f : Leads(s, text, f, m)
    BY <1>2
  <2> DEFINE last == After(s, f[m], text[m + 1])
             g == [k \in 0..(m + 1) |-> IF k = m + 1 THEN last ELSE f[k]]
  <2> HIDE DEF last
  <2>2. IsFunctionOn(g, 0..(m + 1)) /\ g[m + 1] = last /\ \A k \in 0..m : g[k] = f[k]
    BY DEF IsFunctionOn
  <2> HIDE DEF g
  <2>3. g[0] = Phase("start")
    BY <2>1, <2>2 DEF Leads
  <2>4. ASSUME NEW k \in 1..(m + 1) PROVE g[k] = After(s, g[k - 1], text[k])
    <3>1. CASE k = m + 1
      <4>1. k - 1 = m /\ m \in 0..m
        BY <3>1
      <4> QED
        BY <2>2, <3>1, <4>1 DEF last
    <3>2. CASE k # m + 1
      <4>1. k \in 1..m /\ k \in 0..m /\ k - 1 \in 0..m
        BY <3>2
      <4>2. f[k] = After(s, f[k - 1], text[k])
        BY <2>1, <4>1 DEF Leads
      <4> QED
        BY <2>2, <4>1, <4>2
    <3> QED
      BY <3>1, <3>2
  <2>5. Leads(s, text, g, m + 1)
    BY <2>2, <2>3, <2>4 DEF Leads
  <2> QED
    BY <2>5
<1> HIDE DEF S
<1>3. n \in S
  BY <1>1, <1>2, Induction
<1> QED
  BY <1>3 DEF S

LEMMA PlacesLead ==
  ASSUME NEW s, NEW text, IsSeq(text)
  PROVE  /\ Places(text, s)[0] = Phase("start")
         /\ \A k \in 1..Len(text) : Places(text, s)[k] = After(s, Places(text, s)[k - 1], text[k])
<1> DEFINE n == Len(text)
           Step(f) == [k \in 0..n |-> IF k = 0 THEN Phase("start") ELSE After(s, f[k - 1], text[k])]
           pl == CHOOSE f : f = Step(f)
<1>1. n \in Nat
  BY SeqFacts
<1> HIDE DEF n
<1>2. PICK f : Leads(s, text, f, n)
  BY <1>1, SomePlaces
<1>3. f = Step(f)
  <2> DEFINE g == Step(f)
  <2>1. IsFunctionOn(g, 0..n) /\ IsFunctionOn(f, 0..n)
    BY <1>2 DEF IsFunctionOn, Leads
  <2>2. \A k \in 0..n : g[k] = IF k = 0 THEN Phase("start") ELSE After(s, f[k - 1], text[k])
    OBVIOUS
  <2> HIDE DEF g
  <2>3. \A k \in 0..n : f[k] = g[k]
    BY <1>1, <1>2, <2>2 DEF Leads
  <2>4. f = g
    BY <2>1, <2>3 DEF IsFunctionOn
  <2> QED
    BY <2>4 DEF g
<1>4. pl = Step(pl)
  BY <1>3
<1>5. Places(text, s) = pl
  BY DEF Places, n
<1> HIDE DEF pl
<1>6. 0 \in 0..n /\ \A k \in 1..n : k \in 0..n /\ k # 0
  BY <1>1
<1>7. pl[0] = Phase("start") /\ \A k \in 1..n : pl[k] = After(s, pl[k - 1], text[k])
  BY <1>4, <1>6, Zenon
<1> QED
  BY <1>5, <1>7 DEF n

(* The writing of s goes on from c with the rest, without the end of a     *)
(* file in it, and it may end there. *)
Goes(s, c, rest, place) ==
  /\ place[0] = c
  /\ \A k \in 1..Len(rest) : place[k] = After(s, place[k - 1], rest[k]) /\ place[k] # Nowhere

Continues(s, c, rest, ended) ==
  /\ IsSeq(rest) /\ "eof" \notin ToSet(rest)
  /\ \E place : Goes(s, c, rest, place) /\ MayEnd(s, place[Len(rest)], ended)

LEMMA LaidOutContinues ==
  ASSUME NEW s, NEW text, IsSeq(text), LaidOut(text, s)
  PROVE  Continues(s, Phase("start"), text, EndsLine(text))
<1> DEFINE pl == Places(text, s)
           n == Len(text)
<1>1. n \in Nat /\ MayEnd(s, pl[n], EndsLine(text))
  BY SeqFacts DEF LaidOut
<1>2. pl[0] = Phase("start") /\ \A k \in 1..n : pl[k] = After(s, pl[k - 1], text[k])
  BY PlacesLead
<1> HIDE DEF pl, n
<1>3. Nowhere.at = "nowhere"
  BY PhaseFields DEF Nowhere
<1>4. \A y : After(s, Nowhere, y) = Nowhere
  BY <1>3 DEF After
<1> DEFINE S == {m \in Nat : m <= n => pl[n - m] # Nowhere}
<1>5. 0 \in S
  <2>1. n - 0 = n /\ pl[n] # Nowhere
    BY <1>1, <1>3 DEF MayEnd
  <2> QED
    BY <2>1
<1>6. ASSUME NEW m \in Nat, m \in S PROVE m + 1 \in S
  <2> SUFFICES ASSUME m + 1 <= n PROVE pl[n - (m + 1)] # Nowhere
    OBVIOUS
  <2>1. n - m \in 1..n /\ (n - m) - 1 = n - (m + 1) /\ pl[n - m] # Nowhere
    BY <1>1, <1>6
  <2>2. pl[n - m] = After(s, pl[n - (m + 1)], text[n - m])
    BY <1>2, <2>1
  <2> QED
    BY <1>4, <2>1, <2>2
<1> HIDE DEF S
<1>7. Nat \subseteq S
  BY <1>5, <1>6, Induction
<1>8. ASSUME NEW k \in 1..n PROVE pl[k] # Nowhere
  <2>1. n - k \in S /\ n - k <= n /\ n - (n - k) = k
    BY <1>1, <1>7
  <2> QED
    BY <2>1 DEF S
<1>9. Goes(s, Phase("start"), text, pl)
  BY <1>2, <1>8 DEF Goes, n
<1> QED
  BY <1>1, <1>9 DEF Continues, n, LaidOut

LEMMA ContinuesLive ==
  ASSUME NEW s, NEW c, NEW rest, NEW ended, Continues(s, c, rest, ended)
  PROVE  /\ rest = <<>> => MayEnd(s, c, ended)
         /\ rest # <<>> => /\ Head(rest) # "eof"
                           /\ After(s, c, Head(rest)) # Nowhere
                           /\ Continues(s, After(s, c, Head(rest)), Tail(rest), ended)
<1> DEFINE n == Len(rest)
<1>1. PICK place : Goes(s, c, rest, place) /\ MayEnd(s, place[n], ended)
  BY DEF Continues
<1>2. IsSeq(rest) /\ n \in Nat /\ DOMAIN rest = 1..n
  BY SeqFacts DEF Continues
<1>3. CASE rest = <<>>
  BY <1>1, <1>3 DEF Goes
<1>4. CASE rest # <<>>
  <2> DEFINE y == Head(rest)
             t == Tail(rest)
             next == [k \in 0..(n - 1) |-> place[k + 1]]
  <2>1. rest \in Seq(ToSet(rest)) /\ n \in Nat \ {0}
    BY <1>2, <1>4, EmptySeq DEF IsSeq
  <2>2. y = rest[1] /\ 1 \in 1..n
    BY <2>1
  <2>3. y # "eof"
    BY <1>2, <2>2 DEF ToSet, Continues
  <2>4. place[0] = c /\ place[1] = After(s, c, y) /\ place[1] # Nowhere
    <3>1. place[1] = After(s, place[1 - 1], rest[1]) /\ place[1] # Nowhere /\ 1 - 1 = 0 /\ place[0] = c
      BY <1>1, <2>2 DEF Goes
    <3> QED
      BY <2>2, <3>1
  <2>5. IsSeq(t) /\ Len(t) = n - 1 /\ \A k \in 1..(n - 1) : t[k] = rest[k + 1]
    <3>1. \A k \in 1..(n - 1) : t[k] = rest[k + 1]
      BY <2>1
    <3> QED
      BY <1>2, <1>4, <3>1, SeqTail
  <2>6. "eof" \notin ToSet(t)
    <3>1. DOMAIN t = 1..(n - 1)
      BY <2>5, SeqFacts
    <3>2. \A k \in 1..(n - 1) : k + 1 \in DOMAIN rest
      BY <1>2
    <3> QED
      BY <2>5, <3>1, <3>2 DEF ToSet, Continues
  <2> HIDE DEF y, t, n
  <2>7. next[0] = place[1] /\ next[n - 1] = place[n] /\ \A k \in 1..(n - 1) : next[k] = place[k + 1] /\ next[k - 1] = place[k]
    BY <2>1
  <2> HIDE DEF next
  <2>8. ASSUME NEW k \in 1..(n - 1)
        PROVE  next[k] = After(s, next[k - 1], t[k]) /\ next[k] # Nowhere
    <3>1. k + 1 \in 1..n /\ (k + 1) - 1 = k
      BY <2>1
    <3>2. place[k + 1] = After(s, place[k], rest[k + 1]) /\ place[k + 1] # Nowhere
      BY <1>1, <3>1 DEF Goes, n
    <3> QED
      BY <2>5, <2>7, <3>2
  <2>9. Goes(s, After(s, c, y), t, next)
    BY <2>4, <2>5, <2>7, <2>8 DEF Goes
  <2>10. Continues(s, After(s, c, y), t, ended)
    BY <1>1, <2>5, <2>6, <2>7, <2>9 DEF Continues
  <2> QED
    BY <1>4, <2>3, <2>4, <2>10 DEF y, t
<1> QED
  BY <1>3, <1>4

(* So the place is live. *)
LEMMA LiveIs ==
  ASSUME NEW s, NEW c, NEW ended, Continues(s, c, source, ended)
  PROVE  Live(s, c, sym) /\ (source # <<>> => sym # "eof")
<1>1. CASE source = <<>>
  BY <1>1, ContinuesLive DEF MayEnd, Live, Finished, sym
<1>2. CASE source # <<>>
  BY <1>2, ContinuesLive DEF Live, sym
<1> QED
  BY <1>1, <1>2

(* A legal value does not begin with three quotes: after the second the    *)
(* string is complete. *)
LEMMA ThirdQuote ==
  ASSUME NEW s, NEW o, NEW at, NEW q,
         (at = "basic" /\ q = "dq") \/ (at = "literal" /\ q = "sq"),
         After(s, Place(at, 0, 0, o), q) # Nowhere
  PROVE  After(s, After(s, Place(at, 0, 0, o), q), q) = Nowhere
<1> DEFINE c == Place(at, 0, 0, o)
           d == After(s, c, q)
<1>0. at \in TextModes /\ q # "eof"
  BY DEF TextModes
<1>1. d = AfterText(c) /\ c.part = 0 /\ c.open = o
  <2>1. \/ at = "basic" /\ q = "dq" /\ d = AfterText(c)
        \/ at = "literal" /\ q = "sq" /\ d = AfterText(c)
    BY <1>0, FromText
  <2> QED
    BY <2>1, PlaceFields
<1>2. d = AfterValue(o)
  BY <1>1 DEF AfterText
<1>3. CASE o = <<>>
  <2>1. d = Phase("lineEnd")
    BY <1>2, <1>3 DEF AfterValue
  <2> QED
    BY <2>1, FromLineEnd
<1>4. CASE o # <<>>
  <2> DEFINE r == [o EXCEPT ![Len(o)] = Level(@.items, @.done + 1)]
  <2>1. d = Place("afterElement", 0, 0, r)
    BY <1>2, <1>4 DEF AfterValue
  <2> HIDE DEF r, d
  <2>2. After(s, d, q) = Nowhere
    BY <2>1, FromItem DEF Blank
  <2> QED
    BY <2>2 DEF d
<1> QED
  BY <1>3, <1>4

LEMMA NotTripled ==
  ASSUME NEW s, NEW c, NEW ended, Continues(s, c, source, ended),
         BeforeValue(c, sym), NEW q \in {"dq", "sq"}
  PROVE  ~Tripled(q)
<1> SUFFICES ASSUME Tripled(q) PROVE FALSE
  OBVIOUS
<1> DEFINE n == Len(source)
           rest == Tail(source)
           d == After(s, c, q)
           e == After(s, d, q)
<1>1. source \in Seq(ToSet(source)) /\ n \in Nat /\ n >= 3
  BY DEF Continues, IsSeq, Tripled
<1>2. source[1] = q /\ source[2] = q /\ source[3] = q
  <2> DEFINE t == SubSeq(source, 1, 3)
  <2>1. t = <<q, q, q>>
    BY DEF Tripled
  <2>2. t[1] = source[1] /\ t[2] = source[2] /\ t[3] = source[3]
    BY <1>1
  <2> HIDE DEF t
  <2> QED
    BY <2>1, <2>2
<1>3. source # <<>> /\ Head(source) = q /\ sym = q
  BY <1>1, <1>2 DEF sym
<1>4. rest # <<>> /\ Head(rest) = q
  <2>1. rest \in Seq(ToSet(source)) /\ Len(rest) = n - 1 /\ rest[1] = source[2]
    BY <1>1, <1>3
  <2> HIDE DEF rest
  <2>2. rest # <<>> /\ Head(rest) = rest[1]
    BY <1>1, <2>1
  <2> QED
    BY <1>2, <2>1, <2>2
<1>5. Tail(rest) # <<>> /\ Head(Tail(rest)) = q
  <2>1. /\ rest \in Seq(ToSet(source)) /\ Len(rest) = n - 1
        /\ rest[2] = source[3]
    BY <1>1, <1>3
  <2> HIDE DEF rest
  <2> DEFINE t == Tail(rest)
  <2>2. t \in Seq(ToSet(source)) /\ Len(t) = n - 2 /\ t[1] = rest[2]
    BY <1>1, <1>4, <2>1
  <2> HIDE DEF t
  <2>3. t # <<>> /\ Head(t) = t[1]
    BY <1>1, <2>2
  <2> QED
    BY <1>2, <2>1, <2>2, <2>3 DEF t
<1>6. d # Nowhere /\ Continues(s, d, rest, ended)
  BY <1>3, ContinuesLive
<1> HIDE DEF rest
<1>7. e # Nowhere /\ Continues(s, e, Tail(rest), ended)
  BY <1>4, <1>6, ContinuesLive
<1>8. After(s, e, q) # Nowhere
  BY <1>5, <1>7, ContinuesLive
<1>9. q # "eof" /\ Live(s, c, q)
  BY <1>6 DEF Live
<1>10. d = BeginValue(s, c.open, q)
  BY <1>3, <1>9, AnyValue
<1>11. \/ q = "dq" /\ d = Place("basic", 0, 0, c.open)
       \/ q = "sq" /\ d = Place("literal", 0, 0, c.open)
  BY <1>6, <1>10, FromValue DEF Numeric, Digits
<1> QED
  BY <1>7, <1>8, <1>11, ThirdQuote

-------------------------------------------------------------------------------
(* A statement goes into the tree. *)

SplitAt(a, x, b, t) ==
  /\ IsSeq(t) /\ IsPrefix(a, t) /\ t = Append(a, x) \o b
  /\ Len(a) + 1 \in DOMAIN t /\ t[Len(a) + 1] = x
  /\ SubSeq(t, 1, (Len(a) + 1) - 1) = a /\ SubSeq(t, 1, Len(a) + 1) = Append(a, x)

LEMMA Splits ==
  ASSUME NEW a, IsSeq(a), NEW x, NEW b, IsSeq(b), NEW t, t = a \o (<<x>> \o b)
  PROVE  SplitAt(a, x, b, t)
<1> DEFINE S == ToSet(a) \union {x} \union ToSet(b)
           n == Len(a)
           m == Len(b)
<1>1. a \in Seq(S) /\ b \in Seq(S) /\ <<x>> \in Seq(S) /\ x \in S
  <2>1. a \in Seq(ToSet(a)) /\ b \in Seq(ToSet(b))
    BY DEF IsSeq
  <2>2. a \in Seq(S) /\ b \in Seq(S)
    BY <2>1, SeqMonotonic
  <2> QED
    BY <2>2
<1> HIDE DEF S
<1> DEFINE c == <<x>> \o b
<1>2. n \in Nat /\ m \in Nat
  BY <1>1
<1>3. c \in Seq(S) /\ Len(c) = m + 1 /\ c[1] = x /\ \A i \in 1..m : c[i + 1] = b[i]
  BY <1>1, <1>2
<1> HIDE DEF c
<1>4. t = a \o c
  BY DEF c
<1>5. /\ t \in Seq(S) /\ Len(t) = n + (m + 1)
      /\ \A i \in 1..n : t[i] = a[i]
      /\ \A i \in 1..(m + 1) : t[n + i] = c[i]
  BY <1>1, <1>2, <1>3, <1>4
<1>6. t[n + 1] = x /\ n + 1 \in DOMAIN t /\ (n + 1) - 1 = n /\ DOMAIN t = 1..Len(t)
  <2>1. 1 \in 1..(m + 1) /\ n + 1 \in 1..(n + (m + 1))
    BY <1>2
  <2> QED
    BY <1>2, <1>3, <1>5, <2>1
<1>7. SubSeq(t, 1, n) = a
  <2> DEFINE u == SubSeq(t, 1, n)
  <2>1. u \in Seq(S) /\ Len(u) = n /\ \A i \in 1..n : u[i] = t[i]
    BY <1>2, <1>5
  <2> HIDE DEF u
  <2>2. u = a
    BY <1>1, <1>2, <1>5, <2>1, SeqEqual
  <2> QED
    BY <2>2 DEF u
<1>8. SubSeq(a, 1, n) = a
  BY Beginnings DEF n
<1>9. IsPrefix(a, t)
  BY <1>2, <1>5, <1>7, <1>8 DEF IsPrefix
<1>10. t = Append(a, x) \o b
  BY <1>1, ConcatAssociative, AppendIsConcat, SMTT(30), ZenonT(30)
<1>12. SubSeq(t, 1, n + 1) = Append(a, x)
  <2> DEFINE u == SubSeq(t, 1, n + 1)
             v == Append(a, x)
  <2>1. n + 1 \in 0..Len(t) /\ u \in Seq(S) /\ Len(u) = n + 1 /\ \A i \in 1..(n + 1) : u[i] = t[i]
    BY <1>2, <1>5
  <2>2. /\ v \in Seq(S) /\ Len(v) = n + 1 /\ \A i \in 1..n : v[i] = a[i]
        /\ v[n + 1] = x
    BY <1>1, AppendProperties
  <2> HIDE DEF u, v
  <2>3. \A i \in 1..(n + 1) : u[i] = v[i]
    <3>1. \A i \in 1..(n + 1) : i = n + 1 \/ i \in 1..n
      BY <1>2
    <3> QED
      BY <1>5, <1>6, <2>1, <2>2, <3>1
  <2>4. u = v
    BY <2>1, <2>2, <2>3, SeqEqual
  <2> QED
    BY <2>4 DEF u, v
<1>11. IsSeq(t) /\ Len(a) + 1 \in DOMAIN t /\ t[Len(a) + 1] = x /\ SubSeq(t, 1, (Len(a) + 1) - 1) = a
  BY <1>5, <1>6, <1>7, MadeSeq
<1> QED
  BY <1>9, <1>10, <1>11, <1>12 DEF SplitAt

(* The reader in step with the writing of s, which has got to c. *)
InStepAt(s, c, ended) ==
  /\ Sayable(s) /\ Continues(s, c, source, ended) /\ (closed \/ ended)
  /\ Agrees(p, s, c, sym) /\ Accounted(p, s, c)

InStep == IsSeq(said) /\ (~amiss => \E s, c, ended : InStepAt(s, c, ended))

LEMMA OwnIs ==
  ASSUME NEW s, NEW x
  PROVE  /\ IsSeq(Own(s)) /\ Own(Nothing) = <<>> /\ (s # Nothing => Own(s) = <<s>>)
         /\ <<x>> \o <<>> = <<x>> /\ <<>> \o Own(s) = Own(s)
<1>1. IsSeq(<<>>) /\ <<s>> \in Seq({s}) /\ <<x>> \in Seq({x})
  BY EmptyList
<1>2. IsSeq(<<s>>)
  BY <1>1, MadeSeq
<1>3. <<>> \o <<>> = <<>> /\ <<>> \o <<s>> = <<s>> /\ <<x>> \o <<>> = <<x>>
  BY <1>1, ConcatEmptySeq
<1> QED
  BY <1>1, <1>2, <1>3 DEF Own

(* Once it is in the tree, the parser still owes the statements in more.   *)
StillOwes(s, c, y, more) ==
  /\ IsSeq(more) /\ Owed(p, s, c.at) = <<p.stmt>> \o more
  /\ \A q : q.mode = "statement" /\ ~q.comment
              => AtStatement(q, c, y) /\ Owed(q, s, c.at) = more

LEMMA AppliedStatement ==
  ASSUME NEW s, NEW c, NEW y, Parser(p), p.mode = "apply", ~p.comment, AtApply(p, s, c, y)
  PROVE  \E more : StillOwes(s, c, y, more)
<1>1. CASE c = Phase("start")
  <2>1. c.at = "start"
    BY <1>1, PhaseFields
  <2>2. Owed(p, s, c.at) = <<p.stmt>> \o Own(s) /\ IsSeq(Own(s))
    BY <2>1, OwedIs, OwnIs
  <2>3. ASSUME NEW q, q.mode = "statement", ~q.comment
        PROVE  AtStatement(q, c, y) /\ Owed(q, s, c.at) = Own(s)
    BY <1>1, <2>1, <2>3, OwedIs DEF AtStatement
  <2> QED
    BY <2>2, <2>3 DEF StillOwes
<1>2. CASE c # Phase("start")
  <2>1. /\ p.stmt = s
        /\ \/ c = Phase("done")
           \/ c \in {Phase("return"), Phase("lineEnd"), Phase("lastRemark")} /\ y \in Break
    BY <1>2 DEF AtApply
  <2>2. c.at \notin {"start", "remark"}
    BY <2>1, PhaseFields
  <2>3. s # Nothing
    <3>1. s.kind \in Kinds
      BY <2>1 DEF Parser, EndModes, Complete
    <3>2. Nothing.kind = ""
      BY DEF Nothing, Statement
    <3> QED
      BY <3>1, <3>2 DEF Kinds
  <2>4. Owed(p, s, c.at) = <<p.stmt>> \o <<>>
    <3>1. Own(s) = <<s>> /\ <<s>> \o <<>> = <<s>>
      BY <2>3, OwnIs
    <3>2. Owed(p, s, c.at) = Own(s)
      BY <2>2, EndOwes
    <3> QED
      BY <2>1, <3>1, <3>2
  <2>5. ASSUME NEW q, q.mode = "statement", ~q.comment
        PROVE  AtStatement(q, c, y) /\ Owed(q, s, c.at) = <<>>
    BY <2>1, <2>2, <2>5, OwedIs DEF AtStatement
  <2> QED
    BY <2>4, <2>5, EmptyList DEF StillOwes
<1> QED
  BY <1>1, <1>2

(* The tree that grows from a list of statements: the recursion of Grown   *)
(* is defined, and goes on with the list. *)

IsGrowth(w, s, m) ==
  /\ IsFunctionOn(w, 0..m) /\ w[0] = NewTree
  /\ \A n \in 1..m : w[n] = Grow(w[n - 1], s[n])

LEMMA GrowthExists ==
  ASSUME NEW s
  PROVE  \A m \in Nat : \E w : IsGrowth(w, s, m)
<1> DEFINE S == {m \in Nat : \E w : IsGrowth(w, s, m)}
<1>1. 0 \in S
  <2> DEFINE w == [n \in 0..0 |-> NewTree]
  <2>1. IsFunctionOn(w, 0..0) /\ w[0] = NewTree
    BY DEF IsFunctionOn
  <2> HIDE DEF w
  <2>2. IsGrowth(w, s, 0)
    BY <2>1 DEF IsGrowth
  <2> QED
    BY <2>2
<1>2. ASSUME NEW m \in Nat, m \in S PROVE m + 1 \in S
  <2>1. PICK w : IsGrowth(w, s, m)
    BY <1>2
  <2> DEFINE v == [n \in 0..(m + 1) |-> IF n = m + 1 THEN Grow(w[m], s[m + 1]) ELSE w[n]]
  <2>2. IsFunctionOn(v, 0..(m + 1))
    BY DEF IsFunctionOn
  <2>3. v[m + 1] = Grow(w[m], s[m + 1]) /\ \A n \in 0..m : v[n] = w[n]
    OBVIOUS
  <2> HIDE DEF v
  <2>4. v[0] = NewTree
    BY <2>1, <2>3 DEF IsGrowth
  <2>5. ASSUME NEW n \in 1..(m + 1) PROVE v[n] = Grow(v[n - 1], s[n])
    <3>1. CASE n = m + 1
      <4>1. n - 1 = m /\ m \in 0..m
        BY <3>1
      <4> QED
        BY <2>3, <3>1, <4>1
    <3>2. CASE n # m + 1
      <4>1. n \in 1..m /\ n \in 0..m /\ n - 1 \in 0..m
        BY <3>2
      <4>2. w[n] = Grow(w[n - 1], s[n])
        BY <2>1, <4>1 DEF IsGrowth
      <4> QED
        BY <2>3, <4>1, <4>2
    <3> QED
      BY <3>1, <3>2
  <2>6. IsGrowth(v, s, m + 1)
    BY <2>2, <2>4, <2>5 DEF IsGrowth
  <2> QED
    BY <2>6
<1> HIDE DEF S
<1>3. Nat \subseteq S
  BY <1>1, <1>2, Induction
<1> QED
  BY <1>3 DEF S

LEMMA GrownIs ==
  ASSUME NEW s, IsSeq(s)
  PROVE  \E w : IsGrowth(w, s, Len(s)) /\ Grown(s) = w[Len(s)]
<1> DEFINE Def(w) == [n \in 0..Len(s) |-> IF n = 0 THEN NewTree ELSE Grow(w[n - 1], s[n])]
<1>0. Len(s) \in Nat
  BY SeqFacts
<1>1. PICK w : IsGrowth(w, s, Len(s))
  BY <1>0, GrowthExists
<1>2. IsFunctionOn(Def(w), 0..Len(s))
  BY DEF IsFunctionOn
<1>3. ASSUME NEW n \in 0..Len(s) PROVE w[n] = Def(w)[n]
  <2>1. CASE n = 0
    BY <1>1, <2>1 DEF IsGrowth
  <2>2. CASE n # 0
    BY <1>0, <1>1, <2>2 DEF IsGrowth
  <2> QED
    BY <2>1, <2>2
<1>4. w = Def(w)
  <2> HIDE DEF Def
  <2> QED
    BY <1>1, <1>2, <1>3, SameFunction DEF IsGrowth
<1> DEFINE grown == CHOOSE u : u = Def(u)
<1>5. Grown(s) = grown[Len(s)]
  BY DEF Grown
<1>6. grown = Def(grown)
  <2> HIDE DEF Def
  <2> QED
    BY <1>4
<1> HIDE DEF grown
<1>7. IsFunctionOn(grown, 0..Len(s))
  <2>1. IsFunctionOn(Def(grown), 0..Len(s))
    BY DEF IsFunctionOn
  <2> HIDE DEF Def
  <2> QED
    BY <1>6, <2>1
<1>8. ASSUME NEW n \in 0..Len(s)
      PROVE  grown[n] = IF n = 0 THEN NewTree ELSE Grow(grown[n - 1], s[n])
  <2>1. Def(grown)[n] = IF n = 0 THEN NewTree ELSE Grow(grown[n - 1], s[n])
    OBVIOUS
  <2> HIDE DEF Def
  <2> QED
    BY <1>6, <2>1
<1> HIDE DEF Def
<1>9. IsGrowth(grown, s, Len(s))
  <2>1. grown[0] = NewTree
    BY <1>0, <1>8
  <2>2. ASSUME NEW n \in 1..Len(s) PROVE grown[n] = Grow(grown[n - 1], s[n])
    <3>1. n \in 0..Len(s) /\ n # 0
      BY <1>0
    <3> QED
      BY <1>8, <3>1
  <2> QED
    BY <1>7, <2>1, <2>2 DEF IsGrowth
<1> QED
  BY <1>5, <1>9

(* As long as two lists agree, so do the trees that grow from them. *)
AgreeUpTo(n, s, t) == \A i \in 1..n : t[i] = s[i]

LEMMA SameGrowth ==
  ASSUME NEW n \in Nat, NEW s, NEW t, AgreeUpTo(n, s, t),
         NEW w, IsGrowth(w, s, n), NEW v, IsGrowth(v, t, n + 1)
  PROVE  v[n] = w[n]
<1> DEFINE S == {i \in Nat : i <= n => v[i] = w[i]}
<1>1. 0 \in S
  BY DEF IsGrowth
<1>2. ASSUME NEW i \in Nat, i \in S PROVE i + 1 \in S
  <2> SUFFICES ASSUME i + 1 <= n PROVE v[i + 1] = w[i + 1]
    OBVIOUS
  <2>1. i + 1 \in 1..n /\ i + 1 \in 1..(n + 1) /\ (i + 1) - 1 = i
    OBVIOUS
  <2>2. v[i + 1] = Grow(v[i], t[i + 1]) /\ w[i + 1] = Grow(w[i], s[i + 1])
    BY <2>1 DEF IsGrowth
  <2>3. v[i] = w[i]
    BY <1>2, <2>1
  <2>4. t[i + 1] = s[i + 1]
    BY <2>1 DEF AgreeUpTo
  <2> QED
    BY <2>2, <2>3, <2>4
<1> HIDE DEF S
<1>3. Nat \subseteq S
  BY <1>1, <1>2, Induction
<1> QED
  BY <1>3 DEF S

LEMMA GrownNone == Grown(<<>>) = NewTree
<1>1. PICK w : IsGrowth(w, <<>>, Len(<<>>)) /\ Grown(<<>>) = w[Len(<<>>)]
  BY GrownIs, EmptyList
<1> QED
  BY <1>1 DEF IsGrowth

LEMMA GrownMore ==
  ASSUME NEW s, IsSeq(s), NEW x
  PROVE  Grown(Append(s, x)) = Grow(Grown(s), x)
<1> DEFINE n == Len(s)
           t == Append(s, x)
           S == ToSet(s) \union {x}
<1>1. s \in Seq(S) /\ x \in S
  <2>1. s \in Seq(ToSet(s))
    BY DEF IsSeq
  <2> QED
    BY <2>1, SeqMonotonic
<1> HIDE DEF S
<1>2. n \in Nat /\ Len(t) = n + 1 /\ t[n + 1] = x /\ \A i \in 1..n : t[i] = s[i]
  BY <1>1, AppendProperties
<1>3. IsSeq(t)
  BY SeqAppend
<1>4. PICK w : IsGrowth(w, s, n) /\ Grown(s) = w[n]
  BY GrownIs
<1>5. PICK v : IsGrowth(v, t, n + 1) /\ Grown(t) = v[n + 1]
  BY <1>2, <1>3, GrownIs
<1> HIDE DEF n, t
<1>6. n + 1 \in 1..(n + 1) /\ (n + 1) - 1 = n
  BY <1>2
<1>7. v[n] = w[n]
  <2>1. AgreeUpTo(n, s, t)
    BY <1>2 DEF AgreeUpTo
  <2> QED
    BY <1>2, <1>4, <1>5, <2>1, SameGrowth
<1>8. v[n + 1] = Grow(v[n], t[n + 1])
  BY <1>5, <1>6 DEF IsGrowth
<1>9. Grown(t) = Grow(Grown(s), x)
  BY <1>2, <1>4, <1>5, <1>7, <1>8
<1> QED
  BY <1>9 DEF t

(* The parser has the tree of what it has read. *)
Built == tree = Grown(read) /\ tree.why = ""

LEMMA BuiltStarts == Init => Built
<1>1. NewTree.why = ""
  BY Zenon DEF NewTree
<1> QED
  BY <1>1, GrownNone DEF Init, Built

LEMMA BuiltStays == Scanning /\ Built /\ [Next]_scanVars => Built'
<1> SUFFICES ASSUME Scanning, Built, [Next]_scanVars PROVE Built'
  OBVIOUS
<1>1. Parser(p) /\ IsSeq(read)
  BY DEF Scanning, Reads
<1>2. CASE UNCHANGED <<tree, read>>
  BY <1>2 DEF Built
<1>3. CASE Apply
  <2>1. CASE Grow(tree, p.stmt).why # ""
    BY <1>2, <1>3, <2>1 DEF Apply
  <2>2. CASE Grow(tree, p.stmt).why = ""
    <3>1. tree' = Grow(tree, p.stmt) /\ read' = Append(read, p.stmt)
      BY <1>3, <2>2 DEF Apply
    <3>2. Grown(read') = Grow(Grown(read), p.stmt)
      BY <1>1, <3>1, GrownMore
    <3> QED
      BY <2>2, <3>1, <3>2 DEF Built
  <2> QED
    BY <2>1, <2>2
<1>4. CASE Took \/ Went
  BY <1>2, <1>4 DEF Took, Went, LookAt
<1>5. CASE (\E l \in Lines : Write(l)) \/ Close \/ UNCHANGED scanVars
  BY <1>2, <1>5 DEF Write, Close, scanVars
<1> QED
  BY <1>1, <1>3, <1>4, <1>5, Moves DEF Next

LEMMA ApplyInStep ==
  ASSUME Parser(p), Reads, Built, Apply, NEW s, NEW c, NEW ended, InStepAt(s, c, ended)
  PROVE  InStepAt(s, c, ended)'
<1>1. /\ DOMAIN p = Fields /\ p.mode = "apply" /\ ~p.comment
      /\ UNCHANGED <<source, closed, said>>
      /\ AtApply(p, s, c, sym) /\ said = read \o Owed(p, s, c.at)
  BY DEF Apply, Parser, history, InStepAt, Agrees, Accounted
<1>2. PICK more : StillOwes(s, c, sym, more)
  BY <1>1, AppliedStatement
<1> DEFINE i == Len(read) + 1
<1>3. /\ IsPrefix(read, said) /\ said = Append(read, p.stmt) \o more
      /\ i \in DOMAIN said /\ SubSeq(said, 1, i - 1) = read
      /\ SubSeq(said, 1, i) = Append(read, p.stmt)
  <2> DEFINE x == p.stmt
  <2>1. said = read \o (<<x>> \o more) /\ IsSeq(read) /\ IsSeq(more)
    BY <1>1, <1>2 DEF Reads, StillOwes
  <2> HIDE DEF x
  <2>2. SplitAt(read, x, more, said)
    BY <2>1, Splits
  <2> QED
    BY <2>2 DEF SplitAt, x
<1> HIDE DEF i
<1>4. sym' = sym
  BY <1>1 DEF sym
<1>5. CASE Grow(tree, p.stmt).why # ""
  <2>1. p'.mode = "conflict" /\ UNCHANGED read
    BY <1>1, <1>5 DEF Apply, To, With, Fields
  <2>2. AtClash
    <3>1. Grown(SubSeq(said, 1, i)) = Grow(tree, p.stmt)
      BY <1>3, GrownMore DEF Reads, Built
    <3> QED
      BY <1>3, <1>5, <3>1 DEF AtClash
  <2>3. AtClash'
    BY <1>1, <2>1, <2>2 DEF AtClash
  <2>4. IsPrefix(read, said)'
    BY <1>1, <1>3, <2>1
  <2>5. Accounted(p, s, c)'
    BY <2>1, <2>3, <2>4 DEF Accounted
  <2>6. Agrees(p, s, c, sym)'
    BY <2>1, <1>4, Arrives
  <2> QED
    BY <1>1, <2>5, <2>6 DEF InStepAt
<1>6. CASE Grow(tree, p.stmt).why = ""
  <2>1. p'.mode = "statement" /\ ~p'.comment /\ read' = Append(read, p.stmt)
    BY <1>1, <1>6 DEF Apply, With, Fields
  <2>2. AtStatement(p', c, sym) /\ Owed(p', s, c.at) = more
    BY <1>2, <2>1 DEF StillOwes
  <2>3. Accounted(p, s, c)'
    BY <1>1, <1>3, <2>1, <2>2 DEF Accounted
  <2>4. Agrees(p', s, c, sym)
    BY <2>1, <2>2, Arrives
  <2>5. Agrees(p, s, c, sym)'
    BY <1>4, <2>4
  <2> QED
    BY <1>1, <2>3, <2>5 DEF InStepAt
<1> QED
  BY <1>5, <1>6

(* Only the tree finds a conflict. *)
LEMMA NoConflict ==
  ASSUME Parser(p), Parse, ~Apply
  PROVE  p.mode \notin {"conflict", "end", "error"} /\ p'.mode # "conflict"
<1>1. DOMAIN p = Fields
  BY DEF Parser
<1>2. CASE SkipBlank
  BY <1>1, <1>2, Takes DEF SkipBlank, Skip, At, Becomes
<1>3. CASE Comment
  BY <1>1, <1>3, Takes, GoesOn DEF Comment, Skip, Becomes, Parser
<1>4. CASE ParseStatement \/ ParseTableHeader \/ CloseHeader \/ ParseKeyPath
  BY <1>1, <1>4, Takes, GoesOn
     DEF ParseStatement, ParseTableHeader, CloseHeader, ParseKeyPath, Skip, At, Becomes
<1>5. CASE BareKey
  BY <1>1, <1>5, Takes, GoesOn DEF BareKey, At, Becomes
<1>13. CASE AfterPart \/ ParseKeyValue
  BY <1>1, <1>13, Takes, GoesOn DEF AfterPart, ParseKeyValue, Skip, At, Becomes
<1>6. ASSUME NEW v, NEW o, Go(WithValue(v, o)) \/ Take(WithValue(v, o))
      PROVE  p'.mode # "conflict"
  <2> DEFINE r == [o EXCEPT ![Len(o)] = Append(@, v)]
             w == [p.stmt EXCEPT !.value = v]
  <2>1. \/ Go([mode |-> "lineEnd", stmt |-> w, open |-> o])
        \/ Go([mode |-> "afterElement", open |-> r])
        \/ Take([mode |-> "lineEnd", stmt |-> w, open |-> o])
        \/ Take([mode |-> "afterElement", open |-> r])
    BY <1>6 DEF WithValue
  <2> HIDE DEF r, w
  <2> QED
    BY <1>1, <2>1, Takes, GoesOn DEF Becomes
<1>7. ASSUME Take(WithString) PROVE p'.mode # "conflict"
  <2>1. CASE Take(WithPart(p.buf))
    BY <1>1, <2>1, Takes DEF WithPart, Becomes
  <2> QED
    BY <1>6, <1>7, <2>1 DEF WithString
<1>8. CASE ParseValue
  BY <1>1, <1>6, <1>8, Takes, GoesOn DEF ParseValue, At, Becomes
<1>9. CASE ParseBasicString \/ ParseEscape \/ ParseLiteralString
  BY <1>1, <1>7, <1>9, Takes, GoesOn DEF ParseBasicString, ParseEscape, ParseLiteralString, At, Becomes
<1>10. CASE ParseNumber
  BY <1>1, <1>6, <1>10, Takes, GoesOn DEF ParseNumber, At, Becomes
<1>11. CASE ParseElement \/ AfterElement
  BY <1>1, <1>6, <1>11, Takes, GoesOn DEF ParseElement, AfterElement, WithArray, At, Becomes
<1>12. CASE ExpectLineEnd \/ CarriageReturn
  BY <1>1, <1>12, Takes, GoesOn DEF ExpectLineEnd, CarriageReturn, Skip, At, Becomes
<1> QED
  BY <1>2, <1>3, <1>4, <1>5, <1>8, <1>9, <1>10, <1>11, <1>12, <1>13 DEF Parse

(* Every other step of the reader. *)
LEMMA ReadInStep ==
  ASSUME Parser(p), Parse, ~Apply, NEW s, NEW c, NEW ended, InStepAt(s, c, ended)
  PROVE  \E d : InStepAt(s, d, ended)'
<1>1. /\ Sayable(s) /\ Continues(s, c, source, ended) /\ (closed \/ ended)
      /\ Agrees(p, s, c, sym)
  BY DEF InStepAt
<1>2. p.mode # "conflict" /\ p'.mode # "conflict"
  BY NoConflict
<1>3. said = read \o Owed(p, s, c.at)
  BY <1>2 DEF InStepAt, Accounted
<1>4. Together(s, c)
  BY <1>1, LiveIs DEF Together
<1>5. p.mode = "value" => ~Tripled("dq") /\ ~Tripled("sq")
  <2>1. p.mode = "value" => BeforeValue(c, sym)
    BY <1>1 DEF Agrees
  <2> QED
    BY <1>1, <2>1, NotTripled
<1>6. Follows(s, c)
  BY <1>4, <1>5, ReaderFollows
<1>7. PICK d : d = After(s, c, sym)
  OBVIOUS
<1>8. CASE /\ Took /\ \A y : Agrees(p', s, d, y)
           /\ Owed(p', s, d.at) = Owed(p, s, c.at)
  <2>1. source # <<>> /\ source' = Tail(source) /\ sym = Head(source)
    BY <1>8 DEF Took, sym
  <2>2. UNCHANGED <<closed, read, said>>
    BY <1>8 DEF Took, LookAt, history
  <2>3. Continues(s, d, Tail(source), ended)
    BY <1>1, <1>7, <2>1, ContinuesLive
  <2>4. Continues(s, d, source, ended)'
    BY <2>1, <2>3
  <2>5. Agrees(p, s, d, sym)'
    BY <1>8
  <2>6. Accounted(p, s, d)'
    BY <1>2, <1>3, <1>8, <2>2 DEF Accounted
  <2> QED
    BY <1>1, <2>2, <2>4, <2>5, <2>6 DEF InStepAt
<1>9. CASE Went /\ Agrees(p', s, c, sym) /\ Owed(p', s, c.at) = Owed(p, s, c.at)
  <2>1. UNCHANGED <<source, closed, read, said>>
    BY <1>9 DEF Went, LookAt, history
  <2>2. sym' = sym
    BY <2>1 DEF sym
  <2>3. Agrees(p, s, c, sym)' /\ Continues(s, c, source, ended)'
    BY <1>1, <1>9, <2>1, <2>2
  <2>4. Accounted(p, s, c)'
    BY <1>2, <1>3, <1>9, <2>1 DEF Accounted
  <2> QED
    BY <1>1, <2>1, <2>3, <2>4 DEF InStepAt
<1> QED
  BY <1>6, <1>7, <1>8, <1>9 DEF Follows

(* Where a line may end with its newline, the reader has done all but to   *)
(* apply its statement. *)
LEMMA LineEnds ==
  ASSUME NEW s, NEW c, Parser(p), Agrees(p, s, c, "eof"), ~Stopped, MayEnd(s, c, TRUE)
  PROVE  /\ p.mode \in {"statement", "carriageReturn", "apply"} /\ ~p.comment
         /\ \/ c = Phase("start") /\ s = Nothing
            \/ c \in {Phase("done"), Phase("return")} /\ (p.mode = "statement" \/ p.stmt = s)
<1>1. c.at \in {"done", "return"} \/ (c.at = "start" /\ s = Nothing)
  BY DEF MayEnd
<1>2. Nothing.kind = "" /\ Nothing.path = <<>>
  BY DEF Nothing, Statement
<1>3. p.mode \in Modes /\ p.mode \notin StopModes
  BY DEF Parser, Stopped, StopModes
<1>4. ASSUME NEW n, NEW y, BeforePart(s, c, y, n) PROVE FALSE
  <2>1. CASE c = Place("key", n, 0, <<>>)
    BY <1>1, <2>1, PlaceFields
  <2>2. CASE c = Phase("start") /\ s.kind = "key"
    <3>1. c.at = "start"
      BY <2>2, PhaseFields
    <3> QED
      BY <1>1, <1>2, <2>2, <3>1
  <2> QED
    BY <1>4, <2>1, <2>2 DEF BeforePart
<1>5. \A n : c # PartDone(n)
  BY <1>1, PlaceFields DEF PartDone
<1>6. \A y : ~BeforeValue(c, y)
  BY <1>1, PlaceFields, PhaseFields DEF BeforeValue
<1>7. p.mode \notin {"header", "key", "bare", "afterPart", "equals", "close", "closeArray"}
  <2>1. p.mode # "header"
    BY <1>1, PlaceFields, PhaseFields DEF Agrees, AtHeader
  <2>2. p.mode # "bare"
    BY <1>1, <1>4, <1>5, PlaceFields DEF Agrees, AtBare
  <2>3. p.mode \notin {"key", "afterPart", "equals", "close", "closeArray"}
    BY <1>1, <1>4, <1>5, PhaseFields DEF Agrees, AtKey, AtAfterPart, AtKeyEnd
  <2> QED
    BY <2>1, <2>2, <2>3
<1>8. p.mode \notin {"afterEquals", "value"} \union TextModes
  BY <1>1, <1>6, PlaceFields, PhaseFields DEF Agrees, AtText, TextModes
<1>9. p.mode # "number"
  <2>1. \A o : c # AfterValue(o)
    BY <1>1, PlaceFields, PhaseFields DEF AfterValue
  <2> QED
    BY <1>1, <1>6, <2>1, PlaceFields DEF Agrees, AtNumber
<1>10. p.mode \notin {"element", "afterElement", "lineEnd"}
  BY <1>1, PlaceFields, PhaseFields DEF Agrees, AtElement
<1>11. p.mode \in {"statement", "carriageReturn", "apply"}
  BY <1>3, <1>7, <1>8, <1>9, <1>10
     DEF Modes, KeyModes, ValueModes, TextModes, EndModes, StopModes
<1>12. CASE p.mode = "statement"
  BY <1>1, <1>12, PhaseFields DEF Agrees, AtStatement
<1>13. CASE p.mode = "carriageReturn"
  BY <1>1, <1>13, PhaseFields DEF Agrees, Parser
<1>14. CASE p.mode = "apply"
  BY <1>1, <1>14, PhaseFields DEF Agrees, AtApply
<1> QED
  BY <1>11, <1>12, <1>13, <1>14

LEMMA Reassociate ==
  ASSUME NEW a, IsSeq(a), NEW b, IsSeq(b), NEW t, IsSeq(t)
  PROVE  (a \o b) \o t = a \o (b \o t)
<1> DEFINE S == ToSet(a) \union ToSet(b) \union ToSet(t)
<1>1. a \in Seq(ToSet(a)) /\ b \in Seq(ToSet(b)) /\ t \in Seq(ToSet(t))
  BY DEF IsSeq
<1>2. a \in Seq(S) /\ b \in Seq(S) /\ t \in Seq(S)
  BY <1>1, SeqMonotonic
<1> HIDE DEF S
<1> QED
  BY <1>2, ConcatAssociative

LEMMA WriteInStep ==
  ASSUME Scanning, IsSeq(said), NEW l \in Lines, Write(l), l.says # Faulty,
         NEW s, NEW c, NEW ended, InStepAt(s, c, ended)
  PROVE  \E v, d, e : InStepAt(v, d, e)'
<1> DEFINE v == l.says
           d == Phase("start")
           e == EndsLine(l.text)
<1>1. /\ source = <<>> /\ ~closed /\ ~Stopped /\ source' = l.text /\ closed' = ~e
      /\ said' = (IF v = Nothing THEN said ELSE Append(said, v))
      /\ UNCHANGED <<p, read>>
  BY DEF Write
<1>2. Sayable(v) /\ Continues(v, d, l.text, e)
  <2>1. LaidOut(l.text, v)
    BY LayoutAssumption
  <2>2. l.text \in Seq(STRING)
    BY ScanAssumption
  <2>3. IsSeq(l.text)
    BY <2>2, MadeSeq
  <2> QED
    BY <2>1, <2>3, LaidOutContinues DEF LaidOut
<1>3. Parser(p) /\ IsSeq(read) /\ sym = "eof"
  BY <1>1 DEF Scanning, Reads, sym
<1>4. Agrees(p, s, c, "eof") /\ MayEnd(s, c, TRUE)
  <2>1. Agrees(p, s, c, sym) /\ (closed \/ ended) /\ Continues(s, c, source, ended)
    BY DEF InStepAt
  <2>2. MayEnd(s, c, ended)
    BY <1>1, <2>1, ContinuesLive
  <2> QED
    BY <1>1, <1>3, <2>1, <2>2 DEF MayEnd
<1>5. /\ p.mode \in {"statement", "carriageReturn", "apply"} /\ ~p.comment
      /\ \/ c = Phase("start") /\ s = Nothing
         \/ c \in {Phase("done"), Phase("return")} /\ (p.mode = "statement" \/ p.stmt = s)
  BY <1>1, <1>3, <1>4, LineEnds
<1>6. said = read \o Owed(p, s, c.at)
  BY <1>5 DEF InStepAt, Accounted
<1> DEFINE due == IF p.mode = "statement" THEN <<>> ELSE <<p.stmt>>
<1>7. Owed(p, s, c.at) = due
  <2>1. CASE c = Phase("start") /\ s = Nothing
    <3>1. c.at = "start" /\ Own(s) = <<>> /\ <<p.stmt>> \o <<>> = <<p.stmt>>
      BY <2>1, PhaseFields, OwnIs
    <3> QED
      BY <1>5, <3>1, OwedIs
  <2>2. CASE c \in {Phase("done"), Phase("return")} /\ (p.mode = "statement" \/ p.stmt = s)
    <3>1. c.at \notin {"start", "remark"}
      BY <2>2, PhaseFields
    <3>2. p.mode # "statement" => p.stmt # Nothing
      <4>1. Nothing.kind = ""
        BY DEF Nothing, Statement
      <4> QED
        BY <1>3, <1>5, <4>1 DEF Parser, EndModes, Complete, Kinds
    <3> QED
      BY <1>5, <2>2, <3>1, <3>2, OwedIs, OwnIs
  <2> QED
    BY <1>5, <2>1, <2>2
<1>8. Owed(p, v, d.at) = due \o Own(v)
  <2>1. d.at = "start" /\ <<>> \o Own(v) = Own(v)
    BY PhaseFields, OwnIs
  <2> QED
    BY <1>5, <2>1, OwedIs
<1>9. IsSeq(due)
  <2>1. <<p.stmt>> \in Seq({p.stmt})
    OBVIOUS
  <2> QED
    BY <2>1, MadeSeq, EmptyList
<1>10. Agrees(p, v, d, sym')
  <2>1. p.mode = "statement" => AtStatement(p, d, sym')
    BY <1>5 DEF AtStatement
  <2>2. p.mode = "apply" => AtApply(p, v, d, sym')
    BY <1>5 DEF AtApply
  <2> QED
    BY <1>5, <2>1, <2>2, Arrives
<1> HIDE DEF due, d, e, v
<1>11. said' = read \o (due \o Own(v))
  <2>1. said = read \o due /\ IsSeq(Own(v))
    BY <1>6, <1>7, OwnIs
  <2>2. said' = said \o Own(v)
    <3>1. CASE v = Nothing
      <4>1. said \o <<>> = said
        BY ConcatEmptySeq DEF IsSeq
      <4> QED
        BY <1>1, <3>1, <4>1, OwnIs
    <3>2. CASE v # Nothing
      <4>1. said \in Seq(ToSet(said) \union {v}) /\ v \in ToSet(said) \union {v}
        BY SeqMonotonic DEF IsSeq
      <4>2. Append(said, v) = said \o <<v>>
        BY <4>1, AppendIsConcat
      <4> QED
        BY <1>1, <3>2, <4>2, OwnIs
    <3> QED
      BY <3>1, <3>2
  <2>3. (read \o due) \o Own(v) = read \o (due \o Own(v))
    BY <1>3, <1>9, <2>1, Reassociate, SMTT(30), ZenonT(30)
  <2> QED
    BY <2>1, <2>2, <2>3
<1>12. PICK w, f, g : w = v /\ f = d /\ g = e
  OBVIOUS
<1>13. Accounted(p, w, f)'
  BY <1>1, <1>5, <1>8, <1>11, <1>12 DEF Accounted
<1>14. InStepAt(w, f, g)'
  BY <1>1, <1>2, <1>10, <1>12, <1>13 DEF InStepAt
<1> QED
  BY <1>14

LEMMA OwedList ==
  ASSUME NEW q, NEW s, NEW at
  PROVE  IsSeq(Owed(q, s, at))
<1>1. IsSeq(<<>>) /\ IsSeq(Own(s))
  BY EmptyList, OwnIs
<1>2. IsSeq(<<q.stmt>> \o Own(s))
  <2> DEFINE S == {q.stmt} \union ToSet(Own(s))
  <2>1. Own(s) \in Seq(S) /\ <<q.stmt>> \in Seq(S)
    BY <1>1, SeqMonotonic DEF IsSeq
  <2> HIDE DEF S
  <2>2. <<q.stmt>> \o Own(s) \in Seq(S)
    BY <2>1, ConcatProperties
  <2> QED
    BY <2>2, MadeSeq
<1> QED
  BY <1>1, <1>2 DEF Owed

LEMMA Begins ==
  ASSUME NEW a, IsSeq(a), NEW b, IsSeq(b)
  PROVE  IsPrefix(a, a \o b)
<1> DEFINE S == ToSet(a) \union ToSet(b)
           t == a \o b
           u == SubSeq(t, 1, Len(a))
<1>1. a \in Seq(S) /\ b \in Seq(S)
  BY SeqMonotonic DEF IsSeq
<1> HIDE DEF S
<1>2. /\ t \in Seq(S) /\ Len(t) = Len(a) + Len(b) /\ Len(a) \in Nat /\ Len(b) \in Nat
      /\ \A i \in 1..Len(a) : t[i] = a[i]
  BY <1>1, ConcatProperties
<1> HIDE DEF t
<1>3. u \in Seq(S) /\ Len(u) = Len(a) /\ \A i \in 1..Len(a) : u[i] = t[i]
  BY <1>2
<1> HIDE DEF u
<1>4. u = a
  BY <1>1, <1>2, <1>3, SeqEqual
<1>5. SubSeq(a, 1, Len(a)) = a
  BY Beginnings
<1> QED
  BY <1>2, <1>4, <1>5 DEF IsPrefix, u, t

LEMMA InStepStarts == Init => InStep
<1> SUFFICES ASSUME Init PROVE InStep
  OBVIOUS
<1>1. /\ source = <<>> /\ p.mode = "statement" /\ ~p.comment /\ read = <<>> /\ said = <<>>
  BY DEF Init
<1> DEFINE c == Phase("start")
<1>2. c.at = "start"
  BY PhaseFields
<1>3. Sayable(Nothing)
  BY DEF Sayable
<1>4. Continues(Nothing, c, source, TRUE)
  <2> DEFINE place == [k \in {0} |-> c]
  <2>1. place[0] = c /\ Len(source) = 0 /\ IsSeq(source) /\ ToSet(source) = {}
    BY <1>1, EmptyList
  <2> HIDE DEF place
  <2>2. Goes(Nothing, c, source, place)
    BY <2>1 DEF Goes
  <2>3. MayEnd(Nothing, place[Len(source)], TRUE)
    BY <1>2, <2>1 DEF MayEnd
  <2> QED
    BY <2>1, <2>2, <2>3 DEF Continues
<1>5. Agrees(p, Nothing, c, sym)
  BY <1>1, Arrives DEF AtStatement
<1>6. Accounted(p, Nothing, c)
  <2>1. Owed(p, Nothing, c.at) = <<>>
    BY <1>1, <1>2, OwedIs, OwnIs
  <2>2. <<>> \o <<>> = <<>>
    OBVIOUS
  <2> QED
    BY <1>1, <2>1, <2>2 DEF Accounted
<1>7. InStepAt(Nothing, c, TRUE)
  BY <1>3, <1>4, <1>5, <1>6 DEF InStepAt
<1> QED
  BY <1>1, <1>7, EmptyList DEF InStep

LEMMA InStepStays == Scanning /\ Built /\ InStep /\ [Next]_scanVars => InStep'
<1> SUFFICES ASSUME Scanning, Built, InStep, [Next]_scanVars PROVE InStep'
  OBVIOUS
<1>1. Parser(p) /\ Reads /\ Built /\ IsSeq(said)
  BY DEF Scanning, InStep
<1>2. CASE Parse
  <2>1. UNCHANGED <<said, amiss>>
    BY <1>1, <1>2, Moves DEF Took, Went, LookAt, Apply, history
  <2>2. ASSUME ~amiss PROVE \E s, d, ended : InStepAt(s, d, ended)'
    <3>1. PICK s, c, ended : InStepAt(s, c, ended)
      BY <2>2 DEF InStep
    <3>2. CASE Apply
      BY <1>1, <3>1, <3>2, ApplyInStep
    <3>3. CASE ~Apply
      BY <1>1, <1>2, <3>1, <3>3, ReadInStep
    <3> QED
      BY <3>2, <3>3
  <2> QED
    BY <1>1, <2>1, <2>2 DEF InStep
<1>3. ASSUME NEW l \in Lines, Write(l) PROVE InStep'
  <2>1. /\ amiss' = (amiss \/ l.says = Faulty)
        /\ said' = said \/ said' = Append(said, l.says)
    BY <1>3 DEF Write
  <2>2. IsSeq(said')
    BY <1>1, <2>1, SeqAppend
  <2>3. ASSUME ~amiss, l.says # Faulty PROVE \E s, d, ended : InStepAt(s, d, ended)'
    <3>1. PICK s, c, ended : InStepAt(s, c, ended)
      BY <2>3 DEF InStep
    <3> QED
      BY <1>1, <1>3, <2>3, <3>1, WriteInStep
  <2> QED
    BY <2>1, <2>2, <2>3 DEF InStep
<1>4. CASE Close \/ UNCHANGED scanVars
  <2>1. UNCHANGED <<source, p, read, said, amiss>> /\ (closed => closed')
    BY <1>4 DEF Close, scanVars, history
  <2>2. ASSUME NEW s, NEW c, NEW ended, InStepAt(s, c, ended) PROVE InStepAt(s, c, ended)'
    <3>1. sym' = sym
      BY <2>1 DEF sym
    <3>2. Accounted(p, s, c)'
      BY <2>1, <2>2 DEF InStepAt, Accounted, AtClash
    <3>3. Agrees(p, s, c, sym)' /\ Continues(s, c, source, ended)'
      BY <2>1, <2>2, <3>1 DEF InStepAt
    <3> QED
      BY <2>1, <2>2, <3>2, <3>3 DEF InStepAt
  <2> QED
    BY <1>1, <2>1, <2>2 DEF InStep
<1> QED
  BY <1>2, <1>3, <1>4 DEF Next

(* A text of which no line is at fault is read back, however its lines are *)
(* laid out: statement by statement what they say, without an error, up to *)
(* the first that clashes with those before it, where it is refused, or to *)
(* its end, where the tree is the one its statements grow. *)
THEOREM LegalTextIsRead == Spec => []ReadsBack
<1>1. Scanning /\ Built /\ InStep => ReadsBack
  <2> SUFFICES ASSUME Scanning, Built, InStep, ~amiss PROVE ReadsBack
    BY DEF ReadsBack
  <2>1. PICK s, c, ended : InStepAt(s, c, ended)
    BY DEF InStep
  <2>2. p.mode # "error"
    BY <2>1 DEF InStepAt, Agrees
  <2>3. CASE p.mode = "conflict"
    BY <2>1, <2>3 DEF InStepAt, Accounted, ReadsBack
  <2>4. CASE p.mode # "conflict"
    <3>1. said = read \o Owed(p, s, c.at) /\ IsSeq(read)
      BY <2>1, <2>4 DEF InStepAt, Accounted, Scanning, Reads
    <3>2. IsSeq(Owed(p, s, c.at))
      BY OwedList
    <3>3. IsPrefix(read, said)
      BY <3>1, <3>2, Begins
    <3>4. p.mode = "end" => read = said
      <4>1. p.mode = "end" => Owed(p, s, c.at) = <<>>
        BY OwedIs
      <4>2. read \o <<>> = read
        BY <3>1, ConcatEmptySeq DEF IsSeq
      <4> QED
        BY <3>1, <4>1, <4>2
    <3>5. p.mode = "end" => tree = Grown(said) /\ tree.why = ""
      BY <3>4 DEF Built
    <3> QED
      BY <2>2, <2>4, <3>3, <3>4, <3>5 DEF ReadsBack
  <2> QED
    BY <2>3, <2>4
<1>2. Init => Scanning /\ Built /\ InStep
  BY ScanningStarts, BuiltStarts, InStepStarts
<1>3. Scanning /\ Built /\ InStep /\ [Next]_scanVars => (Scanning /\ Built /\ InStep)'
  BY ScanningStays, BuiltStays, InStepStays
<1> QED
  BY <1>1, <1>2, <1>3, PTL DEF Spec

===============================================================================
