------------------------------ MODULE TomlLayout -------------------------------
(***************************************************************************)
(* How a statement may be written: every layout of the TOML subset, said   *)
(* from the statement and not from the text, as one who writes it would.   *)
(* A place in the writing is where the writer is in the statement; each    *)
(* symbol leads to the next place, or nowhere.  It is the measure for the  *)
(* reader of TomlScan, which knows the symbols and not the statement.      *)
(***************************************************************************)
EXTENDS TomlScan

(* Where the writer is: in the char-th symbol of a part of the key, or of  *)
(* the value (part 0), within the arrays that are open, of which each has  *)
(* some items done. *)
Place(at, part, char, open) == [at |-> at, part |-> part, char |-> char, open |-> open]
Level(items, done)          == [items |-> items, done |-> done]

Phase(at) == Place(at, 0, 0, <<>>)
Nowhere   == Phase("nowhere")

-------------------------------------------------------------------------------
(* Keys *)

PartDone(part) == Place("afterPart", part, 0, <<>>)

(* So many characters of a bare part are written. *)
InBare(s, part, char) ==
  IF char = Len(s.path[part]) THEN PartDone(part) ELSE Place("bare", part, char, <<>>)

BeginPart(s, part, c) ==
  CASE c = "dq" -> Place("basic", part, 0, <<>>)
    [] c = "sq" -> Place("literal", part, 0, <<>>)
    [] c \in BareChars /\ s.path[part] # <<>> /\ c = s.path[part][1] -> InBare(s, part, 1)
    [] OTHER -> Nowhere

GoOnBare(s, place, c) ==
  IF c \in BareChars /\ c = s.path[place.part][place.char + 1]
  THEN InBare(s, place.part, place.char + 1) ELSE Nowhere

EndPart(s, place, c) ==
  LET last == place.part = Len(s.path) IN
  CASE c = "sp" -> place
    [] c = "." /\ ~last -> Place("key", place.part + 1, 0, <<>>)
    [] c = "=" /\ last /\ s.kind = "key"   -> Phase("value")
    [] c = "]" /\ last /\ s.kind = "table" -> Phase("lineEnd")
    [] c = "]" /\ last /\ s.kind = "array" -> Phase("close")
    [] OTHER -> Nowhere

-------------------------------------------------------------------------------
(* Values *)

Tagged(v, tag) == v[1] = tag /\ v = <<tag, v[2]>> /\ v[2] \in Seq(ToSet(v[2]))

(* The value to be written next, if there is one. *)
Current(s, open) == IF open = <<>> THEN s.value ELSE Last(open).items[Last(open).done + 1]
More(open)       == open = <<>> \/ Last(open).done < Len(Last(open).items)

AfterValue(open) ==
  IF open = <<>> THEN Phase("lineEnd")
  ELSE Place("afterElement", 0, 0, [open EXCEPT ![Len(open)] = Level(@.items, @.done + 1)])

(* A number begins with a digit or its sign. *)
Figures(raw) ==
  raw # <<>> /\ raw[1] \in Digits \union {"-"} /\ ToSet(raw) \subseteq Numeric /\ Number(raw)

InNumber(raw, char, open) ==
  IF char = Len(raw) THEN AfterValue(open) ELSE Place("number", 0, char, open)

BeginValue(s, open, c) ==
  LET v == Current(s, open) IN
  IF ~More(open) THEN Nowhere ELSE
  CASE c = "dq" /\ Tagged(v, "string")    -> Place("basic", 0, 0, open)
    [] c = "sq" /\ Tagged(v, "string")    -> Place("literal", 0, 0, open)
    [] c = "true" /\ v = <<"boolean">>    -> AfterValue(open)
    [] c = "[" /\ Tagged(v, "array")      -> Place("element", 0, 0, Append(open, Level(v[2], 0)))
    [] c \in Numeric /\ Tagged(v, "number") ->
         IF Figures(v[2]) /\ c = v[2][1] THEN InNumber(v[2], 1, open) ELSE Nowhere
    [] OTHER -> Nowhere

GoOnNumber(s, place, c) ==
  LET raw == Current(s, place.open)[2] IN
  IF c = raw[place.char + 1] THEN InNumber(raw, place.char + 1, place.open) ELSE Nowhere

EndArray(open) ==
  IF Last(open).done = Len(Last(open).items) THEN AfterValue(Front(open)) ELSE Nowhere

-------------------------------------------------------------------------------
(* Strings, in keys and values *)

Text(s, place)   == IF place.part = 0 THEN Current(s, place.open)[2] ELSE s.path[place.part]
AfterText(place) == IF place.part = 0 THEN AfterValue(place.open) ELSE PartDone(place.part)

(* The next character of the text is written, as c. *)
Writes(s, place, c) == place.char < Len(Text(s, place)) /\ Text(s, place)[place.char + 1] = c
Written(at, place)  == Place(at, place.part, place.char + 1, place.open)

InBasic(s, place, c) ==
  CASE c = "dq" -> IF place.char = Len(Text(s, place)) THEN AfterText(place) ELSE Nowhere
    [] c = "bs" -> [place EXCEPT !.at = "escape"]
    [] c \notin {"dq", "bs", "nl"} /\ Writes(s, place, c) -> Written("basic", place)
    [] OTHER -> Nowhere

InEscape(s, place, c) ==
  IF c \in DOMAIN Escapes /\ Writes(s, place, Escapes[c]) THEN Written("basic", place) ELSE Nowhere

InLiteral(s, place, c) ==
  CASE c = "sq" -> IF place.char = Len(Text(s, place)) THEN AfterText(place) ELSE Nowhere
    [] c \notin {"sq", "nl"} /\ Writes(s, place, c) -> Written("literal", place)
    [] OTHER -> Nowhere

-------------------------------------------------------------------------------
(* Lines *)

Begin(s, place, c) ==
  CASE c \in Blank -> place
    [] c = "#"     -> Phase("remark")
    [] c = "[" /\ s.kind = "table" -> Place("key", 1, 0, <<>>)
    [] c = "[" /\ s.kind = "array" -> Phase("header")
    [] c \notin Blank \union {"#", "["} /\ s.kind = "key" -> BeginPart(s, 1, c)
    [] OTHER -> Nowhere

EndLine(place, c) ==
  CASE c = "sp" -> place
    [] c = "nl" -> Phase("done")
    [] c = "cr" -> Phase("return")
    [] c = "#"  -> Phase("lastRemark")
    [] OTHER    -> Nowhere

(* A remark lasts up to the newline. *)
Remark(place, c, at) == IF c = "nl" THEN [place EXCEPT !.at = at] ELSE place

If(c, expected, next) == IF c = expected THEN next ELSE Nowhere

Between(s, place, c) ==
  CASE c \in Blank -> place
    [] c = "#"     -> [place EXCEPT !.at = "elementRemark"]
    [] c = "]"     -> EndArray(place.open)
    [] OTHER       -> BeginValue(s, place.open, c)

AfterItem(place, c) ==
  CASE c \in Blank -> place
    [] c = "#"     -> [place EXCEPT !.at = "itemRemark"]
    [] c = "]"     -> EndArray(place.open)
    [] c = "comma" -> [place EXCEPT !.at = "element"]
    [] OTHER       -> Nowhere

(* The place after the symbol c. *)
After(s, place, c) ==
  CASE place.at = "start"         -> Begin(s, place, c)
    [] place.at = "remark"        -> Remark(place, c, "start")
    [] place.at = "header"        -> If(c, "[", Place("key", 1, 0, <<>>))
    [] place.at = "key"           -> IF c = "sp" THEN place ELSE BeginPart(s, place.part, c)
    [] place.at = "bare"          -> GoOnBare(s, place, c)
    [] place.at = "basic"         -> InBasic(s, place, c)
    [] place.at = "escape"        -> InEscape(s, place, c)
    [] place.at = "literal"       -> InLiteral(s, place, c)
    [] place.at = "afterPart"     -> EndPart(s, place, c)
    [] place.at = "close"         -> If(c, "]", Phase("lineEnd"))
    [] place.at = "value"         -> IF c = "sp" THEN place ELSE BeginValue(s, <<>>, c)
    [] place.at = "number"        -> GoOnNumber(s, place, c)
    [] place.at = "element"       -> Between(s, place, c)
    [] place.at = "elementRemark" -> Remark(place, c, "element")
    [] place.at = "afterElement"  -> AfterItem(place, c)
    [] place.at = "itemRemark"    -> Remark(place, c, "afterElement")
    [] place.at = "lineEnd"       -> EndLine(place, c)
    [] place.at = "return"        -> If(c, "nl", Phase("done"))
    [] place.at = "lastRemark"    -> Remark(place, c, "done")
    [] OTHER                      -> Nowhere

(* Where a line may end: before its newline only if the file does. *)
MayEnd(s, place, ended) ==
  \/ place.at \in {"done", "return"} /\ ended
  \/ place.at \in {"lineEnd", "lastRemark"} /\ ~ended
  \/ place.at = "start" /\ s = Nothing
  \/ place.at = "remark" /\ s = Nothing /\ ~ended

(* Statements that can be written at all. *)
Sayable(s) ==
  \/ s = Nothing
  \/ /\ s = Statement(s.kind, s.path, s.value) /\ s.kind \in {"table", "array", "key"}
     /\ s.path \in Seq(ToSet(s.path)) /\ s.path # <<>>
     /\ \A i \in DOMAIN s.path : s.path[i] \in Seq(ToSet(s.path[i]))
     /\ s.kind # "key" => s.value = <<>>

(* The places between the symbols of a text. *)
Places(text, s) ==
  LET place[k \in 0..Len(text)] ==
        IF k = 0 THEN Phase("start") ELSE After(s, place[k - 1], text[k])
  IN  place

(* The text of a line is a layout of s. *)
LaidOut(text, s) ==
  /\ "eof" \notin ToSet(text)
  /\ Sayable(s) /\ MayEnd(s, Places(text, s)[Len(text)], EndsLine(text))

(* Every line that is not at fault is a layout of what it says. *)
ASSUME LayoutAssumption ==
  \A l \in Lines : l.says # Faulty => LaidOut(l.text, l.says)

===============================================================================
