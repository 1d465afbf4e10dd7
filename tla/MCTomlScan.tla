------------------------------ MODULE MCTomlScan ------------------------------
(* Lines in every layout the subset allows, and lines at fault. *)
EXTENDS TomlLayout

Line(text, says) == [text |-> text, says |-> says]

Newline == <<"nl">>

(* How a key is written, and its path. *)
Keys ==
  { << <<"a">>, << <<"a">> >> >>,
    << <<"sp", "sq", "a", "sq", "sp">>, << <<"a">> >> >>,
    << <<"1", ".", "dq", "#", "bs", "dq", "=", "dq">>, << <<"1">>, <<"#", "dq", "=">> >> >>,
    << <<"a", "sp", ".", "sp", "sq", "bs", "]", "sq">>, << <<"a">>, <<"bs", "]">> >> >> }

(* How a value is written, and what it is. *)
Values ==
  { << <<"-", "1", ".", "1">>, <<"number", <<"-", "1", ".", "1">>>> >>,
    << <<"true">>, <<"boolean">> >>,
    << <<"dq", "#", "bs", "bs", "bs", "a", "dq">>, <<"string", <<"#", "bs", "nl">>>> >>,
    << <<"sq", "sq">>, <<"string", <<>>>> >>,
    << <<"[", "]">>, <<"array", <<>>>> >>,
    << <<"[", "nl", "1", "#", "]", "nl", "comma", "sp", "[", "true", "comma", "cr", "nl", "]", "]">>,
       <<"array", << <<"number", <<"1">>>>, <<"array", << <<"boolean">> >> >> >> >> >> }

(* How a line may end. *)
Ends ==
  { Newline, <<"sp", "#", "dq", "[", "sp", "nl">>, <<"cr", "nl">>, <<"cr">>, <<>> }

KeyLines ==
  {Line(k[1] \o <<"=">> \o v[1] \o end, Statement("key", k[2], v[2])) :
     k \in Keys, v \in Values, end \in Ends}

Headers ==
  {Line(<<"[", "a", "]">> \o end, Statement("table", << <<"a">> >>, <<>>)) : end \in Ends}
  \union {Line(<<"sp", "[", "[", "sp", "a", "sp", ".", "dq", "bs", "bs", "]", "dq", "]", "]">> \o end,
               Statement("array", << <<"a">>, <<"bs", "]">> >>, <<>>)) : end \in Ends}

Blanks ==
  {Line(t, Nothing) : t \in {Newline, <<"sp", "#", "a", "=", "[", "nl">>, <<"cr", "nl">>, <<"#">>}}

Faults ==
  {Line(t, Faulty) : t \in {
     <<"a", "nl">>, <<"a", "=", "nl">>, <<"=", "1", "nl">>, <<"e", "nl">>, <<"a", ".", "nl">>,
     <<"a", "a", "sp", "a", "=", "1", "nl">>, <<"a", ".", "=", "1", "nl">>,
     <<"a", "=", "1", "sp", "1", "nl">>, <<"a", "=", "1", "a", "=", "1", "nl">>,
     <<"a", "=", "1", "-", "1", "-", "1", "e", "nl">>, <<"a", "=", "1", "-", "1", "nl">>,
     <<"a", "=", "-", "nl">>, <<"a", "=", "1", ".", "1", ".", "1", "nl">>, <<"a", "=", "true", "a", "nl">>,
     <<"a", "=", "a", "nl">>, <<"a", "=", "dq", "dq", "dq", "a", "dq", "dq", "dq", "nl">>,
     <<"a", "=", "dq", "#", "nl">>, <<"a", "=", "dq", "bs", "nl">>, <<"a", "=", "dq", "bs", "e", "dq", "nl">>,
     <<"a", "=", "sq", "a">>, <<"a", "=", "dq", "bs">>, <<"sq", "a", "nl">>,
     <<"a", "=", "[", "1", "sp", "1", "]", "nl">>, <<"a", "=", "[", "comma", "]", "nl">>,
     <<"a", "=", "[", "1", "comma">>, <<"a", "=", "[", "1", "#", "]">>, <<"a", "=", "[", "nl", "e", "]", "nl">>,
     <<"a", "=", "[", "]", "]", "nl">>, <<"[", "a", "nl">>, <<"[", "]", "nl">>, <<"[", "a", "sp", "a", "]", "nl">>,
     <<"[", "[", "a", "]", "nl">>, <<"[", "a", "]", "a", "=", "1", "nl">>,
     <<"[", "[", "a", "]", "]", "]", "nl">> }}

MCLines == KeyLines \union Headers \union Blanks \union Faults

(* Short lines without a fault: all that can be wrong is a clash. *)
FewLines == {l \in KeyLines \union Headers : Len(l.text) <= 6}

===============================================================================
