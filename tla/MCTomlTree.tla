------------------------------ MODULE MCTomlTree ------------------------------
(***************************************************************************)
(* Small instances of TomlTree: an array of tables p with a subtable or a  *)
(* nested array c, and keys that clash with both.                          *)
(***************************************************************************)
EXTENDS TomlTree

MCTablePaths == {<<"p">>, <<"p", "c">>, <<"x", "p">>}
MCArrayPaths == {<<"p">>, <<"p", "c">>}
MCKeyValues ==
  {<< <<"k">>, "scalar" >>, << <<"c", "k">>, "scalar" >>,
   << <<"p">>, "scalar" >>, << <<"p">>, "empty" >>, << <<"c">>, "filled" >>}

(* Persona files with nothing but personas and their claims. *)
PersonaTablePaths == {<<"personas", "claims">>}
PersonaArrayPaths == {<<"personas">>}
PersonaKeyValues  == {<< <<"name">>, "scalar" >>, << <<"role">>, "scalar" >>}

===============================================================================
