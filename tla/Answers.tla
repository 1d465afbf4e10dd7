-------------------------------- MODULE Answers --------------------------------
(***************************************************************************)
(* How every handler and command of personad decides: a list of checks in  *)
(* a fixed order, each with an early return.  What is answered is what the *)
(* first check that fails says; if none does, the handler goes on.         *)
(***************************************************************************)
EXTENDS Integers

(* An answer: its status, its OAuth error code ("" for none), and the base *)
(* URI of the Location header ("" for none).  Wording is left out.         *)
Answer(status, error, location) ==
  [status |-> status, error |-> error, location |-> location]

Refuse(status, error) == Answer(status, error, "")

NoAnswer == Answer(0, "", "")

(* A handler's checks, in order, each with the answer it returns. *)
Check(fails, answer) == [fails |-> fails, answer |-> answer]

Passes(checks) == \A i \in DOMAIN checks : ~checks[i].fails

FirstFailure(checks) ==
  checks[CHOOSE i \in DOMAIN checks :
           /\ checks[i].fails
           /\ \A j \in DOMAIN checks : checks[j].fails => i <= j].answer

===============================================================================
