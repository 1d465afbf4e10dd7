--------------------------- MODULE MCProviderLedger ---------------------------
(* The instances of MCProvider, with the refinement mapping in scope. *)
EXTENDS MCProvider, ProviderLedger
===============================================================================
