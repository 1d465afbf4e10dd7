--------------------------------- MODULE Scope ---------------------------------
(***************************************************************************)
(* Scope parameters (internal/oidc/issuer.go).  A parameter is the         *)
(* sequence of its words, what strings.Fields makes of it.                 *)
(***************************************************************************)
EXTENDS Integers, SequencesExt

(* The words of a scope parameter: duplicates dropped, order kept. *)
SplitScope(words) ==
  LET split[i \in 0..Len(words)] ==
        IF i = 0 THEN <<>>
        ELSE IF Contains(split[i - 1], words[i]) THEN split[i - 1]
             ELSE Append(split[i - 1], words[i])
  IN split[Len(words)]

HasScope(scopes, want) == Contains(scopes, want)

===============================================================================
