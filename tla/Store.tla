-------------------------------- MODULE Store ---------------------------------
(***************************************************************************)
(* The in-memory grant storage (internal/oidc/store.go): pending codes and *)
(* live refresh tokens, two maps behind one mutex, and the counter both    *)
(* draw their token strings from.  Every operation holds the mutex from    *)
(* its first to its last line, so each is one atomic step.                 *)
(*                                                                         *)
(* A token string is the kind and 32 hex digits of a hash over (kind,      *)
(* seed, counter).  The seed is fixed, and the hash is taken to be free of *)
(* collisions on the counters a run reaches, so the string is represented  *)
(* by what determines it: <<kind, counter>>.                               *)
(***************************************************************************)
EXTENDS Integers, FiniteSets, Functions

VARIABLES
  seq,      \* the counter; the last number drawn
  codes,    \* pending authorization codes: token string -> Grant
  refresh   \* live refresh tokens: token string -> Grant

storeVars == <<seq, codes, refresh>>

NoTokens == [t \in {} |-> t]

(* The map m with an entry for k, and without one. *)
Put(m, k, v) == [x \in DOMAIN m \union {k} |-> IF x = k THEN v ELSE m[x]]
Delete(m, k) == Restrict(m, DOMAIN m \ {k})

(* The counter behind a token string. *)
Number(token) == token[2]

LiveTokens == DOMAIN codes \union DOMAIN refresh

(* Mutants: the string is made before the counter moves; the counter is    *)
(* replaced by the size of the store.                                      *)
NextTokenStale(kind) == <<kind, seq>>
NextTokenBySize(kind) == <<kind, Cardinality(LiveTokens) + 1>>

(* What next(kind) returns: it increments the counter first. *)
NextToken(kind) == <<kind, seq + 1>>

-------------------------------------------------------------------------------

StoreInit ==
  /\ seq = 0
  /\ codes = NoTokens
  /\ refresh = NoTokens

NewCode(g) ==
  /\ seq' = seq + 1
  /\ codes' = Put(codes, NextToken("pc"), g)
  /\ UNCHANGED refresh

(* Mutant: the delete is missing. *)
TakeCodeUnburned(code) ==
  /\ code \in DOMAIN codes
  /\ UNCHANGED <<seq, codes, refresh>>

TakeCode(code) ==
  /\ code \in DOMAIN codes
  /\ codes' = Delete(codes, code)
  /\ UNCHANGED <<seq, refresh>>

(* Mutant: a refresh token drawn with the kind of a code. *)
NewRefreshAsCode(g) ==
  /\ seq' = seq + 1
  /\ refresh' = Put(refresh, NextToken("pc"), g)
  /\ UNCHANGED codes

NewRefresh(g) ==
  /\ seq' = seq + 1
  /\ refresh' = Put(refresh, NextToken("pr"), g)
  /\ UNCHANGED codes

TakeRefresh(token) ==
  /\ token \in DOMAIN refresh
  /\ refresh' = Delete(refresh, token)
  /\ UNCHANGED <<seq, codes>>

===============================================================================
