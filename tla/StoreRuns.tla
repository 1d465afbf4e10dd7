------------------------------ MODULE StoreRuns -------------------------------
(***************************************************************************)
(* The store over several runs of the server.  Nothing is persisted and    *)
(* the counter starts over, which is the point: a test suite that restarts *)
(* the server is to see the same strings again.  This module says how far  *)
(* that determinism goes.                                                  *)
(***************************************************************************)
EXTENDS Store, SequencesExt

CONSTANTS
  StoreGrants,   \* what a token may stand for
  MaxTokens,     \* bound: tokens a run hands out
  MaxRuns        \* bound: runs of the server

VARIABLES
  handed,   \* history: the token strings of this run, in the order handed out
  earlier   \* history: `handed` at the end of each earlier run

runVars == <<seq, codes, refresh, handed, earlier>>

Kind(token) == token[1]
Kinds(tokens) == [i \in DOMAIN tokens |-> Kind(tokens[i])]
CodesAmong(tokens) == SelectSeq(tokens, LAMBDA t : Kind(t) = "pc")

(* The /token requests that took a token and have not drawn its successor. *)
Unanswered ==
  LET taken  == Len(handed) - Cardinality(LiveTokens)
      drawn  == Len(handed) - Len(CodesAmong(handed))
  IN taken - drawn

RunsInit ==
  /\ StoreInit
  /\ handed = <<>>
  /\ earlier = <<>>

HandCode(g) ==
  /\ Len(handed) < MaxTokens
  /\ NewCode(g)
  /\ handed' = Append(handed, NextToken("pc"))
  /\ UNCHANGED earlier

(* tokenResponse draws a refresh token only for what a request has taken. *)
HandRefresh(g) ==
  /\ Unanswered > 0
  /\ Len(handed) < MaxTokens
  /\ NewRefresh(g)
  /\ handed' = Append(handed, NextToken("pr"))
  /\ UNCHANGED earlier

Redeem(t) ==
  /\ TakeCode(t) \/ TakeRefresh(t)
  /\ UNCHANGED <<handed, earlier>>

(* Mutant: the counter survives the restart. *)
StartOverCounting ==
  /\ Len(earlier) + 1 < MaxRuns
  /\ codes' = NoTokens
  /\ refresh' = NoTokens
  /\ handed' = <<>>
  /\ earlier' = Append(earlier, handed)
  /\ UNCHANGED seq

(* The server stops; a fresh one starts with NewStore. *)
StartOver ==
  /\ Len(earlier) + 1 < MaxRuns
  /\ seq' = 0
  /\ codes' = NoTokens
  /\ refresh' = NoTokens
  /\ handed' = <<>>
  /\ earlier' = Append(earlier, handed)

RunsNext ==
  \/ \E g \in StoreGrants : HandCode(g) \/ HandRefresh(g)
  \/ \E t \in LiveTokens : Redeem(t)
  \/ StartOver

RunsSpec == RunsInit /\ [][RunsNext]_runVars

-------------------------------------------------------------------------------

(* Type invariant: what is live was handed out in this run, as its kind. *)
StoreTypeOK ==
  /\ seq = Len(handed)
  /\ handed \in Seq({"pc", "pr"} \X Nat)
  /\ earlier \in Seq(Seq({"pc", "pr"} \X Nat))
  /\ codes \in [DOMAIN codes -> StoreGrants]
  /\ refresh \in [DOMAIN refresh -> StoreGrants]
  /\ \A t \in DOMAIN codes : t \in ToSet(handed) /\ Kind(t) = "pc"
  /\ \A t \in DOMAIN refresh : t \in ToSet(handed) /\ Kind(t) = "pr"

(* Single use: a token string that has been taken never redeems again      *)
(* while the server runs.  It is not found, and it is not handed out a     *)
(* second time, whatever is drawn and taken in between.                    *)
NeverRevived ==
  [][earlier' = earlier =>
       \A t \in ToSet(handed) \ LiveTokens : t \notin LiveTokens']_runVars

(* Determinism the store does provide: two runs that are asked for the     *)
(* same kinds of tokens in the same order, up to some point, hand out the  *)
(* same strings up to that point.                                          *)
SameRequestsSameTokens ==
  \A i \in DOMAIN earlier :
    \A n \in DOMAIN earlier[i] \intersect DOMAIN handed :
      SubSeq(Kinds(earlier[i]), 1, n) = SubSeq(Kinds(handed), 1, n)
        => earlier[i][n] = handed[n]

(* Determinism store.go claims in its first lines: "the Nth code a fresh   *)
(* server hands out is always the same string".                            *)
NthCodeIsAlwaysTheSame ==
  \A i \in DOMAIN earlier :
    LET then == CodesAmong(earlier[i])
        now  == CodesAmong(handed)
    IN \A n \in DOMAIN then \intersect DOMAIN now : then[n] = now[n]
===============================================================================
