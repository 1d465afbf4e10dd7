----------------------------- MODULE GrantLedger ------------------------------
(***************************************************************************)
(* What the provider promises, without tokens, requests or handlers: the   *)
(* life of each authorization.  It is opened with a grant; it can be       *)
(* redeemed, and from then on refreshed, by one request at a time and only *)
(* by the client it was granted to; any other use ends it; a dead          *)
(* authorization never comes back; the grant never changes.                *)
(*                                                                         *)
(* A specification from the promises of README, docs and store.go ("single *)
(* use", "rotated"), for module ProviderLedger to be checked against.      *)
(***************************************************************************)
EXTENDS Naturals

CONSTANTS
  Authorizations,  \* names of the authorizations of one run of the server
  LedgerGrants,    \* what can be granted; each has a field ClientID
  NoGrant,         \* what a closed authorization holds
  NoClient         \* nobody is redeeming

VARIABLES
  phase,     \* authorization -> where it is in its life
  grant,     \* authorization -> the grant it stands for
  redeemer   \* authorization -> the client a redemption is under way for

ledgerVars == <<phase, grant, redeemer>>

Nothing ==
  /\ phase = [a \in Authorizations |-> "unopened"]
  /\ grant = [a \in Authorizations |-> NoGrant]
  /\ redeemer = [a \in Authorizations |-> NoClient]

Move(a, p, g, c) ==
  /\ phase' = [phase EXCEPT ![a] = p]
  /\ grant' = [grant EXCEPT ![a] = g]
  /\ redeemer' = [redeemer EXCEPT ![a] = c]

Open(a, g) ==
  /\ phase[a] = "unopened"
  /\ Move(a, "code", g, NoClient)

Redeem(a) ==
  /\ phase[a] \in {"code", "refreshable"}
  /\ Move(a, "redeeming", grant[a], grant[a].ClientID)

Misuse(a) ==
  /\ phase[a] \in {"code", "refreshable"}
  /\ Move(a, "dead", NoGrant, NoClient)

Rotate(a) ==
  /\ phase[a] = "redeeming"
  /\ Move(a, "refreshable", grant[a], NoClient)

Abort(a) ==
  /\ phase[a] = "redeeming"
  /\ Move(a, "dead", NoGrant, NoClient)

(* The process is restarted: every authorization is forgotten. *)
Forget ==
  /\ phase' = [a \in Authorizations |-> "unopened"]
  /\ grant' = [a \in Authorizations |-> NoGrant]
  /\ redeemer' = [a \in Authorizations |-> NoClient]

LedgerNext ==
  \/ \E a \in Authorizations :
        \/ \E g \in LedgerGrants : Open(a, g)
        \/ Redeem(a) \/ Misuse(a) \/ Rotate(a) \/ Abort(a)
  \/ Forget

(* A redemption under way comes to an end. *)
LedgerFairness == \A a \in Authorizations : WF_ledgerVars(Rotate(a) \/ Abort(a))

LedgerSpec == Nothing /\ [][LedgerNext]_ledgerVars /\ LedgerFairness
===============================================================================
