---------------------------- MODULE ProviderLedger ----------------------------
(***************************************************************************)
(* Provider implements GrantLedger.  An authorization is named by the      *)
(* number of its code, and its state is read off the place where its       *)
(* lineage is held: the code map, a handler, or the refresh map.           *)
(***************************************************************************)
EXTENDS Provider

(* The live tokens and the busy handlers that hold authorization a. *)
CodesOf(a)   == {t \in DOMAIN codes : Lineage(t) = a}
RefreshOf(a) == {t \in DOMAIN refresh : Lineage(t) = a}
HoldersOf(a) == {h \in DOMAIN inflight : Lineage(Taken(h)) = a}

Opened(a) == a \in 1..seq /\ origin[a].code = a

PhaseOf(a) ==
  IF CodesOf(a) # {} THEN "code"
  ELSE IF HoldersOf(a) # {} THEN "redeeming"
  ELSE IF RefreshOf(a) # {} THEN "refreshable"
  ELSE IF Opened(a) THEN "dead" ELSE "unopened"

(* The grant itself, as it is held there. *)
GrantOf(a) ==
  IF CodesOf(a) # {} THEN codes[CHOOSE t \in CodesOf(a) : TRUE]
  ELSE IF HoldersOf(a) # {} THEN inflight[CHOOSE h \in HoldersOf(a) : TRUE].grant
  ELSE IF RefreshOf(a) # {} THEN refresh[CHOOSE t \in RefreshOf(a) : TRUE]
  ELSE [ClientID |-> ""]

RedeemerOf(a) ==
  IF PhaseOf(a) = "redeeming"
  THEN ClientOf(inflight[CHOOSE h \in HoldersOf(a) : TRUE].req)
  ELSE ""

Ledger == INSTANCE GrantLedger WITH
            Authorizations <- 1..MaxSeq,
            LedgerGrants   <- Grants,
            NoGrant        <- [ClientID |-> ""],
            NoClient       <- "",
            phase          <- [a \in 1..MaxSeq |-> PhaseOf(a)],
            grant          <- [a \in 1..MaxSeq |-> GrantOf(a)],
            redeemer       <- [a \in 1..MaxSeq |-> RedeemerOf(a)]

(* Refinement: under every interleaving of handlers, misuse, signing       *)
(* failure and restart, each authorization lives the life GrantLedger      *)
(* describes, and a redemption under way comes to an end.                  *)
ImplementsLedger == Ledger!LedgerSpec
===============================================================================
