---------------------------- MODULE MCDebtLedger ----------------------------
(***************************************************************************)
(* The abstract ledger for TLC, which needs its numbers bounded.           *)
(***************************************************************************)
EXTENDS DebtLedger

CONSTANT MaxLedger  \* bound on every number of the ledger

BoundedNext ==
  /\ Next
  /\ debt' <= MaxLedger /\ supply' <= MaxLedger /\ owed' <= MaxLedger

BoundedSpec == Init /\ [][BoundedNext]_ledgerVars

=============================================================================
