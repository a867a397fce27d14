-------------------------- MODULE DebtLedgerProofs --------------------------
(***************************************************************************)
(* The abstract ledger keeps its promise for every set of amounts.         *)
(***************************************************************************)
EXTENDS DebtLedger, TLAPS

LEMMA BackedInit == Init => Backed
  BY LedgerAssumption DEF Init, Backed, Gap

LEMMA BackedStep ==
  ASSUME Backed, [Next]_ledgerVars
  PROVE  Backed' /\ Gap' >= Gap
<1>1. CASE UNCHANGED ledgerVars
  BY <1>1, LedgerAssumption DEF Backed, Gap, ledgerVars
<1>2. ASSUME NEW x \in Amounts, NEW amount \in Amounts, Charge(x), Issue(x, amount)
      PROVE  Backed' /\ Gap' >= Gap
  <2>1. PICK fee \in Amounts : debt' = debt + x + amount + fee
    BY <1>2 DEF Issue
  <2>2. x \in Nat /\ amount \in Nat /\ fee \in Nat
    BY LedgerAssumption
  <2> QED BY <1>2, <2>1, <2>2, LedgerAssumption DEF Backed, Gap, Charge, Issue
<1>3. ASSUME NEW x \in Amounts, NEW amount \in Amounts, Charge(x), Retire(x, amount)
      PROVE  Backed' /\ Gap' >= Gap
  <2>1. x \in Nat /\ amount \in Nat
    BY LedgerAssumption
  <2> QED BY <1>3, <2>1, LedgerAssumption DEF Backed, Gap, Charge, Retire
<1>4. ASSUME NEW amount \in 0..owed, MintOwed(amount)
      PROVE  Backed' /\ Gap' >= Gap
  BY <1>4, LedgerAssumption DEF Backed, Gap, MintOwed
<1> QED BY <1>1, <1>2, <1>3, <1>4 DEF Next

(* What exists or may be minted never exceeds what is owed. *)
THEOREM LedgerBacked == Spec => []Backed
<1>1. Backed /\ [Next]_ledgerVars => Backed'
  BY BackedStep
<1> QED BY BackedInit, <1>1, PTL DEF Spec

(* No operation closes the gap between debt and supply. *)
THEOREM LedgerGapNeverCloses == Spec => GapNeverCloses
<1>1. Backed /\ [Next]_ledgerVars => [Gap' >= Gap]_ledgerVars
  BY BackedStep
<1> QED BY LedgerBacked, <1>1, PTL DEF Spec, GapNeverCloses

=============================================================================
