----------------------------- MODULE DebtLedger -----------------------------
(***************************************************************************)
(* What markets that mint their own asset promise about money, without    *)
(* users, collateral, prices, parts or rounding.                           *)
(*                                                                         *)
(* `debt` is what borrowers owe, `supply` what exists of the asset, `owed` *)
(* the interest charged and not minted yet.  Every operation may charge    *)
(* interest first; then it issues asset against at least as much debt,     *)
(* retires the same amount of both; or interest owed is minted.  So the    *)
(* gap between what is owed and what exists or may be minted never closes: *)
(* the asset stays backed, and what borrowers were charged in opening fees *)
(* is never in the supply.                                                 *)
(***************************************************************************)
EXTENDS Integers

CONSTANTS
  Amounts,       \* what a single operation may charge, issue or retire
  InitialSupply  \* asset that exists before the first loan

ASSUME LedgerAssumption == Amounts \subseteq Nat /\ InitialSupply \in Nat

VARIABLES debt, supply, owed

ledgerVars == <<debt, supply, owed>>

Init ==
  /\ debt = 0
  /\ owed = 0
  /\ supply = InitialSupply

(* Every operation may charge interest before anything else. *)
Charge(x) == owed' = owed + x

(* A loan of `amount`, which costs a fee; of nothing, when only interest   *)
(* is charged.                                                             *)
Issue(x, amount) ==
  /\ supply' = supply + amount
  /\ \E fee \in Amounts : debt' = debt + x + amount + fee

(* WRONG, for TLC to refute: debt forgiven without burning the asset. *)
RetireDebtOnly(x, amount) ==
  /\ amount <= debt + x
  /\ UNCHANGED supply
  /\ debt' = debt + x - amount

(* `amount` repaid and burned. *)
Retire(x, amount) ==
  /\ amount <= debt + x /\ amount <= supply
  /\ supply' = supply - amount
  /\ debt' = debt + x - amount

(* WRONG: interest minted and still owed. *)
MintOwedTwice(amount) ==
  /\ supply' = supply + amount
  /\ UNCHANGED <<owed, debt>>

(* Interest charged earlier comes into existence. *)
MintOwed(amount) ==
  /\ supply' = supply + amount
  /\ owed' = owed - amount
  /\ UNCHANGED debt

Next ==
  \/ \E x \in Amounts :
       /\ Charge(x)
       /\ \E amount \in Amounts : Issue(x, amount) \/ Retire(x, amount)
  \/ \E amount \in 0..owed : MintOwed(amount)

Spec == Init /\ [][Next]_ledgerVars

Gap == debt + InitialSupply - supply - owed

Backed == debt \in Nat /\ supply \in Nat /\ owed \in Nat /\ Gap >= 0

GapNeverCloses == [][Gap' >= Gap]_ledgerVars

=============================================================================
