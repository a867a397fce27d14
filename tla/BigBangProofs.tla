--------------------------- MODULE BigBangProofs ---------------------------
(***************************************************************************)
(* The BigBang market is safe for every set of users, inputs, precisions,  *)
(* rates, fees and bounds that MarketAssumption and the assumptions of     *)
(* MarketMath and Rebase allow.                                            *)
(*                                                                         *)
(* The invariant is inductive because of Covered: that no part of the debt *)
(* is worth less than a token is what keeps a repayment, rounded up, within*)
(* what is owed, so that the total never goes below zero.  Every action    *)
(* changes the debt by a DebtStep and the collateral by a CollateralStep,  *)
(* or not at all; the lemmas about those two carry the sums.               *)
(***************************************************************************)
EXTENDS BigBang, MarketMathTheorems

DebtInv ==
  /\ totalBorrow \in RebaseType
  /\ Covered(totalBorrow)
  /\ userBorrowPart \in [Users -> Nat]
  /\ BorrowPartsSum

CollateralInv ==
  /\ userCollateralShare \in [Users -> Nat]
  /\ totalCollateralShare \in Nat
  /\ collateralBalance \in Nat
  /\ CollateralCustody

MoneyInv ==
  /\ openInterestDebt \in Nat
  /\ usdoBalance \in Nat
  /\ usdoSupply \in Nat

ControlInv ==
  /\ exchangeRate \in ExchangeRates
  /\ elapsed \in 0..MaxElapsed
  /\ pauseOptions \in [PauseType -> BOOLEAN]

(* The inductive invariant. *)
IInv == DebtInv /\ CollateralInv /\ MoneyInv /\ ControlInv

(* What every action does to the debt: interest first, then one user's     *)
(* parts become v, and no part gets dearer.                                *)
DebtStep(u, v, debtRate) ==
  LET total == accrued(debtRate)
  IN  /\ v \in Nat
      /\ userBorrowPart' = [userBorrowPart EXCEPT ![u] = v]
      /\ totalBorrow' \in RebaseType
      /\ Covered(totalBorrow')
      /\ totalBorrow'.base = total.base - userBorrowPart[u] + v
      /\ totalBorrow'.elastic * total.base <= total.elastic * totalBorrow'.base

(* What every action does to the collateral. *)
CollateralStep(u, v) ==
  /\ v \in Nat
  /\ userCollateralShare' = [userCollateralShare EXCEPT ![u] = v]
  /\ totalCollateralShare' = totalCollateralShare - userCollateralShare[u] + v
  /\ collateralBalance' \in Nat
  /\ totalCollateralShare' <= collateralBalance'

(* No part of the debt gets dearer in a step that follows an accrual of    *)
(* the same block.                                                         *)
NotDearer ==
  (elapsed = 0 /\ totalBorrow.base > 0 /\ totalBorrow'.base > 0)
     => totalBorrow'.elastic * totalBorrow.base <= totalBorrow.elastic * totalBorrow'.base

LedgerStep == Ledger!Next \/ UNCHANGED Ledger!ledgerVars

-----------------------------------------------------------------------------
(* Interest and sums. *)

LEMMA InterestFacts ==
  ASSUME DebtInv, elapsed \in Nat, NEW debtRate \in DebtRates
  PROVE  /\ interest(debtRate) \in 0..UINT128_MAX
         /\ accrued(debtRate) \in RebaseType
         /\ Covered(accrued(debtRate))
         /\ accrued(debtRate).base = totalBorrow.base
         /\ accrued(debtRate).elastic = totalBorrow.elastic + interest(debtRate)
         /\ elapsed = 0 => accrued(debtRate) = totalBorrow
<1> DEFINE charged == (totalBorrow.elastic * debtRate * elapsed) \div DEBT_PRECISION
           room == UINT128_MAX - totalBorrow.elastic
           i == interest(debtRate)
<1>1. /\ totalBorrow.elastic \in 0..UINT128_MAX /\ totalBorrow.base \in 0..UINT128_MAX
      /\ totalBorrow = [elastic |-> totalBorrow.elastic, base |-> totalBorrow.base]
      /\ totalBorrow.base <= totalBorrow.elastic
      /\ UINT128_MAX \in Nat
  BY UintAssumption DEF DebtInv, RebaseType, Covered
<1>2. room \in Nat /\ room <= UINT128_MAX
  BY <1>1
<1>3. charged \in Nat
  <2>1. debtRate \in Nat /\ DEBT_PRECISION \in Nat /\ DEBT_PRECISION > 0
    BY MarketAssumption
  <2>2. totalBorrow.elastic * debtRate * elapsed \in Nat
    BY <1>1, <2>1
  <2> QED BY <2>1, <2>2, FloorDiv
<1>4. i = IF elapsed = 0 THEN 0 ELSE Least(charged, room)
  BY DEF interest
<1> HIDE DEF charged, room, i
<1>5. i \in Nat /\ i <= room /\ (elapsed = 0 => i = 0)
  BY <1>2, <1>3, <1>4, LeastNat
<1>6. accrued(debtRate) = [elastic |-> totalBorrow.elastic + i, base |-> totalBorrow.base]
  <2>1. accrued(debtRate) = [elastic |-> totalBorrow.elastic + i, base |-> totalBorrow.base + 0]
    BY DEF accrued, Add, i
  <2> QED BY <1>1, <2>1
<1>7. i \in 0..UINT128_MAX /\ totalBorrow.elastic + i \in 0..UINT128_MAX
  BY <1>1, <1>2, <1>5 DEF room
<1>8. elapsed = 0 => accrued(debtRate) = totalBorrow
  BY <1>1, <1>5, <1>6
<1>9. accrued(debtRate) \in RebaseType /\ Covered(accrued(debtRate))
  BY <1>1, <1>5, <1>6, <1>7 DEF RebaseType, Covered
<1>10. /\ accrued(debtRate).base = totalBorrow.base
       /\ accrued(debtRate).elastic = totalBorrow.elastic + i
  BY <1>6
<1> QED BY <1>7, <1>8, <1>9, <1>10, Zenon DEF i

LEMMA DebtStepKeeps ==
  ASSUME IInv, NEW u \in Users, NEW v, NEW debtRate \in DebtRates, DebtStep(u, v, debtRate)
  PROVE  DebtInv' /\ NotDearer
<1> DEFINE total == accrued(debtRate)
<1>1. elapsed \in Nat /\ IsFiniteSet(Users)
  BY MarketAssumption DEF IInv, ControlInv
<1>2. DebtInv
  BY DEF IInv
<1>3. total.base = totalBorrow.base /\ (elapsed = 0 => total = totalBorrow)
  BY <1>1, <1>2, InterestFacts
<1>4. userBorrowPart \in [Users -> Nat] /\ totalBorrow.base = SumOver(userBorrowPart)
  BY <1>2 DEF DebtInv, BorrowPartsSum
<1>5. /\ v \in Nat
      /\ userBorrowPart' = [userBorrowPart EXCEPT ![u] = v]
      /\ totalBorrow' \in RebaseType
      /\ Covered(totalBorrow')
      /\ totalBorrow'.base = total.base - userBorrowPart[u] + v
      /\ totalBorrow'.elastic * total.base <= total.elastic * totalBorrow'.base
  BY DEF DebtStep
<1>6. SumOver(userBorrowPart') = SumOver(userBorrowPart) - userBorrowPart[u] + v
  <2>1. /\ v \in Nat /\ userBorrowPart \in [Users -> Nat]
        /\ userBorrowPart' = [userBorrowPart EXCEPT ![u] = v]
    BY <1>4, <1>5
  <2> QED BY ONLY <1>1, <2>1, SumUpdate, Zenon
<1>7. userBorrowPart' \in [Users -> Nat]
  BY <1>4, <1>5
<1> HIDE DEF total
<1>8. totalBorrow'.base = SumOver(userBorrowPart')
  BY <1>3, <1>4, <1>5, <1>6
<1>9. DebtInv'
  BY <1>5, <1>7, <1>8 DEF DebtInv, BorrowPartsSum, Covered
<1>10. NotDearer
  BY <1>3, <1>5 DEF NotDearer
<1> QED BY <1>9, <1>10

LEMMA CollateralStepKeeps ==
  ASSUME IInv, NEW u \in Users, NEW v, CollateralStep(u, v)
  PROVE  CollateralInv'
<1>1. IsFiniteSet(Users)
  BY MarketAssumption
<1>2. /\ userCollateralShare \in [Users -> Nat]
      /\ totalCollateralShare = SumOver(userCollateralShare)
  BY DEF IInv, CollateralInv, CollateralCustody
<1>3. SumOver(userCollateralShare') = SumOver(userCollateralShare) - userCollateralShare[u] + v
  BY <1>1, <1>2, SumUpdate DEF CollateralStep
<1>4. userCollateralShare' \in [Users -> Nat]
  BY <1>2 DEF CollateralStep
<1>5. totalCollateralShare' = SumOver(userCollateralShare') /\ totalCollateralShare' \in Nat
  <2>1. totalCollateralShare' = SumOver(userCollateralShare')
    BY <1>2, <1>3 DEF CollateralStep
  <2>2. SumOver(userCollateralShare') \in Nat
    BY <1>1, <1>4, SumBounds
  <2> QED BY <2>1, <2>2
<1> QED BY <1>4, <1>5 DEF CollateralStep, CollateralInv, CollateralCustody

-----------------------------------------------------------------------------
(* The three ways an action moves the debt: it grows by a loan, it shrinks *)
(* by a repayment or a liquidation, or only interest is charged.           *)

LEMMA AccrualKeeps ==
  ASSUME IInv, NEW debtRate \in DebtRates, Accrues(debtRate),
         totalBorrow' = accrued(debtRate), UNCHANGED <<userBorrowPart, usdoSupply>>
  PROVE  /\ DebtInv' /\ NotDearer
         /\ openInterestDebt' \in Nat /\ elapsed' \in 0..MaxElapsed
         /\ totalBorrow'.elastic = accrued(debtRate).elastic + (0 + 0)
         /\ totalBorrow'.elastic \in 0..UINT128_MAX
         /\ usdoSupply' = usdoSupply + 0
<1>1. elapsed \in Nat /\ DebtInv
  BY MarketAssumption DEF IInv, ControlInv
<1>2. /\ interest(debtRate) \in Nat
      /\ totalBorrow' \in RebaseType /\ Covered(totalBorrow')
      /\ totalBorrow'.base = totalBorrow.base
      /\ elapsed = 0 => totalBorrow' = totalBorrow
  BY <1>1, InterestFacts, UintAssumption
<1>3. DebtInv'
  BY <1>1, <1>2 DEF DebtInv, BorrowPartsSum, Covered
<1>4. NotDearer
  BY <1>1, <1>2, UintAssumption DEF NotDearer, DebtInv, RebaseType
<1>5. openInterestDebt' \in Nat /\ elapsed' \in 0..MaxElapsed
  BY <1>2, MarketAssumption DEF Accrues, IInv, MoneyInv
<1>6. /\ totalBorrow'.elastic = accrued(debtRate).elastic + (0 + 0)
      /\ totalBorrow'.elastic \in 0..UINT128_MAX
  BY <1>2, UintAssumption DEF RebaseType
<1>7. usdoSupply' = usdoSupply + 0
  BY DEF IInv, MoneyInv
<1> QED BY <1>3, <1>4, <1>5, <1>6, <1>7

(* New debt x, against parts rounded up. *)
LEMMA LoanIsDebtStep ==
  ASSUME IInv, NEW u \in Users, NEW debtRate \in DebtRates, NEW x \in Nat,
         LET part == borrowPart(accrued(debtRate), x)
         IN  /\ Fits(Add(accrued(debtRate), x, part))
             /\ totalBorrow' = Add(accrued(debtRate), x, part)
             /\ userBorrowPart' = [userBorrowPart EXCEPT ![u] = @ + part]
  PROVE  /\ \E v : DebtStep(u, v, debtRate)
         /\ totalBorrow'.elastic = accrued(debtRate).elastic + x
         /\ totalBorrow'.elastic \in 0..UINT128_MAX
<1> DEFINE total == accrued(debtRate)
           E == total.elastic
           B == total.base
           part == borrowPart(total, x)
           owned == userBorrowPart[u]
<1>1. elapsed \in Nat /\ DebtInv
  BY MarketAssumption DEF IInv, ControlInv
<1>2. total \in RebaseType /\ Covered(total)
  BY <1>1, InterestFacts
<1>3. userBorrowPart \in [Users -> Nat] /\ owned \in Nat
  BY <1>1 DEF DebtInv
<1> HIDE DEF total
<1>4. E \in Nat /\ B \in Nat /\ B <= E
  BY <1>2, UintAssumption DEF RebaseType, Covered
<1>5. part \in Nat /\ part <= x /\ x * B <= E * part
  <2>1. CASE E = 0
    <3>1. part = x
      BY <2>1, Zenon DEF borrowPart, ToBase
    <3>2. x * B = 0 /\ E * x = 0
      BY <1>4, <2>1
    <3> HIDE DEF part
    <3> QED BY <2>1, <1>4, <3>1, <3>2
  <2>2. CASE E # 0
    <3>1. part = CeilDiv(x * B, E)
      BY <2>2, Zenon DEF borrowPart, ToBase, RoundedDiv
    <3> HIDE DEF E, B, part
    <3>2. E > 0
      BY <1>4, <2>2
    <3> QED BY <1>4, <3>1, <3>2, BorrowRounding
  <2> QED BY <2>1, <2>2
<1>6. /\ Fits(Add(total, x, part))
      /\ totalBorrow' = Add(total, x, part)
      /\ userBorrowPart' = [userBorrowPart EXCEPT ![u] = owned + part]
  BY DEF total
<1> HIDE DEF part, E, B, owned
<1>7. totalBorrow' = [elastic |-> E + x, base |-> B + part]
  BY <1>6 DEF Add, E, B
<1>8. E + x <= UINT128_MAX /\ B + part <= UINT128_MAX
  BY <1>6 DEF Fits, Add, E, B
<1>9. /\ totalBorrow'.elastic = E + x /\ totalBorrow'.base = B + part
      /\ totalBorrow' \in RebaseType
      /\ Covered(totalBorrow')
  BY <1>4, <1>5, <1>7, <1>8, UintAssumption DEF RebaseType, Covered
<1>10. (E + x) * B <= E * (B + part)
  BY <1>4, <1>5
<1>11. B + part = B - owned + (owned + part) /\ owned + part \in Nat
  BY <1>3, <1>4, <1>5
<1>12. DebtStep(u, owned + part, debtRate)
  BY <1>6, <1>9, <1>10, <1>11 DEF DebtStep, total, E, B, owned
<1>13. totalBorrow'.elastic \in 0..UINT128_MAX
  BY <1>4, <1>8, <1>9
<1> QED BY <1>9, <1>12, <1>13 DEF total, E

(* Debt `amount` less, against `part` of one user: what is owed then still *)
(* covers the parts that stay.                                             *)
LEMMA ReductionIsDebtStep ==
  ASSUME IInv, NEW u \in Users, NEW debtRate \in DebtRates,
         NEW amount \in Nat, NEW part \in Nat, part <= userBorrowPart[u],
         amount <= accrued(debtRate).elastic,
         part <= accrued(debtRate).base,
         accrued(debtRate).base - part <= accrued(debtRate).elastic - amount,
         part * accrued(debtRate).elastic <= accrued(debtRate).base * amount,
         totalBorrow' = Sub(accrued(debtRate), amount, part),
         userBorrowPart' = [userBorrowPart EXCEPT ![u] = userBorrowPart[u] - part]
  PROVE  /\ \E v : DebtStep(u, v, debtRate)
         /\ totalBorrow'.elastic = accrued(debtRate).elastic - amount
<1> DEFINE total == accrued(debtRate)
           E == total.elastic
           B == total.base
           owned == userBorrowPart[u]
<1>1. elapsed \in Nat /\ DebtInv
  BY MarketAssumption DEF IInv, ControlInv
<1>2. total \in RebaseType
  BY <1>1, InterestFacts
<1>3. owned \in Nat /\ part <= owned
  BY <1>1 DEF DebtInv
<1> HIDE DEF total
<1>4. E \in 0..UINT128_MAX /\ B \in 0..UINT128_MAX /\ UINT128_MAX \in Nat
  BY <1>2, UintAssumption DEF RebaseType
<1>5. amount <= E /\ part <= B /\ B - part <= E - amount /\ part * E <= B * amount
  BY DEF total
<1>6. totalBorrow' = [elastic |-> E - amount, base |-> B - part]
  BY DEF total, Sub
<1> HIDE DEF E, B, owned
<1>7. /\ totalBorrow'.elastic = E - amount /\ totalBorrow'.base = B - part
      /\ totalBorrow' \in RebaseType
      /\ Covered(totalBorrow')
  BY <1>4, <1>5, <1>6 DEF RebaseType, Covered
<1>8. (E - amount) * B <= E * (B - part)
  <2>1. (E - amount) * B = E * B - amount * B /\ E * (B - part) = E * B - E * part
    BY <1>4
  <2>2. part * E = E * part /\ B * amount = amount * B
    BY <1>4
  <2>3. E * B \in Int /\ amount * B \in Int /\ E * part \in Int
    BY <1>4
  <2> QED BY <1>5, <2>1, <2>2, <2>3
<1>9. B - part = B - owned + (owned - part) /\ owned - part \in Nat
  BY <1>3, <1>4
<1>10. DebtStep(u, owned - part, debtRate)
  BY <1>7, <1>8, <1>9 DEF DebtStep, total, E, B, owned
<1> QED BY <1>7, <1>10 DEF total, E

-----------------------------------------------------------------------------
(* What those moves are to the ledger. *)

LEMMA IssueIsLedgerStep ==
  ASSUME IInv, NEW debtRate \in DebtRates, NEW amount \in Nat, NEW fee \in Nat,
         totalBorrow'.elastic = accrued(debtRate).elastic + (amount + fee),
         totalBorrow'.elastic \in 0..UINT128_MAX,
         usdoSupply' = usdoSupply + amount,
         openInterestDebt' = openInterestDebt + interest(debtRate)
  PROVE  LedgerStep
<1> DEFINE i == interest(debtRate)
           E == totalBorrow.elastic
<1>1. elapsed \in Nat /\ DebtInv
  BY MarketAssumption DEF IInv, ControlInv
<1>2. i \in 0..UINT128_MAX /\ accrued(debtRate).elastic = E + i
  BY <1>1, InterestFacts
<1>3. E \in Nat /\ UINT128_MAX \in Nat
  BY <1>1, UintAssumption DEF DebtInv, RebaseType
<1> HIDE DEF i, E
<1>4. totalBorrow'.elastic = E + i + amount + fee
  BY <1>2, <1>3
<1>5. amount \in 0..UINT128_MAX /\ fee \in 0..UINT128_MAX
  BY <1>2, <1>3, <1>4
<1>6. Ledger!Charge(i)
  BY DEF Ledger!Charge, i
<1>7. Ledger!Issue(i, amount)
  BY <1>4, <1>5 DEF Ledger!Issue, E
<1>8. Ledger!Next
  BY <1>2, <1>5, <1>6, <1>7 DEF Ledger!Next
<1> QED BY <1>8 DEF LedgerStep

LEMMA RetireIsLedgerStep ==
  ASSUME IInv, NEW debtRate \in DebtRates, NEW amount \in Nat,
         amount <= accrued(debtRate).elastic, amount <= usdoSupply,
         totalBorrow'.elastic = accrued(debtRate).elastic - amount,
         usdoSupply' = usdoSupply - amount,
         openInterestDebt' = openInterestDebt + interest(debtRate)
  PROVE  LedgerStep
<1> DEFINE i == interest(debtRate)
           E == totalBorrow.elastic
<1>1. elapsed \in Nat /\ DebtInv
  BY MarketAssumption DEF IInv, ControlInv
<1>2. i \in 0..UINT128_MAX /\ accrued(debtRate).elastic = E + i
      /\ accrued(debtRate) \in RebaseType
  BY <1>1, InterestFacts
<1>3. E \in Nat /\ UINT128_MAX \in Nat /\ accrued(debtRate).elastic <= UINT128_MAX
  BY <1>1, <1>2, UintAssumption DEF DebtInv, RebaseType
<1> HIDE DEF i, E
<1>4. amount \in 0..UINT128_MAX
  BY <1>2, <1>3
<1>5. Ledger!Charge(i)
  BY DEF Ledger!Charge, i
<1>6. Ledger!Retire(i, amount)
  BY <1>2, <1>3 DEF Ledger!Retire, E
<1>7. Ledger!Next
  BY <1>2, <1>4, <1>5, <1>6 DEF Ledger!Next
<1> QED BY <1>7 DEF LedgerStep

(* The part of the invariant an accrual leaves behind. *)
LEMMA AccrualKeepsControl ==
  ASSUME IInv, NEW debtRate \in DebtRates, Accrues(debtRate)
  PROVE  openInterestDebt' \in Nat /\ elapsed' \in 0..MaxElapsed
<1>1. elapsed \in Nat /\ DebtInv /\ openInterestDebt \in Nat
  BY MarketAssumption DEF IInv, ControlInv, MoneyInv
<1>2. interest(debtRate) \in Nat
  BY <1>1, InterestFacts, UintAssumption
<1> QED BY <1>1, <1>2, MarketAssumption DEF Accrues

(* All a step has to keep. *)
StepOK == IInv' /\ NotDearer /\ LedgerStep

-----------------------------------------------------------------------------
(* Collateral actions. *)

(* Shares a user takes out were the user's, and the market holds them. *)
LEMMA OutflowKeeps ==
  ASSUME IInv, NEW u \in Users, NEW share \in Nat, NEW sent \in Nat, sent <= share,
         share <= userCollateralShare[u],
         userCollateralShare' = [userCollateralShare EXCEPT ![u] = userCollateralShare[u] - share],
         totalCollateralShare' = totalCollateralShare - share,
         collateralBalance' = collateralBalance - sent
  PROVE  CollateralInv'
<1> DEFINE owned == userCollateralShare[u]
<1>1. IsFiniteSet(Users)
  BY MarketAssumption
<1>2. /\ userCollateralShare \in [Users -> Nat]
      /\ totalCollateralShare = SumOver(userCollateralShare)
      /\ collateralBalance \in Nat
      /\ totalCollateralShare <= collateralBalance
  BY DEF IInv, CollateralInv, CollateralCustody
<1>3. owned \in Nat /\ owned <= totalCollateralShare /\ totalCollateralShare \in Nat
  BY <1>1, <1>2, SumBounds
<1>4. share <= owned
  OBVIOUS
<1> HIDE DEF owned
<1>5. CollateralStep(u, owned - share)
  BY <1>2, <1>3, <1>4 DEF CollateralStep, owned
<1> QED BY <1>5, CollateralStepKeeps

LEMMA InflowKeeps ==
  ASSUME IInv, NEW u \in Users, NEW share \in Nat,
         userCollateralShare' = [userCollateralShare EXCEPT ![u] = userCollateralShare[u] + share],
         totalCollateralShare' = totalCollateralShare + share,
         collateralBalance' \in Nat,
         totalCollateralShare + share <= collateralBalance'
  PROVE  CollateralInv'
<1> DEFINE owned == userCollateralShare[u]
<1>1. /\ userCollateralShare \in [Users -> Nat] /\ owned \in Nat
      /\ totalCollateralShare \in Nat
  BY DEF IInv, CollateralInv
<1> HIDE DEF owned
<1>2. CollateralStep(u, owned + share)
  BY <1>1 DEF CollateralStep, owned
<1> QED BY <1>2, CollateralStepKeeps

LEMMA AddCollateralOK ==
  ASSUME IInv, NEW u \in Users, NEW amount \in Nat, NEW share \in Nat, NEW skim \in BOOLEAN,
         addCollateral(u, amount, share, skim)
  PROVE  StepOK
<1> DEFINE credited == IF share = 0 THEN toShare(amount) ELSE share
<1>1. credited \in Nat
  BY ShareRoundTrip
<1> HIDE DEF credited
<1>2. /\ userCollateralShare' = [userCollateralShare EXCEPT ![u] = @ + credited]
      /\ totalCollateralShare' = totalCollateralShare + credited
      /\ UNCHANGED <<debtVars, usdoVars, exchangeRate, elapsed, pauseOptions>>
  BY DEF addCollateral, credited
<1>3. \/ /\ credited <= collateralBalance - totalCollateralShare
         /\ UNCHANGED collateralBalance
      \/ collateralBalance' = collateralBalance + credited
  BY Zenon DEF addCollateral, credited, skimmable
<1>4. /\ totalCollateralShare \in Nat /\ collateralBalance \in Nat
      /\ totalCollateralShare <= collateralBalance
  BY DEF IInv, CollateralInv, CollateralCustody
<1>5. collateralBalance' \in Nat /\ totalCollateralShare + credited <= collateralBalance'
  BY <1>1, <1>3, <1>4
<1>6. CollateralInv'
  BY <1>1, <1>2, <1>5, InflowKeeps
<1>7. DebtInv' /\ MoneyInv' /\ ControlInv' /\ NotDearer
  BY <1>2 DEF IInv, DebtInv, BorrowPartsSum, MoneyInv, ControlInv, NotDearer, debtVars, usdoVars,
              RebaseType
<1>8. UNCHANGED Ledger!ledgerVars
  BY <1>2 DEF Ledger!ledgerVars, debtVars, usdoVars
<1> QED BY <1>6, <1>7, <1>8 DEF StepOK, IInv, LedgerStep

LEMMA RemoveCollateralOK ==
  ASSUME IInv, NEW u \in Users, NEW share \in Nat, NEW rate \in ExchangeRates,
         NEW debtRate \in DebtRates, removeCollateral(u, share, rate, debtRate)
  PROVE  StepOK
<1>1. /\ share <= userCollateralShare[u]
      /\ totalBorrow' = accrued(debtRate)
      /\ userCollateralShare' = [userCollateralShare EXCEPT ![u] = @ - share]
      /\ totalCollateralShare' = totalCollateralShare - share
      /\ collateralBalance' = collateralBalance - share
      /\ Accrues(debtRate)
      /\ exchangeRate' = rate
      /\ UNCHANGED <<userBorrowPart, usdoVars, pauseOptions>>
  BY DEF removeCollateral, UpdatesRate
<1>2. CollateralInv'
  <2>1. share <= share
    OBVIOUS
  <2> QED BY <1>1, <2>1, OutflowKeeps, Zenon
<1>3. /\ DebtInv' /\ NotDearer
      /\ openInterestDebt' \in Nat /\ elapsed' \in 0..MaxElapsed
      /\ totalBorrow'.elastic = accrued(debtRate).elastic + (0 + 0)
      /\ totalBorrow'.elastic \in 0..UINT128_MAX
      /\ usdoSupply' = usdoSupply + 0
  BY <1>1, AccrualKeeps DEF usdoVars
<1>4. MoneyInv' /\ ControlInv'
  BY <1>1, <1>3 DEF IInv, MoneyInv, ControlInv, usdoVars
<1>5. LedgerStep
  BY <1>1, <1>3, IssueIsLedgerStep DEF Accrues
<1> QED BY <1>2, <1>3, <1>4, <1>5 DEF StepOK, IInv

-----------------------------------------------------------------------------
(* Borrowing and repaying, with or without leverage. *)

LEMMA BorrowsKeeps ==
  ASSUME IInv, NEW u \in Users, NEW amount \in Nat, NEW fee \in Nat,
         NEW debtRate \in DebtRates, Borrows(u, amount, fee, debtRate)
  PROVE  /\ DebtInv' /\ NotDearer /\ LedgerStep
         /\ openInterestDebt' \in Nat /\ elapsed' \in 0..MaxElapsed /\ usdoSupply' \in Nat
<1> DEFINE part == borrowPart(accrued(debtRate), amount + fee)
<1>1. /\ Fits(Add(accrued(debtRate), amount + fee, part))
      /\ totalBorrow' = Add(accrued(debtRate), amount + fee, part)
      /\ userBorrowPart' = [userBorrowPart EXCEPT ![u] = @ + part]
      /\ usdoSupply' = usdoSupply + amount
      /\ Accrues(debtRate)
  BY DEF Borrows
<1>2. amount + fee \in Nat
  OBVIOUS
<1>3. /\ \E v : DebtStep(u, v, debtRate)
      /\ totalBorrow'.elastic = accrued(debtRate).elastic + (amount + fee)
      /\ totalBorrow'.elastic \in 0..UINT128_MAX
  BY <1>1, <1>2, LoanIsDebtStep
<1>4. DebtInv' /\ NotDearer
  BY <1>3, DebtStepKeeps
<1>5. LedgerStep
  BY <1>1, <1>3, IssueIsLedgerStep DEF Accrues
<1>6. openInterestDebt' \in Nat /\ elapsed' \in 0..MaxElapsed
  BY <1>1, AccrualKeepsControl
<1>7. usdoSupply' \in Nat
  BY <1>1 DEF IInv, MoneyInv
<1> QED BY <1>4, <1>5, <1>6, <1>7

LEMMA BorrowOK ==
  ASSUME IInv, NEW u \in Users, NEW amount \in Nat, NEW price \in Nat,
         NEW rate \in ExchangeRates, NEW debtRate \in DebtRates,
         borrow(u, amount, price, rate, debtRate)
  PROVE  StepOK
<1> DEFINE fee == computeVariableOpeningFee(amount, price)
<1>1. fee \in Nat
  BY OpeningFeeNat
<1>2. /\ Borrows(u, amount, fee, debtRate)
      /\ exchangeRate' = rate
      /\ UNCHANGED <<collateralVars, usdoBalance, pauseOptions>>
  BY DEF borrow, UpdatesRate
<1> HIDE DEF fee
<1>3. /\ DebtInv' /\ NotDearer /\ LedgerStep
      /\ openInterestDebt' \in Nat /\ elapsed' \in 0..MaxElapsed /\ usdoSupply' \in Nat
  BY <1>1, <1>2, BorrowsKeeps
<1>4. CollateralInv' /\ MoneyInv' /\ ControlInv'
  BY <1>2, <1>3 DEF IInv, CollateralInv, CollateralCustody, MoneyInv, ControlInv, collateralVars
<1> QED BY <1>3, <1>4 DEF StepOK, IInv

LEMMA RepaysKeeps ==
  ASSUME IInv, NEW u \in Users, NEW part \in Nat, part <= userBorrowPart[u],
         NEW debtRate \in DebtRates, Repays(u, part, debtRate)
  PROVE  /\ DebtInv' /\ NotDearer /\ LedgerStep
         /\ openInterestDebt' \in Nat /\ elapsed' \in 0..MaxElapsed /\ usdoSupply' \in Nat
<1> DEFINE total == accrued(debtRate)
           amount == ToElastic(total, part, TRUE)
           E == total.elastic
           B == total.base
<1>1. elapsed \in Nat /\ DebtInv /\ IsFiniteSet(Users)
  BY MarketAssumption DEF IInv, ControlInv
<1>2. total \in RebaseType /\ Covered(total) /\ total.base = totalBorrow.base
  BY <1>1, InterestFacts
<1>3. E \in Nat /\ B \in Nat /\ B <= E /\ total \in [elastic : Nat, base : Nat]
  BY <1>2, UintAssumption DEF RebaseType, Covered
<1>4. part > 0 /\ part <= B
  <2>1. userBorrowPart[u] <= totalBorrow.base
    BY <1>1, SumBounds DEF DebtInv, BorrowPartsSum
  <2>2. userBorrowPart[u] \in Nat
    BY <1>1 DEF DebtInv
  <2>3. part > 0
    BY DEF Repays
  <2>4. userBorrowPart[u] <= B
    BY <1>2, <2>1
  <2> HIDE DEF B
  <2> QED BY <1>3, <2>2, <2>3, <2>4
<1>5. amount \in Nat /\ toAmount(toShare(amount), FALSE) = amount
  <2>1. amount \in Nat
    BY <1>3, ToElasticNat
  <2> QED BY <2>1, ShareRoundTrip
<1>6. /\ amount <= E
      /\ amount <= circulating
      /\ totalBorrow' = Sub(total, amount, part)
      /\ userBorrowPart' = [userBorrowPart EXCEPT ![u] = userBorrowPart[u] - part]
      /\ usdoSupply' = usdoSupply - amount
      /\ Accrues(debtRate)
  BY <1>5, Zenon DEF Repays, burnedFor
<1>7. /\ B - part <= E - amount
      /\ part * E <= B * amount
  <2>1. amount = CeilDiv(part * E, B)
    <3>1. B # 0
      BY <1>3, <1>4
    <3> QED BY <3>1, Zenon DEF ToElastic, RoundedDiv
  <2> HIDE DEF amount, E, B
  <2>2. B > 0
    BY <1>3, <1>4
  <2> QED BY <1>3, <1>4, <2>1, <2>2, RepayRounding
<1> HIDE DEF amount
<1>8. /\ \E v : DebtStep(u, v, debtRate)
      /\ totalBorrow'.elastic = total.elastic - amount
  BY <1>4, <1>5, <1>6, <1>7, ReductionIsDebtStep
<1>9. DebtInv' /\ NotDearer
  BY <1>8, DebtStepKeeps
<1>10. amount <= usdoSupply /\ usdoSupply \in Nat
  BY <1>5, <1>6 DEF IInv, MoneyInv, circulating
<1>11. LedgerStep
  BY <1>5, <1>6, <1>8, <1>10, RetireIsLedgerStep DEF Accrues
<1>12. openInterestDebt' \in Nat /\ elapsed' \in 0..MaxElapsed
  BY <1>6, AccrualKeepsControl
<1>13. usdoSupply' \in Nat
  BY <1>5, <1>6, <1>10
<1> QED BY <1>9, <1>11, <1>12, <1>13

LEMMA RepayOK ==
  ASSUME IInv, NEW u \in Users, NEW part \in Nat, NEW rate \in ExchangeRates,
         NEW debtRate \in DebtRates, repay(u, part, rate, debtRate)
  PROVE  StepOK
<1> DEFINE repaid == Least(part, userBorrowPart[u])
<1>1. repaid \in Nat /\ repaid <= userBorrowPart[u]
  <2>1. userBorrowPart[u] \in Nat
    BY DEF IInv, DebtInv
  <2> QED BY <2>1, LeastNat
<1>2. /\ Repays(u, repaid, debtRate)
      /\ exchangeRate' = rate
      /\ UNCHANGED <<collateralVars, usdoBalance, pauseOptions>>
  BY DEF repay, UpdatesRate
<1> HIDE DEF repaid
<1>3. /\ DebtInv' /\ NotDearer /\ LedgerStep
      /\ openInterestDebt' \in Nat /\ elapsed' \in 0..MaxElapsed /\ usdoSupply' \in Nat
  BY <1>1, <1>2, RepaysKeeps
<1>4. CollateralInv' /\ MoneyInv' /\ ControlInv'
  BY <1>2, <1>3 DEF IInv, CollateralInv, CollateralCustody, MoneyInv, ControlInv, collateralVars
<1> QED BY <1>3, <1>4 DEF StepOK, IInv

LEMMA BuyCollateralOK ==
  ASSUME IInv, NEW u \in Users, NEW amount \in Nat, NEW out \in Nat, NEW price \in Nat,
         NEW rate \in ExchangeRates, NEW debtRate \in DebtRates,
         buyCollateral(u, amount, out, price, rate, debtRate)
  PROVE  StepOK
<1> DEFINE fee == computeVariableOpeningFee(amount, price)
           share == toShare(out)
<1>1. fee \in Nat /\ share \in Nat
  BY OpeningFeeNat, ShareRoundTrip
<1>2. /\ Borrows(u, amount, fee, debtRate)
      /\ userCollateralShare' = [userCollateralShare EXCEPT ![u] = userCollateralShare[u] + share]
      /\ totalCollateralShare' = totalCollateralShare + share
      /\ collateralBalance' = collateralBalance + share
      /\ exchangeRate' = rate
      /\ UNCHANGED <<usdoBalance, pauseOptions>>
  BY DEF buyCollateral, UpdatesRate
<1> HIDE DEF fee, share
<1>3. /\ DebtInv' /\ NotDearer /\ LedgerStep
      /\ openInterestDebt' \in Nat /\ elapsed' \in 0..MaxElapsed /\ usdoSupply' \in Nat
  BY <1>1, <1>2, BorrowsKeeps
<1>4. collateralBalance' \in Nat /\ totalCollateralShare + share <= collateralBalance'
  BY <1>1, <1>2 DEF IInv, CollateralInv, CollateralCustody
<1>5. CollateralInv'
  BY <1>1, <1>2, <1>4, InflowKeeps
<1>6. MoneyInv' /\ ControlInv'
  BY <1>2, <1>3 DEF IInv, MoneyInv, ControlInv
<1> QED BY <1>3, <1>5, <1>6 DEF StepOK, IInv

LEMMA SellCollateralOK ==
  ASSUME IInv, NEW u \in Users, NEW share \in Nat, NEW out \in Nat,
         NEW rate \in ExchangeRates, NEW debtRate \in DebtRates,
         sellCollateral(u, share, out, rate, debtRate)
  PROVE  StepOK
<1> DEFINE total == accrued(debtRate)
           partOwed == userBorrowPart[u]
           owed == ToElastic(total, partOwed, TRUE)
           part == IF toShare(owed) <= toShare(out) THEN partOwed
                   ELSE Least(ToBase(total, out, FALSE), partOwed)
<1>1. elapsed \in Nat /\ DebtInv
  BY MarketAssumption DEF IInv, ControlInv
<1>2. total \in [elastic : Nat, base : Nat]
  BY <1>1, InterestFacts, UintAssumption DEF RebaseType
<1>3. part \in Nat /\ part <= partOwed
  <2> DEFINE affordable == ToBase(total, out, FALSE)
  <2>1. partOwed \in Nat
    BY <1>1 DEF DebtInv
  <2>2. affordable \in Nat
    BY <1>2, ToBaseNat
  <2> HIDE DEF affordable
  <2>3. Least(affordable, partOwed) \in Nat /\ Least(affordable, partOwed) <= partOwed
    BY <2>1, <2>2, LeastNat
  <2>4. partOwed <= partOwed
    BY <2>1
  <2>5. part = partOwed \/ part = Least(affordable, partOwed)
    BY Zenon DEF affordable
  <2> HIDE DEF part, partOwed
  <2> QED BY <2>1, <2>3, <2>4, <2>5, Zenon
<1>4. /\ share <= userCollateralShare[u]
      /\ userCollateralShare' = [userCollateralShare EXCEPT ![u] = userCollateralShare[u] - share]
      /\ totalCollateralShare' = totalCollateralShare - share
      /\ collateralBalance' = collateralBalance - share
      /\ Repays(u, part, debtRate)
      /\ exchangeRate' = rate
      /\ UNCHANGED <<usdoBalance, pauseOptions>>
  BY Zenon DEF sellCollateral, UpdatesRate
<1> HIDE DEF part
<1>5. /\ DebtInv' /\ NotDearer /\ LedgerStep
      /\ openInterestDebt' \in Nat /\ elapsed' \in 0..MaxElapsed /\ usdoSupply' \in Nat
  BY <1>3, <1>4, RepaysKeeps
<1>6. CollateralInv'
  <2>1. share <= share
    OBVIOUS
  <2> QED BY <1>4, <2>1, OutflowKeeps, Zenon
<1>7. MoneyInv' /\ ControlInv'
  BY <1>4, <1>5 DEF IInv, MoneyInv, ControlInv
<1> QED BY <1>5, <1>6, <1>7 DEF StepOK, IInv

-----------------------------------------------------------------------------
(* Liquidation. *)

LEMMA SendsAtMost ==
  ASSUME NEW share \in Nat
  PROVE  toShare(toAmount(share, FALSE)) \in Nat /\ toShare(toAmount(share, FALSE)) <= share
  BY WholeTokens

LEMMA LiquidateOK ==
  ASSUME IInv, NEW u \in Users, NEW limit \in Nat, NEW bonus \in Nat, NEW returned \in Nat,
         NEW rate \in ExchangeRates, NEW debtRate \in DebtRates,
         liquidate(u, limit, bonus, returned, rate, debtRate)
  PROVE  StepOK
<1> DEFINE total == accrued(debtRate)
           part == userBorrowPart[u]
           share == userCollateralShare[u]
           reward == getCallerReward(part, share, total, rate)
<1>1. elapsed \in Nat /\ DebtInv /\ IsFiniteSet(Users)
  BY MarketAssumption DEF IInv, ControlInv
<1>2. total \in RebaseType /\ Covered(total) /\ total.base = totalBorrow.base
  BY <1>1, InterestFacts
<1>3. part \in Nat /\ part <= totalBorrow.base /\ share \in Nat
  BY <1>1, SumBounds DEF DebtInv, BorrowPartsSum, IInv, CollateralInv
<1>4. part > 0
  <2>1. part # 0
    BY DEF liquidate, isSolvent
  <2> QED BY <1>3, <2>1
<1>5. rate \in Nat \ {0} /\ closingDenominator # 0
  BY MarketAssumption DEF liquidate
<1>6. PICK cut \in liquidationCut(part, share, total, rate, limit, bonus) :
        /\ returned <= circulating
        /\ toShare(returned) >= toShare(cut.amount)
        /\ totalBorrow' = Sub(total, cut.amount, cut.part)
        /\ userBorrowPart' = [userBorrowPart EXCEPT ![u] = userBorrowPart[u] - cut.part]
        /\ userCollateralShare' =
             [userCollateralShare EXCEPT ![u] = userCollateralShare[u] - cut.share]
        /\ totalCollateralShare' = IF totalCollateralShare > cut.share
                                   THEN totalCollateralShare - cut.share ELSE 0
        /\ SendsCollateral(cut.share)
        /\ usdoBalance' = usdoBalance + returned - cut.amount
                            - toAmount(extractLiquidationFees(toShare(returned), toShare(cut.amount),
                                                              reward).callerShare, TRUE)
        /\ usdoSupply' = usdoSupply - cut.amount
  BY Zenon DEF liquidate
<1>7. Accrues(debtRate) /\ exchangeRate' = rate /\ UNCHANGED pauseOptions
  BY Zenon DEF liquidate, UpdatesRate
<1>8. /\ total \in [elastic : Nat, base : Nat] /\ total.base > 0
      /\ total.base <= total.elastic /\ part <= total.base
  BY <1>2, <1>3, <1>4, UintAssumption DEF RebaseType, Covered
<1> HIDE DEF total, part, share
<1>9. /\ cut.amount \in Nat /\ cut.amount <= total.elastic
      /\ cut.part \in Nat /\ cut.part <= part
      /\ cut.share \in Nat /\ cut.share <= share
      /\ total.base - cut.part <= total.elastic - cut.amount
      /\ cut.part * total.elastic <= total.base * cut.amount
  BY <1>3, <1>4, <1>5, <1>8, CutFacts
<1>10. reward \in 0..FEE_PRECISION
  BY <1>3, <1>5, <1>8, CallerRewardBounded
<1> HIDE DEF reward
<1>11. /\ \E v : DebtStep(u, v, debtRate)
       /\ totalBorrow'.elastic = total.elastic - cut.amount
  <2>1. cut.part <= total.base
    BY <1>3, <1>8, <1>9
  <2> QED BY <1>6, <1>9, <2>1, ReductionIsDebtStep DEF total, part
<1>12. DebtInv' /\ NotDearer
  BY <1>11, DebtStepKeeps
<1>13. CollateralInv'
  <2> DEFINE sent == toShare(toAmount(cut.share, FALSE))
  <2>1. sent \in Nat /\ sent <= cut.share
    BY <1>9, SendsAtMost
  <2>2. collateralBalance' = collateralBalance - sent
    BY <1>6 DEF SendsCollateral
  <2> HIDE DEF sent
  <2>3. share <= totalCollateralShare /\ totalCollateralShare \in Nat
    BY <1>1, SumBounds DEF IInv, CollateralInv, CollateralCustody, share
  <2>4. totalCollateralShare' = totalCollateralShare - cut.share
    <3>1. totalCollateralShare' = IF totalCollateralShare > cut.share
                                  THEN totalCollateralShare - cut.share ELSE 0
      BY <1>6
    <3> QED BY <1>3, <1>9, <2>3, <3>1
  <2>5. cut.share <= userCollateralShare[u]
    BY <1>9 DEF share
  <2> QED BY <1>6, <1>9, <2>1, <2>2, <2>4, <2>5, OutflowKeeps
<1>14. MoneyInv' /\ LedgerStep
  <2> DEFINE paid == toAmount(extractLiquidationFees(toShare(returned), toShare(cut.amount),
                                                     reward).callerShare, TRUE)
  <2>1. toShare(returned) >= toShare(cut.amount)
    BY <1>6
  <2>2. cut.amount <= returned /\ paid \in Nat /\ paid <= returned - cut.amount
    BY <1>9, <1>10, <2>1, CallerPaidFromSurplus
  <2>3. usdoBalance' = usdoBalance + returned - cut.amount - paid
    BY <1>6
  <2> HIDE DEF paid
  <2>4. usdoBalance \in Nat /\ usdoSupply \in Nat
    BY DEF IInv, MoneyInv
  <2>5. usdoBalance' \in Nat
    BY <1>9, <2>2, <2>3, <2>4
  <2>6. cut.amount <= usdoSupply
    BY <1>6, <1>9, <2>2, <2>4 DEF circulating
  <2>7. usdoSupply' = usdoSupply - cut.amount /\ usdoSupply' \in Nat
    BY <1>6, <1>9, <2>4, <2>6
  <2>8. openInterestDebt' \in Nat
    BY <1>7, AccrualKeepsControl
  <2>9. LedgerStep
    BY <1>7, <1>9, <1>11, <2>6, <2>7, RetireIsLedgerStep DEF Accrues, total
  <2> QED BY <2>5, <2>7, <2>8, <2>9 DEF MoneyInv
<1>15. ControlInv'
  BY <1>7, AccrualKeepsControl DEF IInv, ControlInv
<1> QED BY <1>12, <1>13, <1>14, <1>15 DEF StepOK, IInv

LEMMA LiquidateBadDebtOK ==
  ASSUME IInv, NEW u \in Users, NEW rate \in ExchangeRates, NEW debtRate \in DebtRates,
         liquidateBadDebt(u, rate, debtRate)
  PROVE  StepOK
<1> DEFINE total == accrued(debtRate)
           part == userBorrowPart[u]
           share == userCollateralShare[u]
           amount == ToElastic(total, part, TRUE)
           sent == toShare(toAmount(share, FALSE))
           E == total.elastic
           B == total.base
<1>1. elapsed \in Nat /\ DebtInv /\ IsFiniteSet(Users)
  BY MarketAssumption DEF IInv, ControlInv
<1>2. total \in RebaseType /\ Covered(total) /\ total.base = totalBorrow.base
  BY <1>1, InterestFacts
<1>3. part \in Nat /\ part <= totalBorrow.base /\ share \in Nat
  BY <1>1, SumBounds DEF DebtInv, BorrowPartsSum, IInv, CollateralInv
<1>4. /\ E \in Nat /\ B \in Nat /\ B <= E /\ part <= B
      /\ total \in [elastic : Nat, base : Nat]
  BY <1>2, <1>3, UintAssumption DEF RebaseType, Covered
<1>5. /\ amount <= E
      /\ amount <= circulating
      /\ totalBorrow' = Sub(total, amount, part)
      /\ userBorrowPart' = [userBorrowPart EXCEPT ![u] = 0]
      /\ userCollateralShare' = [userCollateralShare EXCEPT ![u] = 0]
      /\ totalCollateralShare' = totalCollateralShare - share
      /\ collateralBalance' = collateralBalance - sent
      /\ usdoSupply' = usdoSupply - amount
      /\ Accrues(debtRate)
      /\ exchangeRate' = rate
      /\ UNCHANGED <<usdoBalance, pauseOptions>>
  BY Zenon DEF liquidateBadDebt, SendsCollateral, UpdatesRate
<1>6. amount \in Nat /\ sent \in Nat /\ sent <= share
  <2>1. amount \in Nat
    BY <1>3, <1>4, ToElasticNat
  <2> HIDE DEF amount
  <2> QED BY <1>3, <2>1, SendsAtMost
<1>7. B - part <= E - amount /\ part * E <= B * amount
  <2>1. CASE B = 0
    <3>1. part = 0
      BY <1>3, <1>4, <2>1
    <3>2. amount = part
      BY <2>1, Zenon DEF ToElastic
    <3> HIDE DEF amount, part, E, B
    <3> QED BY <1>4, <2>1, <3>1, <3>2
  <2>2. CASE B # 0
    <3>1. amount = CeilDiv(part * E, B)
      BY <2>2, Zenon DEF ToElastic, RoundedDiv
    <3> HIDE DEF amount, part, E, B
    <3>2. B > 0
      BY <1>4, <2>2
    <3> QED BY <1>3, <1>4, <3>1, <3>2, RepayRounding
  <2> QED BY <2>1, <2>2
<1> HIDE DEF amount, sent
<1>8. userBorrowPart' = [userBorrowPart EXCEPT ![u] = userBorrowPart[u] - part]
  <2>1. part - part = 0
    BY <1>3
  <2> QED BY <1>5, <2>1
<1>9. /\ \E v : DebtStep(u, v, debtRate)
      /\ totalBorrow'.elastic = E - amount
  <2>1. part <= userBorrowPart[u]
    BY <1>3
  <2> QED BY <1>3, <1>4, <1>5, <1>6, <1>7, <1>8, <2>1, ReductionIsDebtStep
<1>10. DebtInv' /\ NotDearer
  BY <1>9, DebtStepKeeps
<1>11. CollateralInv'
  <2>1. userCollateralShare' = [userCollateralShare EXCEPT ![u] = userCollateralShare[u] - share]
    <3>1. share - share = 0
      BY <1>3
    <3> QED BY <1>5, <3>1
  <2>2. share <= userCollateralShare[u]
    BY <1>3
  <2> QED BY <1>3, <1>5, <1>6, <2>1, <2>2, OutflowKeeps
<1>12. amount <= usdoSupply /\ usdoSupply \in Nat
  BY <1>5, <1>6 DEF IInv, MoneyInv, circulating
<1>13. LedgerStep
  BY <1>5, <1>6, <1>9, <1>12, RetireIsLedgerStep DEF Accrues
<1>14. MoneyInv' /\ ControlInv'
  BY <1>5, <1>6, <1>12, AccrualKeepsControl DEF IInv, MoneyInv, ControlInv
<1> QED BY <1>10, <1>11, <1>13, <1>14 DEF StepOK, IInv

-----------------------------------------------------------------------------
(* Interest, fees and the environment. *)

LEMMA AccrueOK ==
  ASSUME IInv, NEW debtRate \in DebtRates, accrue(debtRate)
  PROVE  StepOK
<1>1. /\ totalBorrow' = accrued(debtRate)
      /\ Accrues(debtRate)
      /\ UNCHANGED <<userBorrowPart, collateralVars, usdoVars, exchangeRate, pauseOptions>>
  BY DEF accrue
<1>2. UNCHANGED <<userBorrowPart, usdoSupply>>
  BY <1>1 DEF usdoVars
<1>3. /\ DebtInv' /\ NotDearer
      /\ openInterestDebt' \in Nat /\ elapsed' \in 0..MaxElapsed
      /\ totalBorrow'.elastic = accrued(debtRate).elastic + (0 + 0)
      /\ totalBorrow'.elastic \in 0..UINT128_MAX
      /\ usdoSupply' = usdoSupply + 0
  BY <1>1, <1>2, AccrualKeeps
<1>4. CollateralInv' /\ MoneyInv' /\ ControlInv'
  BY <1>1, <1>3 DEF IInv, CollateralInv, CollateralCustody, MoneyInv, ControlInv,
                    collateralVars, usdoVars
<1>5. LedgerStep
  BY <1>1, <1>3, IssueIsLedgerStep DEF Accrues
<1> QED BY <1>3, <1>4, <1>5 DEF StepOK, IInv

LEMMA MintOpenInterestDebtOK ==
  ASSUME IInv, mintOpenInterestDebt
  PROVE  StepOK
<1>1. IInv'
  BY DEF IInv, DebtInv, BorrowPartsSum, CollateralInv, CollateralCustody, MoneyInv, ControlInv,
         mintOpenInterestDebt, collateralVars, Covered, RebaseType
<1>2. NotDearer
  BY UintAssumption DEF IInv, DebtInv, RebaseType, NotDearer, mintOpenInterestDebt
<1>3. LedgerStep
  <2>1. openInterestDebt \in 0..openInterestDebt
    BY DEF IInv, DebtInv, MoneyInv
  <2>2. Ledger!MintOwed(openInterestDebt)
    BY <2>1 DEF mintOpenInterestDebt, Ledger!MintOwed
  <2>3. Ledger!Next
    BY <2>1, <2>2 DEF Ledger!Next
  <2> QED BY <2>3 DEF LedgerStep
<1> QED BY <1>1, <1>2, <1>3 DEF StepOK

LEMMA RefreshPenroseFeesOK ==
  ASSUME IInv, refreshPenroseFees
  PROVE  StepOK
<1> DEFINE collected == toAmount(toShare(usdoBalance), TRUE)
<1>1. /\ usdoBalance' = usdoBalance - collected
      /\ UNCHANGED <<debtVars, collateralVars, usdoSupply, exchangeRate, elapsed, pauseOptions>>
  BY DEF refreshPenroseFees
<1>2. usdoBalance \in Nat
  BY DEF IInv, MoneyInv
<1>3. collected \in Nat /\ collected <= usdoBalance
  <2>1. toShare(usdoBalance) \in Nat
    BY <1>2, ShareRoundTrip
  <2>2. toShare(usdoBalance) <= toShare(usdoBalance)
    BY <2>1
  <2> QED BY <1>2, <2>1, <2>2, RoundedUpTokens
<1> HIDE DEF collected
<1>4. usdoBalance' \in Nat
  BY <1>1, <1>2, <1>3
<1>5. IInv' /\ NotDearer
  BY <1>1, <1>4, UintAssumption
     DEF IInv, DebtInv, BorrowPartsSum, CollateralInv, CollateralCustody, MoneyInv, ControlInv,
         debtVars, collateralVars, Covered, RebaseType, NotDearer
<1>6. UNCHANGED Ledger!ledgerVars
  BY <1>1 DEF debtVars, Ledger!ledgerVars
<1> QED BY <1>5, <1>6 DEF StepOK, LedgerStep

(* A step that moves neither debt nor USDO in existence, nor users' shares. *)
LEMMA QuietStepOK ==
  ASSUME IInv,
         UNCHANGED <<debtVars, userCollateralShare, totalCollateralShare, usdoSupply>>,
         collateralBalance' \in Nat, collateralBalance <= collateralBalance',
         usdoBalance' \in Nat, ControlInv'
  PROVE  StepOK
<1>1. DebtInv' /\ MoneyInv' /\ NotDearer
  BY UintAssumption DEF IInv, DebtInv, BorrowPartsSum, MoneyInv, debtVars, Covered, RebaseType,
                        NotDearer
<1>2. CollateralInv'
  BY DEF IInv, CollateralInv, CollateralCustody
<1>3. UNCHANGED Ledger!ledgerVars
  BY DEF debtVars, Ledger!ledgerVars
<1> QED BY <1>1, <1>2, <1>3 DEF StepOK, LedgerStep, IInv

LEMMA OtherStepsOK ==
  ASSUME IInv,
         \/ UNCHANGED vars
         \/ \E rate \in ExchangeRates : updateExchangeRate(rate)
         \/ \E option \in Pausable, val \in BOOLEAN : updatePause(option, val)
         \/ \E val \in {TRUE, FALSE} : updatePauseAll(val)
         \/ \E share \in Donations : donateCollateral(share)
         \/ \E amount \in Donations : donateUsdo(amount)
         \/ Tick
  PROVE  StepOK
<1> USE DEF debtVars, collateralVars, usdoVars
<1>1. collateralBalance \in Nat /\ usdoBalance \in Nat /\ ControlInv /\ elapsed \in Nat
  BY MarketAssumption DEF IInv, CollateralInv, MoneyInv, ControlInv
<1>2. CASE UNCHANGED vars
  BY <1>1, <1>2, QuietStepOK DEF vars, ControlInv
<1>3. ASSUME NEW rate \in ExchangeRates, updateExchangeRate(rate) PROVE StepOK
  BY <1>1, <1>3, QuietStepOK DEF updateExchangeRate, UpdatesRate, ControlInv
<1>4. ASSUME NEW option \in Pausable, NEW val \in BOOLEAN, updatePause(option, val) PROVE StepOK
  <2>1. pauseOptions' \in [PauseType -> BOOLEAN]
    BY <1>1, <1>4 DEF updatePause, ControlInv
  <2> QED BY <1>1, <1>4, <2>1, QuietStepOK DEF updatePause, ControlInv
<1>5. ASSUME NEW val \in {TRUE, FALSE}, updatePauseAll(val) PROVE StepOK
  <2>1. pauseOptions' \in [PauseType -> BOOLEAN]
    BY <1>5, Zenon DEF updatePauseAll
  <2> QED BY <1>1, <1>5, <2>1, QuietStepOK DEF updatePauseAll, ControlInv
<1>6. ASSUME NEW share \in Donations, donateCollateral(share) PROVE StepOK
  <2>1. share \in Nat
    BY MarketAssumption
  <2> QED BY <1>1, <1>6, <2>1, QuietStepOK DEF donateCollateral, ControlInv
<1>7. ASSUME NEW amount \in Donations, donateUsdo(amount) PROVE StepOK
  <2>1. amount \in Nat
    BY MarketAssumption
  <2> QED BY <1>1, <1>7, <2>1, QuietStepOK DEF donateUsdo, ControlInv
<1>8. CASE Tick
  <2>1. elapsed' \in 0..MaxElapsed
    BY <1>1, <1>8, MarketAssumption DEF Tick, ControlInv
  <2> QED BY <1>1, <1>8, <2>1, QuietStepOK DEF Tick, ControlInv
<1> QED BY <1>2, <1>3, <1>4, <1>5, <1>6, <1>7, <1>8

-----------------------------------------------------------------------------
(* The theorems. *)

LEMMA InitOK == Init => IInv
<1> SUFFICES ASSUME Init PROVE IInv
  OBVIOUS
<1>1. totalBorrow = [elastic |-> 0, base |-> 0] /\ UINT128_MAX \in Nat
  BY UintAssumption DEF Init, EmptyRebase
<1>2. SumOver(userBorrowPart) = 0 /\ SumOver(userCollateralShare) = 0
  BY SumOfZeros DEF Init
<1>3. DebtInv
  BY <1>1, <1>2 DEF Init, DebtInv, RebaseType, Covered, BorrowPartsSum
<1>4. CollateralInv
  BY <1>2 DEF Init, CollateralInv, CollateralCustody
<1>5. MoneyInv /\ ControlInv
  BY MarketAssumption DEF Init, MoneyInv, ControlInv
<1> QED BY <1>3, <1>4, <1>5 DEF IInv

(* Every step of the market keeps the invariant, makes no part dearer      *)
(* without time passing, and is a step of the ledger.                      *)
LEMMA StepsOK ==
  ASSUME IInv, [Next]_vars
  PROVE  StepOK
<1>1. ASSUME NEW u \in Users, NEW rate \in ExchangeRates, NEW debtRate \in DebtRates,
             CollateralCall(u, rate, debtRate)
      PROVE  StepOK
  <2>1. AddAmounts \subseteq Nat /\ AddShares \subseteq Nat /\ RemoveShares \subseteq Nat
    BY MarketAssumption
  <2>2. ASSUME NEW amount \in AddAmounts, NEW share \in AddShares, NEW skim \in BOOLEAN,
               addCollateral(u, amount, share, skim)
        PROVE  StepOK
    BY <2>1, <2>2, AddCollateralOK
  <2>3. ASSUME NEW share \in RemoveShares, removeCollateral(u, share, rate, debtRate)
        PROVE  StepOK
    BY <2>1, <2>3, RemoveCollateralOK
  <2> QED BY <1>1, <2>2, <2>3 DEF CollateralCall
<1>2. ASSUME NEW u \in Users, NEW rate \in ExchangeRates, NEW debtRate \in DebtRates,
             DebtCall(u, rate, debtRate)
      PROVE  StepOK
  <2>1. BorrowAmounts \subseteq Nat /\ AssetPrices \subseteq Nat /\ RepayParts \subseteq Nat
    BY MarketAssumption
  <2>2. ASSUME NEW amount \in BorrowAmounts, NEW price \in AssetPrices,
               borrow(u, amount, price, rate, debtRate)
        PROVE  StepOK
    BY <2>1, <2>2, BorrowOK
  <2>3. ASSUME NEW part \in RepayParts, repay(u, part, rate, debtRate)
        PROVE  StepOK
    BY <2>1, <2>3, RepayOK
  <2> QED BY <1>2, <2>2, <2>3 DEF DebtCall
<1>3. ASSUME NEW u \in Users, NEW rate \in ExchangeRates, NEW debtRate \in DebtRates,
             LeverageCall(u, rate, debtRate)
      PROVE  StepOK
  <2>1. /\ LeverageAmounts \subseteq Nat /\ AssetPrices \subseteq Nat
        /\ RemoveShares \subseteq Nat /\ SwapOutputs \subseteq Nat
    BY MarketAssumption
  <2>2. ASSUME NEW amount \in LeverageAmounts, NEW out \in SwapOutputs, NEW price \in AssetPrices,
               buyCollateral(u, amount, out, price, rate, debtRate)
        PROVE  StepOK
    BY <2>1, <2>2, BuyCollateralOK
  <2>3. ASSUME NEW share \in RemoveShares, NEW out \in SwapOutputs,
               sellCollateral(u, share, out, rate, debtRate)
        PROVE  StepOK
    BY <2>1, <2>3, SellCollateralOK
  <2> QED BY <1>3, <2>2, <2>3 DEF LeverageCall
<1>4. ASSUME NEW u \in Users, NEW rate \in ExchangeRates, NEW debtRate \in DebtRates,
             LiquidationCall(u, rate, debtRate)
      PROVE  StepOK
  <2>1. MaxBorrowParts \subseteq Nat /\ MinBonuses \subseteq Nat /\ SwapOutputs \subseteq Nat
    BY MarketAssumption
  <2>2. ASSUME NEW limit \in MaxBorrowParts, NEW bonus \in MinBonuses, NEW returned \in SwapOutputs,
               liquidate(u, limit, bonus, returned, rate, debtRate)
        PROVE  StepOK
    BY <2>1, <2>2, LiquidateOK
  <2>3. CASE liquidateBadDebt(u, rate, debtRate)
    BY <2>3, LiquidateBadDebtOK
  <2> QED BY <1>4, <2>2, <2>3 DEF LiquidationCall
<1>5. CASE UserCall
  BY <1>1, <1>2, <1>3, <1>4, <1>5 DEF UserCall
<1>6. CASE OwnerCall
  BY <1>6, MintOpenInterestDebtOK, RefreshPenroseFeesOK, OtherStepsOK DEF OwnerCall
<1>7. CASE Environment
  BY <1>7, AccrueOK, OtherStepsOK DEF Environment
<1>8. CASE UNCHANGED vars
  BY <1>8, OtherStepsOK
<1> QED BY <1>5, <1>6, <1>7, <1>8 DEF Next

(* IInv is an invariant of the market. *)
THEOREM Invariance == Spec => []IInv
<1>1. IInv /\ [Next]_vars => IInv'
  BY StepsOK DEF StepOK
<1> QED BY InitOK, <1>1, PTL DEF Spec

(* No call, of whichever users in whichever order, makes the market's      *)
(* state leave its types: in particular no checked subtraction of the      *)
(* totals underflows.                                                      *)
THEOREM TypeCorrect == Spec => []TypeOK
<1>1. IInv => TypeOK
  BY DEF IInv, DebtInv, CollateralInv, MoneyInv, ControlInv, TypeOK
<1> QED BY Invariance, <1>1, PTL

(* The base of the debt total is always the sum of the users' parts. *)
THEOREM PartsAddUp == Spec => []BorrowPartsSum
<1>1. IInv => BorrowPartsSum
  BY DEF IInv, DebtInv
<1> QED BY Invariance, <1>1, PTL

(* Credited collateral is the sum of the users' shares, and is held. *)
THEOREM CollateralIsHeld == Spec => []CollateralCustody
<1>1. IInv => CollateralCustody
  BY DEF IInv, CollateralInv
<1> QED BY Invariance, <1>1, PTL

(* Whatever the other users do, the tokens a user is asked for to repay    *)
(* all of its parts are owed in total.                                     *)
THEOREM DebtsStayRepayable == Spec => []DebtsRepayable
<1>1. ASSUME IInv PROVE DebtsRepayable
  <2>1. DebtInv /\ IsFiniteSet(Users)
    BY <1>1, MarketAssumption DEF IInv
  <2>2. Covered(totalBorrow)
    BY <2>1 DEF DebtInv
  <2>3. ASSUME NEW u \in Users
        PROVE  ToElastic(totalBorrow, userBorrowPart[u], TRUE) <= totalBorrow.elastic
    <3> DEFINE p == userBorrowPart[u]
               E == totalBorrow.elastic
               B == totalBorrow.base
               amount == ToElastic(totalBorrow, p, TRUE)
    <3>1. E \in Nat /\ B \in Nat /\ B <= E
      BY <2>1, UintAssumption DEF DebtInv, RebaseType, Covered
    <3>2. p \in Nat /\ p <= B
      BY <2>1, SumBounds DEF DebtInv, BorrowPartsSum
    <3>3. CASE B = 0
      <4>1. amount = p
        BY <3>3, Zenon DEF ToElastic
      <4> HIDE DEF amount, p, E, B
      <4>2. amount <= E
        BY <3>1, <3>2, <3>3, <4>1
      <4> QED BY <4>2, Zenon DEF amount, p, E
    <3>4. CASE B # 0
      <4>1. amount = CeilDiv(p * E, B)
        BY <3>4, Zenon DEF ToElastic, RoundedDiv
      <4> HIDE DEF amount, p, E, B
      <4>2. B > 0
        BY <3>1, <3>4
      <4>3. amount <= E
        BY <3>1, <3>2, <4>1, <4>2, RepayRounding
      <4> QED BY <4>3, Zenon DEF amount, p, E
    <3> QED BY <3>3, <3>4
  <2> QED BY <2>2, <2>3 DEF DebtsRepayable
<1>2. IInv => DebtsRepayable
  BY <1>1
<1> QED BY Invariance, <1>2, PTL

(* Without time passing no user's call makes another user's debt grow. *)
THEOREM OnlyTimeMakesDebtDearer == Spec => DebtPerPartGrowsOnlyWithTime
<1>1. IInv /\ [Next]_vars => [NotDearer]_vars
  BY StepsOK DEF StepOK
<1>2. [NotDearer]_vars
        => [ (elapsed = 0 /\ totalBorrow.base > 0 /\ totalBorrow'.base > 0)
               => totalBorrow'.elastic * totalBorrow.base
                    <= totalBorrow.elastic * totalBorrow'.base ]_vars
  BY DEF NotDearer
<1> QED BY Invariance, <1>1, <1>2, PTL DEF Spec, DebtPerPartGrowsOnlyWithTime

(* The market implements the ledger: seen from outside it issues, retires  *)
(* and charges, and that is all that happens to the debt and the supply.   *)
THEOREM MarketImplementsLedger == Spec => ImplementsLedger
<1>1. Init => Ledger!Init
  BY DEF Init, EmptyRebase, Ledger!Init
<1>2. IInv /\ [Next]_vars => [Ledger!Next]_(Ledger!ledgerVars)
  BY StepsOK DEF StepOK, LedgerStep
<1> QED BY Invariance, <1>1, <1>2, PTL DEF Spec, ImplementsLedger, Ledger!Spec

(* USDO in existence, plus what Penrose may still mint for interest, never *)
(* exceeds what borrowers owe.                                             *)
THEOREM SupplyStaysBacked == Spec => []SupplyBacked
<1>1. Init => SupplyBacked
  BY MarketAssumption DEF Init, EmptyRebase, SupplyBacked
<1>2. ASSUME IInv, SupplyBacked, [Next]_vars
      PROVE  SupplyBacked'
  <2>1. LedgerStep
    BY <1>2, StepsOK DEF StepOK
  <2>2. /\ totalBorrow.elastic \in Nat /\ openInterestDebt \in Nat /\ usdoSupply \in Nat
        /\ OutsideUsdo \in Nat /\ UINT128_MAX \in Nat
    BY <1>2, MarketAssumption, UintAssumption DEF IInv, DebtInv, MoneyInv, RebaseType
  <2>3. CASE UNCHANGED Ledger!ledgerVars
    BY <1>2, <2>3 DEF Ledger!ledgerVars, SupplyBacked
  <2>4. ASSUME NEW amount \in 0..openInterestDebt, Ledger!MintOwed(amount)
        PROVE  SupplyBacked'
    BY <1>2, <2>2, <2>4 DEF Ledger!MintOwed, SupplyBacked
  <2>5. ASSUME NEW x \in 0..UINT128_MAX, NEW amount \in 0..UINT128_MAX,
               Ledger!Charge(x), Ledger!Issue(x, amount)
        PROVE  SupplyBacked'
    <3>1. PICK fee \in 0..UINT128_MAX : totalBorrow'.elastic = totalBorrow.elastic + x + amount + fee
      BY <2>5 DEF Ledger!Issue
    <3>2. usdoSupply' = usdoSupply + amount /\ openInterestDebt' = openInterestDebt + x
      BY <2>5 DEF Ledger!Issue, Ledger!Charge
    <3> QED BY <1>2, <2>2, <3>1, <3>2 DEF SupplyBacked
  <2>6. ASSUME NEW x \in 0..UINT128_MAX, NEW amount \in 0..UINT128_MAX,
               Ledger!Charge(x), Ledger!Retire(x, amount)
        PROVE  SupplyBacked'
    <3>1. /\ usdoSupply' = usdoSupply - amount /\ openInterestDebt' = openInterestDebt + x
          /\ totalBorrow'.elastic = totalBorrow.elastic + x - amount
      BY <2>6 DEF Ledger!Retire, Ledger!Charge
    <3> QED BY <1>2, <2>2, <3>1 DEF SupplyBacked
  <2> QED BY <2>1, <2>3, <2>4, <2>5, <2>6 DEF LedgerStep, Ledger!Next
<1>3. IInv /\ SupplyBacked /\ [Next]_vars => SupplyBacked'
  BY <1>2
<1> QED BY Invariance, <1>1, <1>3, PTL DEF Spec

-----------------------------------------------------------------------------
(* Liquidation and the market's fees.                                      *)

(* What one liquidation does to the collateral, the fees and the supply:   *)
(* it takes a cut, repays its amount and keeps what is left of the tokens  *)
(* returned after the caller's reward.                                     *)
TakesCut(u, limit, bonus, returned, rate, debtRate) ==
  \E cut \in liquidationCut(userBorrowPart[u], userCollateralShare[u], accrued(debtRate),
                            rate, limit, bonus),
     reward \in 0..FEE_PRECISION :
    /\ cut.amount \in Nat /\ cut.share \in Nat
    /\ toShare(returned) >= toShare(cut.amount)
    /\ userCollateralShare' =
         [userCollateralShare EXCEPT ![u] = userCollateralShare[u] - cut.share]
    /\ usdoBalance' = usdoBalance + returned - cut.amount
          - toAmount(extractLiquidationFees(toShare(returned), toShare(cut.amount),
                                            reward).callerShare, TRUE)
    /\ usdoSupply' = usdoSupply - cut.amount

LEMMA LiquidateFacts ==
  ASSUME IInv, NEW u \in Users, NEW limit \in Nat, NEW bonus \in Nat, NEW returned \in Nat,
         NEW rate \in ExchangeRates, NEW debtRate \in DebtRates,
         liquidate(u, limit, bonus, returned, rate, debtRate)
  PROVE  TakesCut(u, limit, bonus, returned, rate, debtRate)
<1> DEFINE total == accrued(debtRate)
           part == userBorrowPart[u]
           share == userCollateralShare[u]
           reward == getCallerReward(part, share, total, rate)
<1>1. elapsed \in Nat /\ DebtInv /\ IsFiniteSet(Users)
  BY MarketAssumption DEF IInv, ControlInv
<1>2. total \in RebaseType /\ Covered(total) /\ total.base = totalBorrow.base
  BY <1>1, InterestFacts
<1>3. part \in Nat /\ part <= totalBorrow.base /\ share \in Nat
  BY <1>1, SumBounds DEF DebtInv, BorrowPartsSum, IInv, CollateralInv
<1>4. part > 0
  <2>1. part # 0
    BY DEF liquidate, isSolvent
  <2> QED BY <1>3, <2>1
<1>5. rate \in Nat \ {0} /\ closingDenominator # 0
  BY MarketAssumption DEF liquidate
<1>6. PICK cut \in liquidationCut(part, share, total, rate, limit, bonus) :
        /\ toShare(returned) >= toShare(cut.amount)
        /\ userCollateralShare' = [userCollateralShare EXCEPT ![u] = share - cut.share]
        /\ usdoBalance' = usdoBalance + returned - cut.amount
                            - toAmount(extractLiquidationFees(toShare(returned), toShare(cut.amount),
                                                              reward).callerShare, TRUE)
        /\ usdoSupply' = usdoSupply - cut.amount
  BY Zenon DEF liquidate
<1>7. /\ total \in [elastic : Nat, base : Nat] /\ total.base > 0
      /\ total.base <= total.elastic /\ part <= total.base
  BY <1>2, <1>3, <1>4, UintAssumption DEF RebaseType, Covered
<1> HIDE DEF total, part, share
<1>8. cut.amount \in Nat /\ cut.share \in Nat
  BY <1>3, <1>4, <1>5, <1>7, CutFacts
<1>9. reward \in 0..FEE_PRECISION
  BY <1>3, <1>5, <1>7, CallerRewardBounded
<1> HIDE DEF reward
<1> QED BY <1>3, <1>6, <1>8, <1>9, Zenon DEF TakesCut, total, part, share

(* Only the collection of fees takes USDO from what the market holds. *)
LEMMA FeesStay ==
  ASSUME IInv, [Next]_vars
  PROVE  usdoBalance' >= usdoBalance \/ refreshPenroseFees
<1>1. usdoBalance \in Nat
  BY DEF IInv, MoneyInv
<1>2. ASSUME NEW u \in Users, NEW limit \in MaxBorrowParts, NEW bonus \in MinBonuses,
             NEW returned \in SwapOutputs, NEW rate \in ExchangeRates, NEW debtRate \in DebtRates,
             liquidate(u, limit, bonus, returned, rate, debtRate)
      PROVE  usdoBalance' >= usdoBalance
  <2>1. limit \in Nat /\ bonus \in Nat /\ returned \in Nat
    BY MarketAssumption
  <2>3. PICK cut \in liquidationCut(userBorrowPart[u], userCollateralShare[u],
                                      accrued(debtRate), rate, limit, bonus),
             reward \in 0..FEE_PRECISION :
          /\ cut.amount \in Nat
          /\ toShare(returned) >= toShare(cut.amount)
          /\ usdoBalance' = usdoBalance + returned - cut.amount
                - toAmount(extractLiquidationFees(toShare(returned), toShare(cut.amount),
                                                  reward).callerShare, TRUE)
    <3>1. TakesCut(u, limit, bonus, returned, rate, debtRate)
      BY <1>2, <2>1, LiquidateFacts
    <3> QED BY <3>1, Zenon DEF TakesCut
  <2> DEFINE amount == cut.amount
             paid == toAmount(extractLiquidationFees(toShare(returned), toShare(amount),
                                                     reward).callerShare, TRUE)
  <2>4. amount <= returned /\ paid \in Nat /\ paid <= returned - amount
    BY <2>1, <2>3, CallerPaidFromSurplus
  <2>5. usdoBalance' = usdoBalance + returned - amount - paid /\ amount \in Nat
    BY <2>3
  <2> HIDE DEF amount, paid
  <2> QED BY <1>1, <2>1, <2>4, <2>5
<1>3. CASE UNCHANGED usdoBalance
  BY <1>1, <1>3
<1>4. ASSUME NEW amount \in Donations, donateUsdo(amount) PROVE usdoBalance' >= usdoBalance
  <2>1. amount \in Nat /\ usdoBalance' = usdoBalance + amount
    BY <1>4, MarketAssumption DEF donateUsdo
  <2> QED BY <1>1, <2>1
<1>5. ASSUME NEW u \in Users, NEW rate \in ExchangeRates, NEW debtRate \in DebtRates,
             \/ CollateralCall(u, rate, debtRate) \/ DebtCall(u, rate, debtRate)
             \/ LeverageCall(u, rate, debtRate) \/ liquidateBadDebt(u, rate, debtRate)
      PROVE  UNCHANGED usdoBalance
  BY <1>5 DEF CollateralCall, DebtCall, LeverageCall, usdoVars, addCollateral, removeCollateral,
              borrow, repay, buyCollateral, sellCollateral, liquidateBadDebt
<1>6. CASE UserCall
  BY <1>2, <1>3, <1>5, <1>6 DEF UserCall, LiquidationCall
<1>7. CASE OwnerCall
  BY <1>3, <1>7 DEF OwnerCall, usdoVars, mintOpenInterestDebt, updatePause, updatePauseAll
<1>8. CASE Environment
  BY <1>3, <1>4, <1>8
     DEF Environment, usdoVars, accrue, updateExchangeRate, donateCollateral, Tick
<1>9. CASE UNCHANGED vars
  BY <1>3, <1>9 DEF vars, usdoVars
<1> QED BY <1>6, <1>7, <1>8, <1>9 DEF Next

-----------------------------------------------------------------------------
(* Solvency.                                                               *)

(* A position that only got lighter stays solvent. *)
LEMMA LighterStaysSolvent ==
  ASSUME IInv, StepOK, exchangeRate' = exchangeRate,
         elapsed = 0 \/ UNCHANGED totalBorrow,
         NEW w \in Users, userBorrowPart'[w] <= userBorrowPart[w],
         userCollateralShare[w] <= userCollateralShare'[w], SolventAt(w)
  PROVE  SolventAt(w)'
<1> DEFINE p == userBorrowPart[w]
           q == userBorrowPart'[w]
           s == userCollateralShare[w]
           t == userCollateralShare'[w]
<1>1. IInv' /\ NotDearer /\ IsFiniteSet(Users)
  BY MarketAssumption DEF StepOK
<1>2. /\ p \in Nat /\ q \in Nat /\ s \in Nat /\ t \in Nat /\ q <= p /\ s <= t
      /\ exchangeRate \in Nat
  BY <1>1, MarketAssumption DEF IInv, DebtInv, CollateralInv, ControlInv
<1>3. p <= totalBorrow.base
  BY <1>1, SumBounds DEF IInv, DebtInv, BorrowPartsSum
<1>4. q <= totalBorrow'.base
  <2> DEFINE f == userBorrowPart'
  <2>1. f \in [Users -> Nat] /\ totalBorrow'.base = SumOver(f)
    BY <1>1 DEF IInv, DebtInv, BorrowPartsSum
  <2> HIDE DEF f
  <2>2. f[w] <= SumOver(f)
    BY <1>1, <2>1, SumBounds
  <2> QED BY <2>1, <2>2 DEF f
<1>5. /\ totalBorrow \in [elastic : Nat, base : Nat] /\ totalBorrow' \in [elastic : Nat, base : Nat]
  BY <1>1, UintAssumption DEF IInv, DebtInv, RebaseType
<1>6. CASE q = 0
  BY <1>6 DEF SolventAt, isSolvent
<1>7. CASE q # 0
  <2>1. totalBorrow.base > 0 /\ totalBorrow'.base > 0
    BY <1>2, <1>3, <1>4, <1>5, <1>7
  <2>2. totalBorrow'.elastic * totalBorrow.base <= totalBorrow.elastic * totalBorrow'.base
    BY <1>1, <1>5, <2>1 DEF NotDearer
  <2>3. isSolvent(p, s, totalBorrow, exchangeRate, FALSE)
    BY DEF SolventAt
  <2> HIDE DEF p, q, s, t
  <2>4. isSolvent(q, t, totalBorrow', exchangeRate, FALSE)
    BY <1>2, <1>5, <2>1, <2>2, <2>3, SolventWithLess
  <2> QED BY <2>4 DEF SolventAt, q, t
<1> QED BY <1>6, <1>7


(* Apart from the acting user's, a call moves no position, and what it     *)
(* charges it charges for the time since the last accrual.                 *)
LEMMA OthersUntouched ==
  ASSUME IInv, NEW u \in Users, NEW rate \in ExchangeRates, NEW debtRate \in DebtRates,
         \/ CollateralCall(u, rate, debtRate) \/ DebtCall(u, rate, debtRate)
         \/ LeverageCall(u, rate, debtRate) \/ LiquidationCall(u, rate, debtRate),
         NEW w \in Users, w # u
  PROVE  /\ userBorrowPart'[w] = userBorrowPart[w]
         /\ userCollateralShare'[w] = userCollateralShare[w]
         /\ elapsed' = 0 \/ UNCHANGED totalBorrow
<1> DEFINE Untouched == /\ userBorrowPart'[w] = userBorrowPart[w]
                        /\ userCollateralShare'[w] = userCollateralShare[w]
                        /\ elapsed' = 0 \/ UNCHANGED totalBorrow
<1>1. userBorrowPart \in [Users -> Nat] /\ userCollateralShare \in [Users -> Nat]
  BY DEF IInv, DebtInv, CollateralInv
<1>2. CASE CollateralCall(u, rate, debtRate)
  <2>1. ASSUME NEW amount, NEW share, NEW skim, addCollateral(u, amount, share, skim)
        PROVE  Untouched
    BY <1>1, <2>1 DEF addCollateral, debtVars
  <2>2. ASSUME NEW share, removeCollateral(u, share, rate, debtRate) PROVE Untouched
    BY <1>1, <2>2 DEF removeCollateral, Accrues
  <2> HIDE DEF Untouched
  <2>3. Untouched
    BY <1>2, <2>1, <2>2 DEF CollateralCall
  <2> QED BY <2>3 DEF Untouched
<1>3. CASE DebtCall(u, rate, debtRate)
  <2>1. ASSUME NEW amount, NEW price, borrow(u, amount, price, rate, debtRate) PROVE Untouched
    BY <1>1, <2>1 DEF borrow, Borrows, Accrues, collateralVars
  <2>2. ASSUME NEW part, repay(u, part, rate, debtRate) PROVE Untouched
    BY <1>1, <2>2 DEF repay, Repays, Accrues, collateralVars
  <2> HIDE DEF Untouched
  <2>3. Untouched
    BY <1>3, <2>1, <2>2 DEF DebtCall
  <2> QED BY <2>3 DEF Untouched
<1>4. CASE LeverageCall(u, rate, debtRate)
  <2>1. ASSUME NEW amount, NEW out, NEW price, buyCollateral(u, amount, out, price, rate, debtRate)
        PROVE  Untouched
    BY <1>1, <2>1 DEF buyCollateral, Borrows, Accrues
  <2>2. ASSUME NEW share, NEW out, sellCollateral(u, share, out, rate, debtRate) PROVE Untouched
    BY <1>1, <2>2 DEF sellCollateral, Repays, Accrues
  <2> HIDE DEF Untouched
  <2>3. Untouched
    BY <1>4, <2>1, <2>2 DEF LeverageCall
  <2> QED BY <2>3 DEF Untouched
<1>5. CASE LiquidationCall(u, rate, debtRate)
  <2>1. ASSUME NEW limit, NEW bonus, NEW returned,
               liquidate(u, limit, bonus, returned, rate, debtRate)
        PROVE  Untouched
    <3>1. \E p, s : /\ userBorrowPart' = [userBorrowPart EXCEPT ![u] = p]
                    /\ userCollateralShare' = [userCollateralShare EXCEPT ![u] = s]
                    /\ elapsed' = 0
      BY <2>1, Zenon DEF liquidate, Accrues
    <3> QED BY <1>1, <3>1
  <2>2. ASSUME liquidateBadDebt(u, rate, debtRate) PROVE Untouched
    BY <1>1, <2>2 DEF liquidateBadDebt, Accrues
  <2> HIDE DEF Untouched
  <2>3. Untouched
    BY <1>5, <2>1, <2>2 DEF LiquidationCall
  <2> QED BY <2>3 DEF Untouched
<1> QED BY <1>2, <1>3, <1>4, <1>5

(* A call that charges no interest leaves the caller solvent if it was:    *)
(* each either demands it or only lightens the position, and a solvent     *)
(* user is not liquidated.                                                 *)
LEMMA CallerStaysSolvent ==
  ASSUME IInv, StepOK, exchangeRate' = exchangeRate, elapsed' >= elapsed,
         NEW u \in Users, NEW rate \in ExchangeRates, NEW debtRate \in DebtRates,
         \/ CollateralCall(u, rate, debtRate) \/ DebtCall(u, rate, debtRate)
         \/ LeverageCall(u, rate, debtRate) \/ LiquidationCall(u, rate, debtRate),
         SolventAt(u)
  PROVE  SolventAt(u)'
<1>1. /\ userBorrowPart \in [Users -> Nat] /\ userCollateralShare \in [Users -> Nat]
      /\ elapsed \in Nat
  BY MarketAssumption DEF IInv, DebtInv, CollateralInv, ControlInv
<1>2. SolventAt(u)' = isSolvent(userBorrowPart'[u], userCollateralShare'[u], totalBorrow',
                                exchangeRate', FALSE)
  BY DEF SolventAt
<1>3. CASE CollateralCall(u, rate, debtRate)
  <2>1. ASSUME NEW amount \in AddAmounts, NEW share \in AddShares, NEW skim \in BOOLEAN,
               addCollateral(u, amount, share, skim)
        PROVE  SolventAt(u)'
    <3> DEFINE credited == IF share = 0 THEN toShare(amount) ELSE share
    <3>1. amount \in Nat /\ share \in Nat
      BY MarketAssumption
    <3>2. credited \in Nat
      BY <3>1, ShareRoundTrip
    <3> HIDE DEF credited
    <3>3. /\ userCollateralShare' = [userCollateralShare EXCEPT ![u] = @ + credited]
          /\ UNCHANGED debtVars
      BY <2>1, Zenon DEF addCollateral, credited
    <3>4. userBorrowPart'[u] <= userBorrowPart[u] /\ UNCHANGED totalBorrow
          /\ userCollateralShare[u] <= userCollateralShare'[u]
      BY <1>1, <3>2, <3>3 DEF debtVars
    <3> QED BY <3>4, LighterStaysSolvent
  <2>2. ASSUME NEW share \in RemoveShares, removeCollateral(u, share, rate, debtRate)
        PROVE  SolventAt(u)'
    <3>1. /\ isSolvent(userBorrowPart[u], userCollateralShare[u] - share, accrued(debtRate),
                       rate, FALSE)
          /\ userBorrowPart' = userBorrowPart /\ totalBorrow' = accrued(debtRate)
          /\ userCollateralShare' =
               [userCollateralShare EXCEPT ![u] = userCollateralShare[u] - share]
          /\ exchangeRate' = rate
      BY <2>2 DEF removeCollateral, UpdatesRate
    <3>2. userCollateralShare'[u] = userCollateralShare[u] - share
      BY <1>1, <3>1
    <3> QED BY <1>2, <3>1, <3>2
  <2> QED BY <1>3, <2>1, <2>2 DEF CollateralCall
<1>4. CASE DebtCall(u, rate, debtRate)
  <2>1. ASSUME NEW amount \in BorrowAmounts, NEW price \in AssetPrices,
               borrow(u, amount, price, rate, debtRate)
        PROVE  SolventAt(u)'
    <3>1. /\ isSolvent(userBorrowPart'[u], userCollateralShare[u], totalBorrow', rate, FALSE)
          /\ userCollateralShare' = userCollateralShare /\ exchangeRate' = rate
      BY <2>1 DEF borrow, collateralVars, UpdatesRate
    <3> QED BY <1>2, <3>1
  <2>2. ASSUME NEW part \in RepayParts, repay(u, part, rate, debtRate) PROVE SolventAt(u)'
    <3> DEFINE paid == Least(part, userBorrowPart[u])
    <3>1. part \in Nat /\ paid \in Nat
      BY <1>1, MarketAssumption, LeastNat
    <3> HIDE DEF paid
    <3>2. /\ userBorrowPart' = [userBorrowPart EXCEPT ![u] = @ - paid]
          /\ userCollateralShare' = userCollateralShare /\ elapsed' = 0
      BY <2>2, Zenon DEF repay, Repays, Accrues, collateralVars, paid
    <3>3. userBorrowPart'[u] <= userBorrowPart[u] /\ elapsed = 0
          /\ userCollateralShare[u] <= userCollateralShare'[u]
      BY <1>1, <3>1, <3>2
    <3> QED BY <3>3, LighterStaysSolvent
  <2> QED BY <1>4, <2>1, <2>2 DEF DebtCall
<1>5. CASE LeverageCall(u, rate, debtRate)
  <2>1. ASSUME NEW amount \in LeverageAmounts, NEW out \in SwapOutputs, NEW price \in AssetPrices,
               buyCollateral(u, amount, out, price, rate, debtRate)
        PROVE  SolventAt(u)'
    <3>1. /\ isSolvent(userBorrowPart'[u], userCollateralShare'[u], totalBorrow', rate, FALSE)
          /\ exchangeRate' = rate
      BY <2>1 DEF buyCollateral, UpdatesRate
    <3> QED BY <1>2, <3>1
  <2>2. ASSUME NEW share \in RemoveShares, NEW out \in SwapOutputs,
               sellCollateral(u, share, out, rate, debtRate)
        PROVE  SolventAt(u)'
    <3>1. /\ isSolvent(userBorrowPart'[u], userCollateralShare'[u], totalBorrow', rate, FALSE)
          /\ exchangeRate' = rate
      BY <2>2 DEF sellCollateral, UpdatesRate
    <3> QED BY <1>2, <3>1
  <2> QED BY <1>5, <2>1, <2>2 DEF LeverageCall
<1>6. CASE LiquidationCall(u, rate, debtRate)
  <2>1. ASSUME NEW limit \in MaxBorrowParts, NEW bonus \in MinBonuses, NEW returned \in SwapOutputs,
               liquidate(u, limit, bonus, returned, rate, debtRate)
        PROVE  FALSE
    <3> DEFINE p == userBorrowPart[u]
               s == userCollateralShare[u]
    <3>1. /\ ~isSolvent(p, s, accrued(debtRate), rate, TRUE)
          /\ exchangeRate' = rate /\ elapsed' = 0
      BY <2>1 DEF liquidate, UpdatesRate, Accrues
    <3>2. totalBorrow \in [elastic : Nat, base : Nat]
      BY UintAssumption DEF IInv, DebtInv, RebaseType
    <3>3. elapsed = 0
      BY <1>1, <3>1
    <3>4. accrued(debtRate) = totalBorrow
      BY <3>2, <3>3 DEF accrued, interest, Add
    <3>5. p \in Nat /\ s \in Nat /\ rate \in Nat
      BY <1>1, MarketAssumption
    <3>6. p <= totalBorrow.base
      BY MarketAssumption, SumBounds DEF IInv, DebtInv, BorrowPartsSum
    <3>7. p # 0
      BY <3>1 DEF isSolvent
    <3>8. isSolvent(p, s, totalBorrow, rate, FALSE)
      BY <3>1 DEF SolventAt
    <3> HIDE DEF p, s
    <3>9. totalBorrow.base > 0
      BY <3>2, <3>5, <3>6, <3>7
    <3> QED BY <3>1, <3>2, <3>4, <3>5, <3>8, <3>9, SolventNotLiquidated
  <2>2. CASE liquidateBadDebt(u, rate, debtRate)
    <3>1. userBorrowPart'[u] = 0
      BY <1>1, <2>2 DEF liquidateBadDebt
    <3> QED BY <1>2, <3>1 DEF isSolvent
  <2> QED BY <1>6, <2>1, <2>2 DEF LiquidationCall
<1> QED BY <1>3, <1>4, <1>5, <1>6

LEMMA StaysSolvent ==
  ASSUME IInv, [Next]_vars, exchangeRate' = exchangeRate, elapsed' >= elapsed,
         NEW w \in Users, SolventAt(w)
  PROVE  SolventAt(w)'
<1>1. StepOK
  BY StepsOK
<1>2. /\ userBorrowPart \in [Users -> Nat] /\ userCollateralShare \in [Users -> Nat]
      /\ elapsed \in Nat
  BY MarketAssumption DEF IInv, DebtInv, CollateralInv, ControlInv
<1>3. ASSUME userBorrowPart'[w] = userBorrowPart[w],
             userCollateralShare'[w] = userCollateralShare[w],
             elapsed' = 0 \/ UNCHANGED totalBorrow
      PROVE  SolventAt(w)'
  <2>1. /\ userBorrowPart'[w] <= userBorrowPart[w]
        /\ userCollateralShare[w] <= userCollateralShare'[w]
        /\ elapsed = 0 \/ UNCHANGED totalBorrow
    BY <1>2, <1>3
  <2> QED BY <1>1, <2>1, LighterStaysSolvent
<1>4. ASSUME NEW u \in Users, NEW rate \in ExchangeRates, NEW debtRate \in DebtRates,
             \/ CollateralCall(u, rate, debtRate) \/ DebtCall(u, rate, debtRate)
             \/ LeverageCall(u, rate, debtRate) \/ LiquidationCall(u, rate, debtRate)
      PROVE  SolventAt(w)'
  <2>1. CASE u = w
    BY <1>1, <1>4, <2>1, CallerStaysSolvent
  <2>2. CASE u # w
    BY <1>3, <1>4, <2>2, OthersUntouched
  <2> QED BY <2>1, <2>2
<1>5. CASE UserCall
  BY <1>4, <1>5 DEF UserCall
<1>6. CASE OwnerCall
  <2>1. UNCHANGED <<totalBorrow, userBorrowPart, userCollateralShare>>
    BY <1>6 DEF OwnerCall, mintOpenInterestDebt, refreshPenroseFees, updatePause, updatePauseAll,
                debtVars, collateralVars
  <2> QED BY <1>3, <2>1
<1>7. CASE Environment
  <2>1. UNCHANGED <<userBorrowPart, userCollateralShare>> /\ (elapsed' = 0 \/ UNCHANGED totalBorrow)
    BY <1>7 DEF Environment, accrue, Accrues, updateExchangeRate, donateCollateral, donateUsdo,
                Tick, debtVars, collateralVars
  <2> QED BY <1>3, <2>1
<1>8. CASE UNCHANGED vars
  BY <1>3, <1>8 DEF vars, debtVars, collateralVars
<1> QED BY <1>5, <1>6, <1>7, <1>8 DEF Next

-----------------------------------------------------------------------------
(* What a step may never do. *)

(* The fees a market keeps leave it only when Penrose collects them.       *)
THEOREM FeesGoToPenrose == Spec => FeesLeaveOnlyToPenrose
<1> DEFINE Kept == usdoBalance' < usdoBalance
                     => UNCHANGED <<debtVars, collateralVars, usdoSupply>>
<1>1. ASSUME IInv, [Next]_vars PROVE Kept
  <2>1. usdoBalance' >= usdoBalance \/ UNCHANGED <<debtVars, collateralVars, usdoSupply>>
    BY <1>1, FeesStay DEF refreshPenroseFees
  <2>2. usdoBalance \in Nat /\ usdoBalance' \in Nat
    BY <1>1, StepsOK DEF StepOK, IInv, MoneyInv
  <2> QED BY <2>1, <2>2
<1>2. IInv /\ [Next]_vars => [Kept]_vars
  BY <1>1
<1> QED BY Invariance, <1>2, PTL DEF Spec, FeesLeaveOnlyToPenrose

(* A solvent user stays solvent unless the oracle moves or interest is     *)
(* charged, whatever it or anybody else calls.                             *)
THEOREM OnlyPriceOrInterest == Spec => OnlyPriceOrInterestEndangers
<1> DEFINE Safe == (exchangeRate' = exchangeRate /\ elapsed' >= elapsed)
                     => \A u \in Users : SolventAt(u) => SolventAt(u)'
<1>1. IInv /\ [Next]_vars => [Safe]_vars
  BY StaysSolvent
<1> QED BY Invariance, <1>1, PTL DEF Spec, OnlyPriceOrInterestEndangers

(* What one user loses to a liquidation is worth no more than the debt it  *)
(* repays and the bonus on it, at the rate of the liquidation.             *)
LEMMA SeizedWorth ==
  ASSUME IInv, NEW u \in Users, NEW limit \in MaxBorrowParts, NEW bonus \in MinBonuses,
         NEW returned \in SwapOutputs, NEW rate \in ExchangeRates, NEW debtRate \in DebtRates,
         liquidate(u, limit, bonus, returned, rate, debtRate)
  PROVE  collateralInAsset(userCollateralShare[u] - userCollateralShare'[u], rate)
           <= usdoSupply - usdoSupply'
                + feeOf(usdoSupply - usdoSupply', liquidationBonusAmount)
<1>1. limit \in Nat /\ bonus \in Nat /\ returned \in Nat /\ rate \in Nat \ {0}
  BY MarketAssumption
<1>2. TakesCut(u, limit, bonus, returned, rate, debtRate)
  BY <1>1, LiquidateFacts
<1>3. PICK cut \in liquidationCut(userBorrowPart[u], userCollateralShare[u], accrued(debtRate),
                                  rate, limit, bonus) :
        /\ cut.amount \in Nat /\ cut.share \in Nat
        /\ userCollateralShare' =
             [userCollateralShare EXCEPT ![u] = userCollateralShare[u] - cut.share]
        /\ usdoSupply' = usdoSupply - cut.amount
  BY <1>2, Zenon DEF TakesCut
<1>4. userCollateralShare \in [Users -> Nat] /\ usdoSupply \in Nat
  BY DEF IInv, CollateralInv, MoneyInv
<1>5. /\ userCollateralShare[u] - userCollateralShare'[u] = cut.share
      /\ usdoSupply - usdoSupply' = cut.amount
  BY <1>3, <1>4
<1>6. collateralInAsset(cut.share, rate) <= withBonus(cut.amount)
  BY <1>1, <1>3, <1>4, CutWorth
<1> QED BY <1>5, <1>6 DEF withBonus

(* A liquidation never takes more from a user than the debt it repays and  *)
(* the bonus are worth.                                                    *)
THEOREM SeizesAtMostBonus == Spec => LiquidationSeizesAtMostBonus
<1> DEFINE seized(u) == userCollateralShare[u] - userCollateralShare'[u]
           repaid == usdoSupply - usdoSupply'
           isLiquidated(u) ==
             \E limit \in MaxBorrowParts, bonus \in MinBonuses,
                returned \in SwapOutputs, debtRate \in DebtRates :
               liquidate(u, limit, bonus, returned, exchangeRate', debtRate)
           Fair == \A u \in Users :
                     (seized(u) > 0 /\ isLiquidated(u))
                       => collateralInAsset(seized(u), exchangeRate')
                            <= repaid + feeOf(repaid, liquidationBonusAmount)
<1>1. ASSUME IInv, [Next]_vars PROVE Fair
  <2>1. PICK rate \in ExchangeRates : rate = exchangeRate'
    BY <1>1, StepsOK DEF StepOK, IInv, ControlInv
  <2>2. ASSUME NEW u \in Users, isLiquidated(u)
        PROVE  collateralInAsset(seized(u), exchangeRate')
                 <= repaid + feeOf(repaid, liquidationBonusAmount)
    <3>1. PICK limit \in MaxBorrowParts, bonus \in MinBonuses,
               returned \in SwapOutputs, debtRate \in DebtRates :
            liquidate(u, limit, bonus, returned, exchangeRate', debtRate)
      BY <2>2
    <3>2. liquidate(u, limit, bonus, returned, rate, debtRate)
      BY <2>1, <3>1, Zenon
    <3>3. collateralInAsset(seized(u), rate) <= repaid + feeOf(repaid, liquidationBonusAmount)
      BY <1>1, <3>2, SeizedWorth
    <3> QED BY <2>1, <3>3
  <2> QED BY <2>2
<1>2. IInv /\ [Next]_vars => [Fair]_vars
  BY <1>1
<1> QED BY Invariance, <1>2, PTL DEF Spec, LiquidationSeizesAtMostBonus

=============================================================================
