------------------------- MODULE SingularityProofs --------------------------
(***************************************************************************)
(* A Singularity market is safe for every set of users, inputs,            *)
(* precisions, rates, fees and bounds that SingularityAssumption and the   *)
(* assumptions of MarketMath and Rebase allow.                             *)
(*                                                                         *)
(* The invariant is inductive because of Covered, as in BigBang, and       *)
(* because a fee is always a part of the pool it is paid to, so that no    *)
(* fraction is computed with a divisor that is not positive.  Every action *)
(* accrues or does not, and then changes the debt by a DebtStep, the       *)
(* collateral by a CollateralStep and the pool by an AssetStep.            *)
(*                                                                         *)
(* What lenders own is followed in two measures: fees keep the worth of a  *)
(* fraction in whole tokens, everything else keeps it in shares.           *)
(***************************************************************************)
EXTENDS Singularity, MarketMathTheorems

DebtInv ==
  /\ totalBorrow \in RebaseType
  /\ Covered(totalBorrow)
  /\ userBorrowPart \in [Users -> Nat]
  /\ totalBorrow.base = SumOver(userBorrowPart)

AssetInv ==
  /\ totalAsset \in RebaseType
  /\ balanceOf \in [Holders -> Nat]
  /\ feesEarnedFraction \in Nat
  /\ assetBalance \in Nat
  /\ FractionsSum
  /\ totalAsset.elastic <= assetBalance

CollateralInv ==
  /\ userCollateralShare \in [Users -> Nat]
  /\ totalCollateralShare \in Nat
  /\ collateralBalance \in Nat
  /\ totalCollateralShare = SumOver(userCollateralShare)
  /\ totalCollateralShare <= collateralBalance

CallType == [amount : Nat \ {0}, least : Nat, reward : 0..FEE_PRECISION]

ControlInv ==
  /\ exchangeRate \in ExchangeRates
  /\ interestPerSecond \in minimumInterestPerSecond..maximumInterestPerSecond
  /\ elapsed \in 0..MaxElapsed
  /\ pauseOptions \in [PauseType -> BOOLEAN]
  /\ receiver = {} \/ \E call \in CallType : receiver = {call}

(* The inductive invariant. *)
IInv == DebtInv /\ AssetInv /\ CollateralInv /\ ControlInv

(* What every action does to the debt: interest first, then one user's     *)
(* parts become v, and no part gets dearer.                                *)
DebtStep(u, v) ==
  /\ v \in Nat
  /\ userBorrowPart' = [userBorrowPart EXCEPT ![u] = v]
  /\ totalBorrow' \in RebaseType
  /\ Covered(totalBorrow')
  /\ totalBorrow'.base = accruedBorrow.base - userBorrowPart[u] + v
  /\ totalBorrow'.elastic * accruedBorrow.base <= accruedBorrow.elastic * totalBorrow'.base

(* What every action does to the pool: one holder's fractions become v,    *)
(* and the total follows them and those Penrose has earned.                *)
AssetStep(h, v) ==
  /\ v \in Nat
  /\ balanceOf' = [balanceOf EXCEPT ![h] = v]
  /\ feesEarnedFraction' \in Nat
  /\ totalAsset' \in RebaseType
  /\ totalAsset'.base = totalAsset.base - balanceOf[h] + v
                          - feesEarnedFraction + feesEarnedFraction'
  /\ assetBalance' \in Nat
  /\ totalAsset'.elastic <= assetBalance'

(* What every action does to the collateral. *)
CollateralStep(u, v) ==
  /\ v \in Nat
  /\ userCollateralShare' = [userCollateralShare EXCEPT ![u] = v]
  /\ totalCollateralShare' = totalCollateralShare - userCollateralShare[u] + v
  /\ collateralBalance' \in Nat
  /\ totalCollateralShare' <= collateralBalance'

(* No part of the debt gets dearer in a step that follows an accrual of    *)
(* the same block.                                                         *)
NotDearer ==
  (elapsed = 0 /\ totalBorrow.base > 0 /\ totalBorrow'.base > 0)
     => totalBorrow'.elastic * totalBorrow.base <= totalBorrow.elastic * totalBorrow'.base

(* The fractions there were lose less than one token. *)
NoLoss ==
  (totalAsset.base > 0 /\ (receiver = {} \/ receiver' = {}))
     => (worth - SharesPerAmount) * totalAsset'.base < worth' * totalAsset.base

(* All a step has to keep. *)
StepOK == IInv' /\ NotDearer /\ NoLoss

-----------------------------------------------------------------------------
(* Arithmetic of fractions. *)

(* A pool in whole tokens and in shares. *)
LEMMA WorthInTokens ==
  ASSUME NEW share \in Nat, NEW debt \in Nat
  PROVE  /\ toAmount(share, FALSE) \in Nat
         /\ SharesPerAmount * (toAmount(share, FALSE) + debt) <= share + toShare(debt)
         /\ share + toShare(debt)
              < SharesPerAmount * (toAmount(share, FALSE) + debt) + SharesPerAmount
<1> DEFINE S == SharesPerAmount
           q == share \div S
<1>1. S \in Nat /\ S > 0
  BY PrecisionAssumption
<1>2. toAmount(share, FALSE) = q
  BY Zenon DEF toAmount, RoundedDiv
<1>3. q \in Nat /\ S * q <= share /\ share < S * q + S
  BY <1>1, FloorDiv
<1> HIDE DEF q, S
<1>4. S * (q + debt) = S * q + S * debt /\ debt * S = S * debt
  BY <1>1, <1>3
<1>5. S * (q + debt) <= share + debt * S /\ share + debt * S < S * (q + debt) + S
  BY <1>1, <1>3, <1>4
<1> QED BY <1>2, <1>3, <1>5, Zenon DEF toShare, S

(* Tokens kept first and shares kept then: less than one token is lost.    *)
LEMMA MildLoss ==
  ASSUME NEW S \in Nat, S > 0,
         NEW w0 \in Nat, NEW f0 \in Nat, NEW b0 \in Nat, b0 > 0, w0 < S * f0 + S,
         NEW w1 \in Nat, NEW f1 \in Nat, NEW b1 \in Nat, b1 > 0, S * f1 <= w1,
         NEW w2 \in Nat, NEW b2 \in Nat, b2 > 0,
         f0 * b1 <= f1 * b0, w1 * b2 <= w2 * b1
  PROVE  (w0 - S) * b2 < w2 * b0
<1> DEFINE lost == w0 - S
           kept == S * f0
<1>1. lost \in Int /\ kept \in Nat /\ lost < kept
  OBVIOUS
<1>2. kept * b1 <= (S * f1) * b0
  <2>1. S * (f0 * b1) <= S * (f1 * b0)
    BY ProductMonotone
  <2> QED BY <2>1
<1>3. (S * f1) * b0 <= w1 * b0
  BY ProductMonotone
<1>4. lost * b1 < kept * b1
  BY <1>1
<1> HIDE DEF lost, kept
<1>5. lost * b1 < w1 * b0
  <2>1. lost * b1 \in Int /\ kept * b1 \in Int /\ (S * f1) * b0 \in Int /\ w1 * b0 \in Int
    BY <1>1
  <2> QED BY <1>2, <1>3, <1>4, <2>1
<1>6. (lost * b1) * b2 < (w1 * b0) * b2
  BY <1>1, <1>5
<1>7. (w1 * b0) * b2 <= (w2 * b1) * b0
  <2>1. (w1 * b2) * b0 <= (w2 * b1) * b0
    BY ProductMonotone
  <2> QED BY <2>1
<1>8. (lost * b2) * b1 < (w2 * b0) * b1
  <2>1. (lost * b1) * b2 = (lost * b2) * b1 /\ (w2 * b1) * b0 = (w2 * b0) * b1
    BY <1>1
  <2>2. (lost * b2) * b1 \in Int /\ (w1 * b0) * b2 \in Int /\ (w2 * b0) * b1 \in Int
    BY <1>1
  <2> QED BY <1>6, <1>7, <2>1, <2>2
<1>9. lost * b2 < w2 * b0
  <2>1. lost * b2 \in Int /\ w2 * b0 \in Int
    BY <1>1
  <2> QED BY <1>8, <2>1, ProductCancels
<1> QED BY <1>9 DEF lost

(* A fee that is a part of the pool is paid with fractions at no more than *)
(* they are worth without it: what the pool was worth, per fraction, it    *)
(* still is.                                                               *)
LEMMA FeeFractionFacts ==
  ASSUME NEW fee \in Nat, NEW base \in Nat, NEW full \in Nat, NEW before \in Nat,
         before > 0, before <= full - fee
  PROVE  /\ feeFraction(fee, base, full) \in Nat
         /\ before * (base + feeFraction(fee, base, full)) <= (before + fee) * base
<1> DEFINE f == feeFraction(fee, base, full)
           rest == full - fee
<1>1. CASE fee = 0
  <2>1. f = 0
    BY <1>1, Zenon DEF feeFraction
  <2> QED BY <1>1, <2>1
<1>2. CASE fee # 0
  <2>1. f = (fee * base) \div rest
    BY <1>2, Zenon DEF feeFraction
  <2>2. rest \in Nat /\ rest > 0 /\ fee * base \in Nat
    OBVIOUS
  <2> HIDE DEF rest
  <2>3. f \in Nat /\ rest * f <= fee * base
    BY <2>1, <2>2, FloorDiv
  <2>4. before <= rest
    BY DEF rest
  <2> HIDE DEF f
  <2>5. before * f <= rest * f
    BY <2>2, <2>3, <2>4, ProductMonotone
  <2>6. before * (base + f) = before * base + before * f
        /\ (before + fee) * base = before * base + fee * base
    BY <2>3
  <2> QED BY <2>2, <2>3, <2>5, <2>6 DEF f
<1> QED BY <1>1, <1>2

(* Fractions for x more tokens at the price of before. *)
LEMMA PaidFraction ==
  ASSUME NEW x \in Nat, NEW base \in Nat, NEW full \in Nat, full > 0
  PROVE  /\ (x * base) \div full \in Nat
         /\ full * (base + (x * base) \div full) <= (full + x) * base
<1> DEFINE f == (x * base) \div full
<1>1. x * base \in Nat
  OBVIOUS
<1>2. f \in Nat /\ full * f <= x * base
  BY <1>1, FloorDiv
<1> HIDE DEF f
<1>3. full * (base + f) = full * base + full * f /\ (full + x) * base = full * base + x * base
  BY <1>2
<1> QED BY <1>1, <1>2, <1>3 DEF f

(* What users hold and Penrose holds are finitely many balances. *)
LEMMA HoldersFinite == IsFiniteSet(Holders) /\ Penrose \in Holders
  BY SingularityAssumption, FS_AddElement DEF Holders

-----------------------------------------------------------------------------
(* Accrual. *)

LEMMA InterestFacts ==
  ASSUME DebtInv, ControlInv, Fits(accruedBorrow)
  PROVE  /\ extraAmount \in Nat
         /\ accruedBorrow \in RebaseType
         /\ Covered(accruedBorrow)
         /\ accruedBorrow.base = totalBorrow.base
         /\ accruedBorrow.elastic = totalBorrow.elastic + extraAmount
         /\ ~Charges => extraAmount = 0
         /\ elapsed = 0 => accruedBorrow = totalBorrow
<1> DEFINE i == extraAmount
<1>1. /\ totalBorrow.elastic \in Nat /\ totalBorrow.base \in Nat
      /\ totalBorrow = [elastic |-> totalBorrow.elastic, base |-> totalBorrow.base]
      /\ totalBorrow.base <= totalBorrow.elastic
      /\ UINT128_MAX \in Nat
  BY UintAssumption DEF DebtInv, RebaseType, Covered
<1>2. elapsed \in Nat /\ interestPerSecond \in Nat
  BY SingularityAssumption DEF ControlInv
<1>3. i \in Nat /\ (~Charges => i = 0)
  <2>1. INTEREST_PRECISION \in Nat /\ INTEREST_PRECISION > 0
    BY SingularityAssumption
  <2>2. totalBorrow.elastic * interestPerSecond * elapsed \in Nat
    BY <1>1, <1>2
  <2>3. (totalBorrow.elastic * interestPerSecond * elapsed) \div INTEREST_PRECISION \in Nat
    BY <2>1, <2>2, FloorDiv
  <2> QED BY <2>3 DEF extraAmount
<1>4. elapsed = 0 => i = 0
  BY <1>2, <1>3 DEF Charges
<1> HIDE DEF i
<1>5. accruedBorrow = [elastic |-> totalBorrow.elastic + i, base |-> totalBorrow.base]
  <2>1. accruedBorrow = [elastic |-> totalBorrow.elastic + i, base |-> totalBorrow.base + 0]
    BY DEF accruedBorrow, Add, i
  <2> QED BY <1>1, <2>1
<1>6. totalBorrow.elastic + i <= UINT128_MAX /\ totalBorrow.base <= UINT128_MAX
  BY <1>5 DEF Fits
<1>7. accruedBorrow \in RebaseType /\ Covered(accruedBorrow)
  BY <1>1, <1>3, <1>5, <1>6 DEF RebaseType, Covered
<1>8. elapsed = 0 => accruedBorrow = totalBorrow
  BY <1>1, <1>4, <1>5
<1>9. /\ accruedBorrow.base = totalBorrow.base
      /\ accruedBorrow.elastic = totalBorrow.elastic + i
  BY <1>5
<1> QED BY <1>3, <1>7, <1>8, <1>9 DEF i

(* The protocol's part of the interest is less than the pool, and costs    *)
(* the fractions there are nothing of what they were worth.                *)
LEMMA FeesFacts ==
  ASSUME DebtInv, AssetInv, ControlInv, Fits(accruedBorrow), Fits(accruedAsset)
  PROVE  /\ accruedFraction \in Nat
         /\ accruedAsset \in RebaseType
         /\ accruedAsset.elastic = totalAsset.elastic
         /\ accruedAsset.base = totalAsset.base + accruedFraction
         /\ elapsed = 0 => accruedFraction = 0
         /\ fullAssetAmount(totalAsset, totalBorrow) * accruedAsset.base
              <= fullAssetAmount(accruedAsset, accruedBorrow) * totalAsset.base
<1> DEFINE A == totalAsset.elastic
           F == totalAsset.base
           f == accruedFraction
           before == fullAssetAmount(totalAsset, totalBorrow)
           full == fullAssetAmount(totalAsset, accruedBorrow)
           fee == feeOf(extraAmount, protocolFee)
<1>1. /\ A \in Nat /\ F \in Nat /\ totalAsset = [elastic |-> A, base |-> F]
      /\ UINT128_MAX \in Nat
  BY UintAssumption DEF AssetInv, RebaseType
<1>2. /\ extraAmount \in Nat /\ (~Charges => extraAmount = 0)
      /\ accruedBorrow.elastic = totalBorrow.elastic + extraAmount
  BY InterestFacts
<1>3. /\ totalBorrow.elastic \in Nat /\ totalBorrow.base \in Nat
      /\ totalBorrow.base <= totalBorrow.elastic /\ elapsed \in Nat
  BY UintAssumption, SingularityAssumption DEF DebtInv, RebaseType, Covered, ControlInv
<1>4. toAmount(A, FALSE) \in Nat
  BY <1>1, WholeTokens
<1>5. before \in Nat /\ full = before + extraAmount /\ (Charges => before > 0)
  <2> DEFINE idle == toAmount(A, FALSE)
  <2>1. before = idle + totalBorrow.elastic /\ full = idle + accruedBorrow.elastic
    BY Zenon DEF fullAssetAmount
  <2>2. Charges => totalBorrow.base > 0
    BY Zenon DEF Charges
  <2>3. idle \in Nat
    BY <1>4, Zenon
  <2> HIDE DEF before, full, idle
  <2>4. before \in Nat /\ full = before + extraAmount
    BY <1>2, <1>3, <2>1, <2>3
  <2>5. totalBorrow.base > 0 => before > 0
    BY <1>3, <2>1, <2>3
  <2> QED BY <2>2, <2>4, <2>5
<1>6. fee \in Nat /\ fee <= extraAmount
  BY <1>2, SingularityAssumption, FeeOfBounded
<1>7. f = IF Charges THEN feeFraction(fee, F, full) ELSE 0
  BY Zenon DEF accruedFraction
<1> HIDE DEF before, full, fee, f
<1>8. f \in Nat /\ before * (F + f) <= full * F
  <2>1. CASE Charges
    <3>1. f = feeFraction(fee, F, full)
      BY <1>7, <2>1
    <3>2. full \in Nat /\ before > 0 /\ before <= full - fee
      BY <1>2, <1>5, <1>6, <2>1
    <3> HIDE DEF F
    <3>3. f \in Nat /\ before * (F + f) <= (before + fee) * F
      BY <1>1, <1>5, <1>6, <3>1, <3>2, FeeFractionFacts
    <3>4. (before + fee) * F <= full * F
      <4>1. before + fee \in Nat /\ before + fee <= full /\ F \in Nat
        BY <1>1, <1>5, <1>6, <3>2
      <4> QED BY <3>2, <4>1, ProductMonotone
    <3>5. before * (F + f) \in Nat /\ (before + fee) * F \in Nat /\ full * F \in Nat
      BY <1>1, <1>5, <1>6, <3>2, <3>3
    <3> QED BY <3>3, <3>4, <3>5
  <2>2. CASE ~Charges
    <3>1. f = 0 /\ full = before
      BY <1>2, <1>5, <1>7, <2>2
    <3> QED BY <1>1, <1>5, <3>1
  <2> QED BY <2>1, <2>2
<1>9. accruedAsset = [elastic |-> A, base |-> F + f]
  <2>1. accruedAsset = [elastic |-> A + 0, base |-> F + f]
    BY DEF accruedAsset, Add, f
  <2> QED BY <1>1, <2>1
<1>10. A <= UINT128_MAX /\ F + f <= UINT128_MAX
  BY <1>9 DEF Fits
<1>11. accruedAsset.elastic = A /\ accruedAsset.base = F + f
  BY <1>9
<1>12. accruedAsset \in RebaseType
  BY <1>1, <1>8, <1>9, <1>10 DEF RebaseType
<1>13. fullAssetAmount(accruedAsset, accruedBorrow) = full
  BY <1>11 DEF fullAssetAmount, full
<1>14. elapsed = 0 => f = 0
  BY <1>3, <1>7 DEF Charges
<1>15. before * accruedAsset.base <= fullAssetAmount(accruedAsset, accruedBorrow) * F
  BY <1>8, <1>11, <1>13
<1> QED BY <1>8, <1>11, <1>12, <1>14, <1>15 DEF f, before


-----------------------------------------------------------------------------
(* The rate of interest. *)

(* Scaling a rate by a ratio below or above one. *)
LEMMA Scaled ==
  ASSUME NEW r \in Nat, NEW e \in Nat, NEW s \in Nat, e > 0, e <= s
  PROVE  /\ (r * e) \div s \in Nat /\ (r * e) \div s <= r
         /\ (r * s) \div e \in Nat /\ r <= (r * s) \div e
<1> DEFINE down == (r * e) \div s
           up == (r * s) \div e
<1>1. s > 0 /\ r * e \in Nat /\ r * s \in Nat /\ r * e <= r * s
  <2>1. e * r <= s * r
    BY ProductMonotone
  <2> QED BY <2>1
<1>2. down \in Nat /\ s * down <= r * e
  BY <1>1, FloorDiv
<1>3. up \in Nat /\ r * s < e * up + e
  BY <1>1, FloorDiv
<1> HIDE DEF down, up
<1>4. down <= r
  <2>1. down * s < (r + 1) * s
    <3>1. down * s <= r * s
      BY <1>1, <1>2
    <3>2. (r + 1) * s = r * s + s
      OBVIOUS
    <3>3. down * s \in Nat
      BY <1>2
    <3> QED BY <1>1, <3>1, <3>2, <3>3
  <2>2. down < r + 1
    BY <1>1, <1>2, <2>1, ProductCancels
  <2> QED BY <1>2, <2>2
<1>5. r <= up
  <2>1. r * e < (up + 1) * e
    <3>1. (up + 1) * e = e * up + e
      BY <1>3
    <3>2. e * up \in Nat
      BY <1>3
    <3> QED BY <1>1, <1>3, <3>1, <3>2
  <2>2. r < up + 1
    BY <1>3, <2>1, ProductCancels
  <2> QED BY <1>3, <2>2
<1> QED BY <1>2, <1>3, <1>4, <1>5 DEF down, up

(* The elasticity is only ever weighted upwards. *)
LEMMA ScaleFacts ==
  ASSUME NEW distance \in Nat, NEW target \in Nat, target > 0, elapsed \in Nat
  PROVE  scale(distance, target) \in Nat /\ interestElasticity <= scale(distance, target)
<1> DEFINE factor == (distance * UTILIZATION_PRECISION) \div target
<1>1. UTILIZATION_PRECISION \in Nat /\ interestElasticity \in Nat
  BY SingularityAssumption
<1>2. distance * UTILIZATION_PRECISION \in Nat
  BY <1>1
<1>3. factor \in Nat
  BY <1>2, FloorDiv
<1> HIDE DEF factor
<1>4. factor * factor * elapsed \in Nat
  BY <1>3
<1>5. scale(distance, target) = interestElasticity + factor * factor * elapsed
  BY DEF scale, factor
<1> QED BY <1>1, <1>4, <1>5

(* Whatever the utilization, the rate stays within its bounds. *)
LEMMA RateFacts ==
  ASSUME DebtInv, AssetInv, ControlInv, Fits(accruedBorrow)
  PROVE  accruedRate \in minimumInterestPerSecond..maximumInterestPerSecond
<1> DEFINE lo == minimumInterestPerSecond
           hi == maximumInterestPerSecond
           r == interestPerSecond
           full == fullAssetAmount(totalAsset, accruedBorrow)
<1>1. /\ lo \in Nat /\ hi \in Nat /\ r \in lo..hi /\ elapsed \in Nat
      /\ startingInterestPerSecond \in lo..hi
      /\ interestElasticity \in Nat /\ interestElasticity > 0
      /\ minimumTargetUtilization \in Nat
      /\ UTILIZATION_PRECISION \in Nat
      /\ maximumTargetUtilization \in 0..(UTILIZATION_PRECISION - 1)
  BY SingularityAssumption DEF ControlInv
<1>2. utilization \in Nat
  <2>1. accruedBorrow.elastic \in Nat
    BY InterestFacts, UintAssumption DEF RebaseType
  <2>2. toAmount(totalAsset.elastic, FALSE) \in Nat
    <3>1. totalAsset.elastic \in Nat
      BY UintAssumption DEF AssetInv, RebaseType
    <3> QED BY <3>1, WholeTokens, Zenon
  <2>3. full \in Nat
    <3> DEFINE idle == toAmount(totalAsset.elastic, FALSE)
    <3> HIDE DEF idle
    <3>1. full = idle + accruedBorrow.elastic
      BY Zenon DEF fullAssetAmount, idle
    <3>2. idle \in Nat
      BY <2>2, Zenon DEF idle
    <3> QED BY <2>1, <3>1, <3>2
  <2> HIDE DEF full
  <2> DEFINE n == accruedBorrow.elastic * UTILIZATION_PRECISION
  <2>4. n \in Nat
    BY <1>1, <2>1
  <2>5. utilization = IF full = 0 THEN 0 ELSE n \div full
    BY Zenon DEF utilization, full
  <2> HIDE DEF n
  <2>6. CASE full = 0
    BY <2>5, <2>6
  <2>7. CASE full # 0
    <3>1. n \div full \in Nat
      BY <2>3, <2>4, <2>7, FloorDiv
    <3> QED BY <2>5, <2>7, <3>1
  <2> QED BY <2>6, <2>7
<1> DEFINE use == utilization
<1> HIDE DEF use
<1>3. use \in Nat
  BY <1>2 DEF use
<1>4. use < minimumTargetUtilization => lowered(use) \in lo..hi
  <2> SUFFICES ASSUME use < minimumTargetUtilization PROVE lowered(use) \in lo..hi
    OBVIOUS
  <2> DEFINE s == scale(minimumTargetUtilization - use, minimumTargetUtilization)
             q == (r * interestElasticity) \div s
  <2>1. s \in Nat /\ interestElasticity <= s
    BY <1>1, <1>3, ScaleFacts
  <2> HIDE DEF s
  <2>2. q \in Nat /\ q <= r
    BY <1>1, <2>1, Scaled
  <2>3. lowered(use) = Most(lo, q)
    BY Zenon DEF lowered, s
  <2> HIDE DEF q
  <2> QED BY <1>1, <2>2, <2>3 DEF Most
<1>5. use > maximumTargetUtilization => raised(use) \in lo..hi
  <2> SUFFICES ASSUME use > maximumTargetUtilization PROVE raised(use) \in lo..hi
    OBVIOUS
  <2> DEFINE s == scale(use - maximumTargetUtilization,
                        UTILIZATION_PRECISION - maximumTargetUtilization)
             q == (r * s) \div interestElasticity
  <2>1. s \in Nat /\ interestElasticity <= s
    <3>1. /\ use - maximumTargetUtilization \in Nat
          /\ UTILIZATION_PRECISION - maximumTargetUtilization \in Nat
          /\ UTILIZATION_PRECISION - maximumTargetUtilization > 0
      BY <1>1, <1>3
    <3> QED BY <1>1, <3>1, ScaleFacts
  <2> HIDE DEF s
  <2>2. q \in Nat /\ r <= q
    BY <1>1, <2>1, Scaled
  <2>3. raised(use) = Least(hi, q)
    BY Zenon DEF raised, s
  <2> HIDE DEF q
  <2> QED BY <1>1, <2>2, <2>3 DEF Least
<1>6. accruedRate = IF elapsed = 0 THEN r
                    ELSE IF totalBorrow.base = 0 THEN startingInterestPerSecond
                    ELSE IF use < minimumTargetUtilization THEN lowered(use)
                    ELSE IF use > maximumTargetUtilization THEN raised(use)
                    ELSE r
  BY Zenon DEF accruedRate, use
<1> QED BY <1>1, <1>4, <1>5, <1>6

(* What every action that accrues has to start from. *)
LEMMA AccrualFacts ==
  ASSUME IInv, Accrues
  PROVE  /\ interestPerSecond' \in minimumInterestPerSecond..maximumInterestPerSecond
         /\ elapsed' \in 0..MaxElapsed
         /\ Fits(accruedBorrow) /\ Fits(accruedAsset)
         /\ accruedBorrow \in RebaseType /\ Covered(accruedBorrow)
         /\ accruedBorrow.base = totalBorrow.base
         /\ elapsed = 0 => accruedBorrow = totalBorrow
         /\ accruedAsset \in RebaseType
         /\ accruedAsset.elastic = totalAsset.elastic
         /\ accruedFraction \in Nat
         /\ accruedAsset.base = totalAsset.base + accruedFraction
<1>1. DebtInv /\ AssetInv /\ ControlInv /\ Fits(accruedBorrow) /\ Fits(accruedAsset)
  BY DEF IInv, Accrues
<1>2. interestPerSecond' \in minimumInterestPerSecond..maximumInterestPerSecond
  BY <1>1, RateFacts DEF Accrues
<1>3. elapsed' \in 0..MaxElapsed
  BY SingularityAssumption DEF Accrues
<1> QED BY <1>1, <1>2, <1>3, InterestFacts, FeesFacts

-----------------------------------------------------------------------------
(* What the steps keep. *)

LEMMA DebtStepKeeps ==
  ASSUME IInv, Accrues, NEW u \in Users, NEW v, DebtStep(u, v)
  PROVE  DebtInv' /\ NotDearer
<1>1. IsFiniteSet(Users)
  BY SingularityAssumption
<1>2. accruedBorrow.base = totalBorrow.base /\ (elapsed = 0 => accruedBorrow = totalBorrow)
  BY AccrualFacts
<1>3. userBorrowPart \in [Users -> Nat] /\ totalBorrow.base = SumOver(userBorrowPart)
  BY DEF IInv, DebtInv
<1> DEFINE total == accruedBorrow
<1>4. /\ v \in Nat
      /\ userBorrowPart' = [userBorrowPart EXCEPT ![u] = v]
      /\ totalBorrow' \in RebaseType
      /\ Covered(totalBorrow')
      /\ totalBorrow'.base = total.base - userBorrowPart[u] + v
      /\ totalBorrow'.elastic * total.base <= total.elastic * totalBorrow'.base
  BY DEF DebtStep
<1>5. SumOver(userBorrowPart') = SumOver(userBorrowPart) - userBorrowPart[u] + v
  <2>1. /\ v \in Nat /\ userBorrowPart \in [Users -> Nat]
        /\ userBorrowPart' = [userBorrowPart EXCEPT ![u] = v]
    BY <1>3, <1>4
  <2> QED BY ONLY <1>1, <2>1, SumUpdate, Zenon
<1>6. userBorrowPart' \in [Users -> Nat]
  BY <1>3, <1>4
<1>7. total.base = totalBorrow.base /\ (elapsed = 0 => total = totalBorrow)
  BY <1>2
<1> HIDE DEF total
<1>8. totalBorrow'.base = SumOver(userBorrowPart')
  BY <1>3, <1>4, <1>5, <1>7
<1>9. DebtInv'
  BY <1>4, <1>6, <1>8 DEF DebtInv, Covered
<1>10. NotDearer
  BY <1>4, <1>7 DEF NotDearer
<1> QED BY <1>9, <1>10

(* Only interest is charged. *)
LEMMA DebtCharged ==
  ASSUME IInv, Accrues, totalBorrow' = accruedBorrow, UNCHANGED userBorrowPart
  PROVE  DebtInv' /\ NotDearer
<1>1. /\ totalBorrow' \in RebaseType /\ Covered(totalBorrow')
      /\ totalBorrow'.base = totalBorrow.base
      /\ elapsed = 0 => totalBorrow' = totalBorrow
  BY AccrualFacts
<1>2. DebtInv'
  BY <1>1 DEF IInv, DebtInv, Covered
<1>3. NotDearer
  BY <1>1, UintAssumption DEF NotDearer, IInv, DebtInv, RebaseType
<1> QED BY <1>2, <1>3

LEMMA DebtStill ==
  ASSUME IInv, UNCHANGED debtVars
  PROVE  DebtInv' /\ NotDearer
<1>1. DebtInv'
  BY DEF IInv, DebtInv, Covered, debtVars
<1>2. NotDearer
  BY UintAssumption DEF NotDearer, IInv, DebtInv, RebaseType, debtVars
<1> QED BY <1>1, <1>2

LEMMA CollateralStepKeeps ==
  ASSUME IInv, NEW u \in Users, NEW v, CollateralStep(u, v)
  PROVE  CollateralInv'
<1>1. IsFiniteSet(Users)
  BY SingularityAssumption
<1>2. /\ userCollateralShare \in [Users -> Nat]
      /\ totalCollateralShare = SumOver(userCollateralShare)
  BY DEF IInv, CollateralInv
<1>3. SumOver(userCollateralShare') = SumOver(userCollateralShare) - userCollateralShare[u] + v
  BY <1>1, <1>2, SumUpdate DEF CollateralStep
<1>4. userCollateralShare' \in [Users -> Nat]
  BY <1>2 DEF CollateralStep
<1>5. totalCollateralShare' = SumOver(userCollateralShare') /\ totalCollateralShare' \in Nat
  <2>1. totalCollateralShare' = SumOver(userCollateralShare')
    BY <1>2, <1>3 DEF CollateralStep
  <2>2. SumOver(userCollateralShare') \in Nat
    BY <1>1, <1>4, SumBounds
  <2> QED BY <2>1, <2>2
<1> QED BY <1>4, <1>5 DEF CollateralStep, CollateralInv

LEMMA CollateralStill ==
  ASSUME IInv, UNCHANGED <<userCollateralShare, totalCollateralShare>>,
         collateralBalance' \in Nat, collateralBalance <= collateralBalance'
  PROVE  CollateralInv'
  BY DEF IInv, CollateralInv

LEMMA AssetStepKeeps ==
  ASSUME IInv, NEW h \in Holders, NEW v, AssetStep(h, v)
  PROVE  AssetInv'
<1>1. IsFiniteSet(Holders)
  BY HoldersFinite
<1>2. /\ balanceOf \in [Holders -> Nat] /\ feesEarnedFraction \in Nat
      /\ totalAsset.base = SumOver(balanceOf) + feesEarnedFraction
  BY DEF IInv, AssetInv, FractionsSum
<1>3. v \in Nat /\ balanceOf' = [balanceOf EXCEPT ![h] = v]
  BY DEF AssetStep
<1>4. SumOver(balanceOf') = SumOver(balanceOf) - balanceOf[h] + v
  BY <1>1, <1>2, <1>3, SumUpdate
<1>5. balanceOf' \in [Holders -> Nat]
  BY <1>2, <1>3
<1>6. SumOver(balanceOf) \in Nat /\ SumOver(balanceOf') \in Nat /\ balanceOf[h] \in Nat
  BY <1>1, <1>2, <1>5, SumBounds
<1>7. totalAsset'.base = SumOver(balanceOf') + feesEarnedFraction'
  <2>1. /\ totalAsset'.base = totalAsset.base - balanceOf[h] + v
                                - feesEarnedFraction + feesEarnedFraction'
        /\ feesEarnedFraction' \in Nat
    BY DEF AssetStep
  <2> QED BY <1>2, <1>3, <1>4, <1>6, <2>1
<1> QED BY <1>5, <1>7 DEF AssetStep, AssetInv, FractionsSum

(* Nobody's fractions change but those Penrose has earned. *)
LEMMA AssetStill ==
  ASSUME IInv, UNCHANGED balanceOf, feesEarnedFraction' \in Nat,
         totalAsset' \in RebaseType,
         totalAsset'.base = totalAsset.base - feesEarnedFraction + feesEarnedFraction',
         assetBalance' \in Nat, totalAsset'.elastic <= assetBalance'
  PROVE  AssetInv'
<1>1. SumOver(balanceOf) \in Nat
  BY HoldersFinite, SumBounds DEF IInv, AssetInv
<1>2. feesEarnedFraction \in Nat /\ totalAsset.base = SumOver(balanceOf) + feesEarnedFraction
  BY DEF IInv, AssetInv, FractionsSum
<1>3. totalAsset'.base = SumOver(balanceOf') + feesEarnedFraction'
  BY <1>1, <1>2
<1>4. balanceOf' \in [Holders -> Nat]
  BY DEF IInv, AssetInv
<1> QED BY <1>3, <1>4 DEF AssetInv, FractionsSum

(* New debt x, against parts rounded up. *)
LEMMA LoanIsDebtStep ==
  ASSUME IInv, Accrues, NEW u \in Users, NEW x \in Nat,
         Fits(Add(accruedBorrow, x, borrowPart(x))),
         totalBorrow' = Add(accruedBorrow, x, borrowPart(x)),
         userBorrowPart' = [userBorrowPart EXCEPT ![u] = @ + borrowPart(x)]
  PROVE  \E v : DebtStep(u, v)
<1> DEFINE total == accruedBorrow
           E == total.elastic
           B == total.base
           part == borrowPart(x)
           owned == userBorrowPart[u]
<1>2. total \in RebaseType /\ Covered(total)
  BY AccrualFacts
<1>3. userBorrowPart \in [Users -> Nat] /\ owned \in Nat
  BY DEF IInv, DebtInv
<1>4. E \in Nat /\ B \in Nat /\ B <= E
  <2> HIDE DEF total
  <2> QED BY <1>2, UintAssumption DEF RebaseType, Covered
<1>5. part \in Nat /\ part <= x /\ x * B <= E * part
  <2>1. CASE E = 0
    <3>1. part = x
      BY <2>1, Zenon DEF borrowPart, ToBase
    <3> HIDE DEF part, E, B
    <3>2. x * B = 0 /\ E * x = 0
      BY <1>4, <2>1
    <3> QED BY <2>1, <1>4, <3>1, <3>2
  <2>2. CASE E # 0
    <3>1. part = CeilDiv(x * B, E)
      BY <2>2, Zenon DEF borrowPart, ToBase, RoundedDiv
    <3> HIDE DEF E, B, part
    <3>2. E > 0
      BY <1>4, <2>2
    <3> QED BY <1>4, <3>1, <3>2, BorrowRounding
  <2> QED BY <2>1, <2>2
<1>6. /\ Fits(Add(total, x, part))
      /\ totalBorrow' = Add(total, x, part)
      /\ userBorrowPart' = [userBorrowPart EXCEPT ![u] = owned + part]
  OBVIOUS
<1> HIDE DEF total
<1> HIDE DEF part, E, B, owned
<1>7. totalBorrow' = [elastic |-> E + x, base |-> B + part]
  BY <1>6 DEF Add, E, B
<1>8. E + x <= UINT128_MAX /\ B + part <= UINT128_MAX
  BY <1>6 DEF Fits, Add, E, B
<1>9. /\ totalBorrow'.elastic = E + x /\ totalBorrow'.base = B + part
      /\ totalBorrow' \in RebaseType
      /\ Covered(totalBorrow')
  BY <1>4, <1>5, <1>7, <1>8, UintAssumption DEF RebaseType, Covered
<1>10. (E + x) * B <= E * (B + part)
  BY <1>4, <1>5
<1>11. B + part = B - owned + (owned + part) /\ owned + part \in Nat
  BY <1>3, <1>4, <1>5
<1>12. DebtStep(u, owned + part)
  BY <1>6, <1>9, <1>10, <1>11 DEF DebtStep, total, E, B, owned
<1> QED BY <1>12

(* Debt `amount` less, against `part` of one user: what is owed then still *)
(* covers the parts that stay.                                             *)
LEMMA ReductionIsDebtStep ==
  ASSUME IInv, Accrues, NEW u \in Users,
         NEW amount \in Nat, NEW part \in Nat, part <= userBorrowPart[u],
         amount <= accruedBorrow.elastic,
         part <= accruedBorrow.base,
         accruedBorrow.base - part <= accruedBorrow.elastic - amount,
         part * accruedBorrow.elastic <= accruedBorrow.base * amount,
         totalBorrow' = Sub(accruedBorrow, amount, part),
         userBorrowPart' = [userBorrowPart EXCEPT ![u] = userBorrowPart[u] - part]
  PROVE  \E v : DebtStep(u, v)
<1> DEFINE total == accruedBorrow
           E == total.elastic
           B == total.base
           owned == userBorrowPart[u]
<1>2. total \in RebaseType
  BY AccrualFacts
<1>3. owned \in Nat /\ part <= owned
  BY DEF IInv, DebtInv
<1> HIDE DEF total
<1>4. E \in 0..UINT128_MAX /\ B \in 0..UINT128_MAX /\ UINT128_MAX \in Nat
  BY <1>2, UintAssumption DEF RebaseType
<1>5. amount <= E /\ part <= B /\ B - part <= E - amount /\ part * E <= B * amount
  BY DEF total
<1>6. totalBorrow' = [elastic |-> E - amount, base |-> B - part]
  BY DEF total, Sub
<1> HIDE DEF E, B, owned
<1>7. /\ totalBorrow'.elastic = E - amount /\ totalBorrow'.base = B - part
      /\ totalBorrow' \in RebaseType
      /\ Covered(totalBorrow')
  BY <1>4, <1>5, <1>6 DEF RebaseType, Covered
<1>8. (E - amount) * B <= E * (B - part)
  <2>1. (E - amount) * B = E * B - amount * B /\ E * (B - part) = E * B - E * part
    BY <1>4
  <2>2. part * E = E * part /\ B * amount = amount * B
    BY <1>4
  <2>3. E * B \in Int /\ amount * B \in Int /\ E * part \in Int
    BY <1>4
  <2> QED BY <1>5, <2>1, <2>2, <2>3
<1>9. B - part = B - owned + (owned - part) /\ owned - part \in Nat
  BY <1>3, <1>4
<1>10. DebtStep(u, owned - part)
  BY <1>7, <1>8, <1>9 DEF DebtStep, total, E, B, owned
<1> QED BY <1>10

-----------------------------------------------------------------------------
(* What lenders own, over an accrual and the call that follows it. *)

LEMMA PoolFacts ==
  ASSUME NEW asset \in RebaseType, NEW debt \in RebaseType
  PROVE  /\ allShare(asset, debt) \in Nat /\ fullAssetAmount(asset, debt) \in Nat
         /\ SharesPerAmount \in Nat /\ SharesPerAmount > 0
         /\ SharesPerAmount * fullAssetAmount(asset, debt) <= allShare(asset, debt)
         /\ allShare(asset, debt)
              < SharesPerAmount * fullAssetAmount(asset, debt) + SharesPerAmount
<1>1. asset.elastic \in Nat /\ debt.elastic \in Nat
  BY UintAssumption DEF RebaseType
<1> DEFINE idle == toAmount(asset.elastic, FALSE)
           owed == toShare(debt.elastic)
<1>2. /\ idle \in Nat
      /\ SharesPerAmount * (idle + debt.elastic) <= asset.elastic + owed
      /\ asset.elastic + owed < SharesPerAmount * (idle + debt.elastic) + SharesPerAmount
  BY <1>1, WorthInTokens, Zenon
<1>3. owed \in Nat
  BY <1>1, ShareRoundTrip, Zenon
<1>4. allShare(asset, debt) = asset.elastic + owed
  BY Zenon DEF allShare
<1>5. fullAssetAmount(asset, debt) = idle + debt.elastic
  BY Zenon DEF fullAssetAmount
<1> HIDE DEF idle, owed
<1>6. idle + debt.elastic \in Nat /\ asset.elastic + owed \in Nat
  BY <1>1, <1>2, <1>3
<1>7. SharesPerAmount \in Nat /\ SharesPerAmount > 0
  BY PrecisionAssumption
<1> QED BY <1>2, <1>4, <1>5, <1>6, <1>7, Zenon

LEMMA RatioTransitive ==
  ASSUME NEW f0 \in Nat, NEW b0 \in Nat, NEW f1 \in Nat, NEW b1 \in Nat, b1 > 0,
         NEW f2 \in Nat, NEW b2 \in Nat,
         f0 * b1 <= f1 * b0, f1 * b2 <= f2 * b1
  PROVE  f0 * b2 <= f2 * b0
<1>1. (f0 * b1) * b2 <= (f1 * b0) * b2 /\ (f1 * b2) * b0 <= (f2 * b1) * b0
  BY ProductMonotone
<1>2. /\ (f0 * b1) * b2 = (f0 * b2) * b1
      /\ (f1 * b0) * b2 = (f1 * b2) * b0
      /\ (f2 * b1) * b0 = (f2 * b0) * b1
  OBVIOUS
<1>3. (f0 * b2) * b1 \in Nat /\ (f1 * b2) * b0 \in Nat /\ (f2 * b0) * b1 \in Nat
  OBVIOUS
<1>4. (f0 * b2) * b1 <= (f2 * b0) * b1
  BY <1>1, <1>2, <1>3
<1>5. f0 * b2 \in Int /\ f2 * b0 \in Int
  OBVIOUS
<1>6. CASE f2 * b0 < f0 * b2
  <2>1. (f2 * b0) * b1 < (f0 * b2) * b1
    BY <1>5, <1>6
  <2> QED BY <1>3, <1>4, <2>1
<1> QED BY <1>5, <1>6

(* Before and after the accrual, in both measures. *)
LEMMA AccruedPool ==
  ASSUME IInv, Accrues
  PROVE  /\ totalAsset \in RebaseType /\ totalBorrow \in RebaseType
         /\ accruedAsset \in RebaseType /\ accruedBorrow \in RebaseType
         /\ totalAsset.base \in Nat /\ accruedAsset.base \in Nat
         /\ totalAsset.base <= accruedAsset.base
         /\ fullAssetAmount(totalAsset, totalBorrow) * accruedAsset.base
              <= fullAssetAmount(accruedAsset, accruedBorrow) * totalAsset.base
<1>1. DebtInv /\ AssetInv /\ ControlInv /\ Fits(accruedBorrow) /\ Fits(accruedAsset)
  BY DEF IInv, Accrues
<1>2. totalAsset \in RebaseType /\ totalBorrow \in RebaseType
  BY <1>1 DEF DebtInv, AssetInv
<1>3. totalAsset.base \in Nat
  BY <1>2, UintAssumption DEF RebaseType
<1>4. /\ accruedFraction \in Nat /\ accruedAsset.base = totalAsset.base + accruedFraction
      /\ accruedAsset \in RebaseType /\ accruedBorrow \in RebaseType
  BY AccrualFacts
<1>5. accruedAsset.base \in Nat /\ totalAsset.base <= accruedAsset.base
  BY <1>3, <1>4
<1> QED BY <1>1, <1>2, <1>3, <1>4, <1>5, FeesFacts, Zenon

(* A call that keeps what a fraction is worth in shares. *)
LEMMA SharesKept ==
  ASSUME IInv, Accrues, receiver = {},
         NEW w \in Nat, worth' = w, NEW b \in Nat, totalAsset'.base = b,
         totalAsset.base > 0 => b > 0,
         allShare(accruedAsset, accruedBorrow) * b <= w * accruedAsset.base
  PROVE  NoLoss
<1> SUFFICES ASSUME totalAsset.base > 0
             PROVE  (worth - SharesPerAmount) * b < w * totalAsset.base
  BY DEF NoLoss
<1> DEFINE w0 == allShare(totalAsset, totalBorrow)
           f0 == fullAssetAmount(totalAsset, totalBorrow)
           b0 == totalAsset.base
           w1 == allShare(accruedAsset, accruedBorrow)
           f1 == fullAssetAmount(accruedAsset, accruedBorrow)
           b1 == accruedAsset.base
           S == SharesPerAmount
<1>1. /\ totalAsset \in RebaseType /\ totalBorrow \in RebaseType
      /\ accruedAsset \in RebaseType /\ accruedBorrow \in RebaseType
      /\ b0 \in Nat /\ b1 \in Nat /\ b0 <= b1 /\ f0 * b1 <= f1 * b0
  BY AccruedPool, Zenon
<1>2. w0 \in Nat /\ f0 \in Nat /\ S \in Nat /\ S > 0 /\ w0 < S * f0 + S
  BY <1>1, PoolFacts, Zenon
<1>3. w1 \in Nat /\ f1 \in Nat /\ S * f1 <= w1
  BY <1>1, PoolFacts, Zenon
<1>4. worth = w0
  BY <1>2 DEF worth, due
<1>5. w1 * b <= w * b1 /\ b0 > 0 /\ b > 0
  OBVIOUS
<1> HIDE DEF w0, f0, b0, w1, f1, b1, S
<1>6. b1 > 0
  BY <1>1, <1>5
<1>7. (w0 - S) * b < w * b0
  BY <1>1, <1>2, <1>3, <1>5, <1>6, MildLoss
<1> QED BY <1>4, <1>7 DEF S, b0

(* A call that keeps it in whole tokens. *)
LEMMA TokensKept ==
  ASSUME IInv, Accrues, receiver = {},
         NEW w \in Nat, worth' = w, NEW b \in Nat, totalAsset'.base = b,
         totalAsset.base > 0 => b > 0,
         NEW f \in Nat, SharesPerAmount * f <= w,
         fullAssetAmount(accruedAsset, accruedBorrow) * b <= f * accruedAsset.base
  PROVE  NoLoss
<1> SUFFICES ASSUME totalAsset.base > 0
             PROVE  (worth - SharesPerAmount) * b < w * totalAsset.base
  BY DEF NoLoss
<1> DEFINE w0 == allShare(totalAsset, totalBorrow)
           f0 == fullAssetAmount(totalAsset, totalBorrow)
           b0 == totalAsset.base
           f1 == fullAssetAmount(accruedAsset, accruedBorrow)
           b1 == accruedAsset.base
           S == SharesPerAmount
<1>1. /\ totalAsset \in RebaseType /\ totalBorrow \in RebaseType
      /\ accruedAsset \in RebaseType /\ accruedBorrow \in RebaseType
      /\ b0 \in Nat /\ b1 \in Nat /\ b0 <= b1 /\ f0 * b1 <= f1 * b0
  BY AccruedPool, Zenon
<1>2. w0 \in Nat /\ f0 \in Nat /\ S \in Nat /\ S > 0 /\ w0 < S * f0 + S
  BY <1>1, PoolFacts, Zenon
<1>3. f1 \in Nat
  BY <1>1, PoolFacts, Zenon
<1>4. worth = w0
  BY <1>2 DEF worth, due
<1>5. f1 * b <= f * b1 /\ b0 > 0 /\ b > 0 /\ S * f <= w
  OBVIOUS
<1> HIDE DEF w0, f0, b0, f1, b1, S
<1>6. b1 > 0
  BY <1>1, <1>5
<1>7. f0 * b <= f * b0
  BY <1>1, <1>2, <1>3, <1>5, <1>6, RatioTransitive
<1>8. w * b <= w * b
  OBVIOUS
<1>9. (w0 - S) * b < w * b0
  BY <1>1, <1>2, <1>5, <1>7, <1>8, MildLoss
<1> QED BY <1>4, <1>9 DEF S, b0

(* A call that does not accrue and keeps it in shares. *)
LEMMA PriceKept ==
  ASSUME NEW w0 \in Nat, worth = w0, NEW b0 \in Nat, totalAsset.base = b0,
         NEW w \in Nat, worth' = w, NEW b \in Nat, totalAsset'.base = b,
         b0 > 0 => b > 0, w0 * b <= w * b0
  PROVE  NoLoss
<1> SUFFICES ASSUME b0 > 0
             PROVE  (w0 - SharesPerAmount) * b < w * b0
  BY DEF NoLoss
<1> DEFINE S == SharesPerAmount
<1>1. S \in Nat /\ S > 0
  BY PrecisionAssumption
<1> HIDE DEF S
<1>2. (w0 - S) * b = w0 * b - S * b /\ S * b > 0
  BY <1>1
<1>3. w0 * b \in Nat /\ w * b0 \in Nat /\ S * b \in Nat
  BY <1>1
<1>4. (w0 - S) * b < w * b0
  BY <1>2, <1>3
<1> QED BY <1>4 DEF S

(* While the receiver of a liquidation runs, its calls are left out. *)
LEMMA ReceiverRuns ==
  ASSUME receiver # {}, UNCHANGED receiver
  PROVE  NoLoss
  BY DEF NoLoss

-----------------------------------------------------------------------------
(* Parts of steps that many actions share. *)

LEMMA ControlKept ==
  ASSUME IInv, Accrues, exchangeRate' \in ExchangeRates, UNCHANGED <<pauseOptions, receiver>>
  PROVE  ControlInv'
<1>1. /\ interestPerSecond' \in minimumInterestPerSecond..maximumInterestPerSecond
      /\ elapsed' \in 0..MaxElapsed
  BY AccrualFacts
<1> QED BY <1>1 DEF IInv, ControlInv

LEMMA PoolStill ==
  ASSUME IInv, UNCHANGED assetVars
  PROVE  AssetInv'
  BY DEF IInv, AssetInv, FractionsSum, assetVars

(* The pool takes x shares in, for fr fractions of one holder. *)
LEMMA PoolGrows ==
  ASSUME IInv, Accrues, feesEarnedFraction' = feesEarnedFraction + accruedFraction,
         NEW h \in Holders, NEW x \in Nat, NEW fr \in Nat,
         Fits(Add(accruedAsset, x, fr)), totalAsset' = Add(accruedAsset, x, fr),
         balanceOf' = [balanceOf EXCEPT ![h] = @ + fr],
         assetBalance' \in Nat, totalAsset.elastic + x <= assetBalance'
  PROVE  AssetInv'
<1> DEFINE A == totalAsset.elastic
           F == totalAsset.base
           f == accruedFraction
           owned == balanceOf[h]
           asset == accruedAsset
<1>1. /\ A \in Nat /\ F \in Nat /\ feesEarnedFraction \in Nat /\ UINT128_MAX \in Nat
      /\ balanceOf \in [Holders -> Nat] /\ owned \in Nat
  BY UintAssumption DEF IInv, AssetInv, RebaseType
<1>2. f \in Nat /\ asset.elastic = A /\ asset.base = F + f
  BY AccrualFacts
<1>3. /\ Fits(Add(asset, x, fr)) /\ totalAsset' = Add(asset, x, fr)
      /\ feesEarnedFraction' = feesEarnedFraction + f
      /\ balanceOf' = [balanceOf EXCEPT ![h] = owned + fr]
      /\ A + x <= assetBalance'
  OBVIOUS
<1> HIDE DEF asset, A, F, f
<1>4. totalAsset' = [elastic |-> A + x, base |-> F + f + fr]
  BY <1>2, <1>3 DEF Add
<1>5. A + x <= UINT128_MAX /\ F + f + fr <= UINT128_MAX
  BY <1>2, <1>3 DEF Fits, Add
<1>6. /\ totalAsset'.elastic = A + x /\ totalAsset'.base = F + f + fr
      /\ totalAsset' \in RebaseType
  BY <1>1, <1>2, <1>4, <1>5 DEF RebaseType
<1> HIDE DEF owned
<1>7. /\ F + f + fr = F - owned + (owned + fr) - feesEarnedFraction + (feesEarnedFraction + f)
      /\ owned + fr \in Nat /\ feesEarnedFraction + f \in Nat
  BY <1>1, <1>2
<1>8. AssetStep(h, owned + fr)
  BY <1>3, <1>6, <1>7 DEF AssetStep, F, owned
<1> QED BY <1>8, AssetStepKeeps

(* The pool takes x shares in and nobody gets fractions. *)
LEMMA PoolRepaid ==
  ASSUME IInv, Accrues, AccruesFees, UNCHANGED balanceOf, NEW x \in Nat,
         Fits(Add(accruedAsset, x, 0)), totalAsset' = Add(accruedAsset, x, 0),
         assetBalance' \in Nat, totalAsset.elastic + x <= assetBalance'
  PROVE  AssetInv'
<1>1. Penrose \in Holders
  BY HoldersFinite
<1>2. balanceOf' = [balanceOf EXCEPT ![Penrose] = @ + 0]
  BY <1>1 DEF IInv, AssetInv
<1> QED BY <1>1, <1>2, PoolGrows DEF AccruesFees

(* Fees are earned and that is all. *)
LEMMA PoolCharged ==
  ASSUME IInv, Accrues, AccruesFees, totalAsset' = accruedAsset,
         UNCHANGED <<balanceOf, assetBalance>>
  PROVE  AssetInv'
<1>1. /\ accruedFraction \in Nat /\ totalAsset' \in RebaseType
      /\ totalAsset'.elastic = totalAsset.elastic
      /\ totalAsset'.base = totalAsset.base + accruedFraction
  BY AccrualFacts
<1>2. /\ feesEarnedFraction \in Nat /\ assetBalance \in Nat /\ totalAsset.base \in Nat
      /\ totalAsset.elastic <= assetBalance
  BY UintAssumption DEF IInv, AssetInv, RebaseType
<1>3. feesEarnedFraction' = feesEarnedFraction + accruedFraction
  BY DEF AccruesFees
<1>4. totalAsset'.base = totalAsset.base - feesEarnedFraction + feesEarnedFraction'
  BY <1>1, <1>2, <1>3
<1>5. feesEarnedFraction' \in Nat
  BY <1>1, <1>2, <1>3
<1>6. UNCHANGED balanceOf /\ assetBalance' \in Nat /\ totalAsset'.elastic <= assetBalance'
  BY <1>1, <1>2
<1> QED BY <1>1, <1>4, <1>5, <1>6, AssetStill

(* What the fractions are worth, where no receiver runs. *)
LEMMA WorthAfter ==
  ASSUME receiver' = {}
  PROVE  worth' = totalAsset'.elastic + toShare(totalBorrow'.elastic) + 0
  BY DEF worth, due, allShare, toShare

LEMMA AccruedWorth ==
  ASSUME IInv, Accrues
  PROVE  /\ allShare(accruedAsset, accruedBorrow) \in Nat
         /\ allShare(accruedAsset, accruedBorrow)
              = totalAsset.elastic + toShare(accruedBorrow.elastic)
         /\ totalAsset.elastic \in Nat
         /\ toShare(accruedBorrow.elastic) \in Nat /\ accruedBorrow.elastic \in Nat
         /\ accruedAsset.base \in Nat
         /\ totalAsset.base \in Nat /\ totalAsset.base <= accruedAsset.base
<1>1. /\ totalAsset \in RebaseType /\ accruedAsset \in RebaseType
      /\ accruedBorrow \in RebaseType
      /\ totalAsset.base \in Nat /\ totalAsset.base <= accruedAsset.base
  BY AccruedPool
<1>2. /\ totalAsset.elastic \in Nat /\ accruedAsset.base \in Nat /\ accruedBorrow.elastic \in Nat
  BY <1>1, UintAssumption DEF RebaseType
<1>3. accruedAsset.elastic = totalAsset.elastic
  BY AccrualFacts
<1>4. toShare(accruedBorrow.elastic) \in Nat
  BY <1>2, ShareRoundTrip, Zenon
<1>5. allShare(accruedAsset, accruedBorrow) = totalAsset.elastic + toShare(accruedBorrow.elastic)
  BY <1>3, Zenon DEF allShare
<1>6. allShare(accruedAsset, accruedBorrow) \in Nat
  BY <1>1, PoolFacts, Zenon
<1> QED BY <1>1, <1>2, <1>4, <1>5, <1>6, Zenon

(* Shares of worth change hands and no fractions are made. *)
LEMMA WorthMoves ==
  ASSUME IInv, Accrues, receiver = {}, worth' = allShare(accruedAsset, accruedBorrow),
         totalAsset'.base = accruedAsset.base
  PROVE  NoLoss
<1> DEFINE w == allShare(accruedAsset, accruedBorrow)
           b == accruedAsset.base
           b0 == totalAsset.base
<1>1. w \in Nat /\ b \in Nat /\ b0 \in Nat /\ b0 <= b
  BY AccruedWorth, Zenon
<1>2. b0 > 0 => b > 0
  <2> HIDE DEF b, b0
  <2> QED BY <1>1
<1>3. w * b <= w * b
  <2> HIDE DEF w, b
  <2> QED BY <1>1
<1>4. worth' = w /\ totalAsset'.base = b
  OBVIOUS
<1> QED BY <1>1, <1>2, <1>3, <1>4, SharesKept, Zenon

LEMMA JustAccrued ==
  ASSUME IInv, Accrues, totalAsset' = accruedAsset, totalBorrow' = accruedBorrow,
         UNCHANGED receiver
  PROVE  NoLoss
<1>1. CASE receiver # {}
  BY <1>1, ReceiverRuns
<1>2. CASE receiver = {}
  <2> DEFINE w == allShare(accruedAsset, accruedBorrow)
  <2>1. receiver' = {}
    BY <1>2
  <2>2. w \in Nat
    BY AccruedWorth, Zenon
  <2>3. allShare(totalAsset, totalBorrow)' = w
    BY DEF allShare, toShare
  <2> HIDE DEF w
  <2>4. worth' = w + 0
    BY <2>1, <2>3 DEF worth, due
  <2>5. worth' = w
    BY <2>2, <2>4
  <2> QED BY <1>2, <2>5, WorthMoves DEF w
<1> QED BY <1>1, <1>2

(* A call that touches neither the pool nor the debt. *)
LEMMA WorthNat ==
  ASSUME IInv
  PROVE  worth \in Nat /\ due \in Nat /\ totalAsset.base \in Nat
         /\ allShare(totalAsset, totalBorrow) \in Nat
<1>1. totalAsset \in RebaseType /\ totalBorrow \in RebaseType
  BY DEF IInv, DebtInv, AssetInv
<1>2. allShare(totalAsset, totalBorrow) \in Nat
  BY <1>1, PoolFacts, Zenon
<1>3. due \in Nat
  <2>1. CASE receiver = {}
    BY <2>1 DEF due
  <2>2. CASE receiver # {}
    <3>1. PICK call \in CallType : receiver = {call}
      BY <2>2 DEF IInv, ControlInv
    <3>2. call.amount \in Nat
      BY DEF CallType
    <3>3. (CHOOSE c \in receiver : TRUE) = call
      BY <3>1
    <3>4. due = toShare(call.amount)
      BY <2>2, <3>3 DEF due
    <3> QED BY <3>2, <3>4, ShareRoundTrip, Zenon
  <2> QED BY <2>1, <2>2
<1>4. totalAsset.base \in Nat
  BY <1>1, UintAssumption DEF RebaseType
<1> QED BY <1>2, <1>3, <1>4 DEF worth

LEMMA WorthStill ==
  ASSUME IInv, UNCHANGED <<totalAsset, totalBorrow, receiver>>
  PROVE  NoLoss
<1> DEFINE w == worth
           b == totalAsset.base
<1>1. w \in Nat /\ b \in Nat
  BY WorthNat, Zenon
<1>2. worth' = w /\ totalAsset'.base = b
  BY DEF worth, due, allShare
<1>3. worth = w /\ totalAsset.base = b
  OBVIOUS
<1> HIDE DEF w, b
<1>4. w * b <= w * b
  BY <1>1
<1> QED BY <1>1, <1>2, <1>3, <1>4, PriceKept

-----------------------------------------------------------------------------
(* Collateral actions. *)

(* Shares a user takes out were the user's, and the market holds them. *)
LEMMA OutflowKeeps ==
  ASSUME IInv, NEW u \in Users, NEW share \in Nat, NEW sent \in Nat, sent <= share,
         share <= userCollateralShare[u],
         userCollateralShare' = [userCollateralShare EXCEPT ![u] = userCollateralShare[u] - share],
         totalCollateralShare' = totalCollateralShare - share,
         collateralBalance' = collateralBalance - sent
  PROVE  CollateralInv'
<1> DEFINE owned == userCollateralShare[u]
<1>1. IsFiniteSet(Users)
  BY SingularityAssumption
<1>2. /\ userCollateralShare \in [Users -> Nat]
      /\ totalCollateralShare = SumOver(userCollateralShare)
      /\ collateralBalance \in Nat
      /\ totalCollateralShare <= collateralBalance
  BY DEF IInv, CollateralInv
<1>3. owned \in Nat /\ owned <= totalCollateralShare /\ totalCollateralShare \in Nat
  BY <1>1, <1>2, SumBounds
<1>4. share <= owned
  OBVIOUS
<1> HIDE DEF owned
<1>5. CollateralStep(u, owned - share)
  BY <1>2, <1>3, <1>4 DEF CollateralStep, owned
<1> QED BY <1>5, CollateralStepKeeps

LEMMA InflowKeeps ==
  ASSUME IInv, NEW u \in Users, NEW share \in Nat,
         userCollateralShare' = [userCollateralShare EXCEPT ![u] = userCollateralShare[u] + share],
         totalCollateralShare' = totalCollateralShare + share,
         collateralBalance' \in Nat,
         totalCollateralShare + share <= collateralBalance'
  PROVE  CollateralInv'
<1> DEFINE owned == userCollateralShare[u]
<1>1. /\ userCollateralShare \in [Users -> Nat] /\ owned \in Nat
      /\ totalCollateralShare \in Nat
  BY DEF IInv, CollateralInv
<1> HIDE DEF owned
<1>2. CollateralStep(u, owned + share)
  BY <1>1 DEF CollateralStep, owned
<1> QED BY <1>2, CollateralStepKeeps

LEMMA SendsAtMost ==
  ASSUME NEW share \in Nat
  PROVE  toShare(toAmount(share, FALSE)) \in Nat /\ toShare(toAmount(share, FALSE)) <= share
  BY WholeTokens

LEMMA CollateralUntouched ==
  ASSUME IInv, UNCHANGED collateralVars
  PROVE  CollateralInv'
  BY DEF IInv, CollateralInv, collateralVars

(* A step that moves nothing of the pool, the debt or users' collateral. *)
LEMMA QuietStepOK ==
  ASSUME IInv, UNCHANGED <<totalAsset, balanceOf, feesEarnedFraction, debtVars,
                           userCollateralShare, totalCollateralShare, receiver>>,
         assetBalance' \in Nat, assetBalance <= assetBalance',
         collateralBalance' \in Nat, collateralBalance <= collateralBalance',
         ControlInv'
  PROVE  StepOK
<1>1. DebtInv' /\ NotDearer
  BY DebtStill
<1>2. AssetInv'
  BY UintAssumption DEF IInv, AssetInv, FractionsSum, RebaseType
<1>3. CollateralInv'
  BY CollateralStill
<1>4. NoLoss
  BY WorthStill DEF debtVars
<1> QED BY <1>1, <1>2, <1>3, <1>4 DEF StepOK, IInv

LEMMA AddCollateralOK ==
  ASSUME IInv, NEW u \in Users, NEW amount \in Nat, NEW share \in Nat, NEW skim \in BOOLEAN,
         addCollateral(u, amount, share, skim)
  PROVE  StepOK
<1> DEFINE credited == IF share = 0 THEN toShare(amount) ELSE share
<1>1. credited \in Nat
  BY ShareRoundTrip
<1> HIDE DEF credited
<1>2. /\ userCollateralShare' = [userCollateralShare EXCEPT ![u] = @ + credited]
      /\ totalCollateralShare' = totalCollateralShare + credited
      /\ UNCHANGED <<assetVars, debtVars, rateVars, exchangeRate, pauseOptions, receiver>>
  BY DEF addCollateral, credited
<1>3. \/ /\ credited <= collateralBalance - totalCollateralShare
         /\ UNCHANGED collateralBalance
      \/ collateralBalance' = collateralBalance + credited
  BY Zenon DEF addCollateral, credited
<1>4. /\ totalCollateralShare \in Nat /\ collateralBalance \in Nat
      /\ totalCollateralShare <= collateralBalance
  BY DEF IInv, CollateralInv
<1>5. collateralBalance' \in Nat /\ totalCollateralShare + credited <= collateralBalance'
  BY <1>1, <1>3, <1>4
<1>6. CollateralInv'
  BY <1>1, <1>2, <1>5, InflowKeeps
<1>7. DebtInv' /\ NotDearer /\ AssetInv' /\ ControlInv'
  BY <1>2, DebtStill, PoolStill DEF IInv, ControlInv, rateVars
<1>8. NoLoss
  BY <1>2, WorthStill DEF assetVars, debtVars
<1> QED BY <1>6, <1>7, <1>8 DEF StepOK, IInv

LEMMA RemoveCollateralOK ==
  ASSUME IInv, NEW u \in Users, NEW share \in Nat, NEW rate \in ExchangeRates,
         removeCollateral(u, share, rate)
  PROVE  StepOK
<1>1. /\ share <= userCollateralShare[u]
      /\ userCollateralShare' = [userCollateralShare EXCEPT ![u] = @ - share]
      /\ totalCollateralShare' = totalCollateralShare - share
      /\ collateralBalance' = collateralBalance - share
      /\ totalBorrow' = accruedBorrow
      /\ totalAsset' = accruedAsset
      /\ Accrues /\ AccruesFees
      /\ exchangeRate' = rate
      /\ UNCHANGED <<userBorrowPart, balanceOf, assetBalance, pauseOptions, receiver>>
  BY Zenon DEF removeCollateral, RemovesCollateral, Solvent
<1>2. CollateralInv'
  <2>1. share <= share
    OBVIOUS
  <2> QED BY <1>1, <2>1, OutflowKeeps, Zenon
<1>3. DebtInv' /\ NotDearer
  BY <1>1, DebtCharged
<1>4. AssetInv' /\ NoLoss
  BY <1>1, PoolCharged, JustAccrued
<1>5. ControlInv'
  BY <1>1, ControlKept
<1> QED BY <1>2, <1>3, <1>4, <1>5 DEF StepOK, IInv


-----------------------------------------------------------------------------
(* Interest, pauses, transfers and the environment. *)

LEMMA AccrueOnlyOK ==
  ASSUME IInv, accrueOnly, pauseOptions' \in [PauseType -> BOOLEAN]
  PROVE  StepOK
<1>1. /\ Accrues /\ AccruesFees
      /\ totalBorrow' = accruedBorrow /\ totalAsset' = accruedAsset
      /\ UNCHANGED <<balanceOf, assetBalance, userBorrowPart, collateralVars, exchangeRate,
                     receiver>>
  BY DEF accrueOnly
<1>2. DebtInv' /\ NotDearer
  BY <1>1, DebtCharged
<1>3. AssetInv' /\ NoLoss
  BY <1>1, PoolCharged, JustAccrued
<1>4. CollateralInv'
  BY <1>1, CollateralUntouched
<1>5. ControlInv'
  <2>1. /\ interestPerSecond' \in minimumInterestPerSecond..maximumInterestPerSecond
        /\ elapsed' \in 0..MaxElapsed
    BY <1>1, AccrualFacts
  <2> QED BY <1>1, <2>1 DEF IInv, ControlInv
<1> QED BY <1>2, <1>3, <1>4, <1>5 DEF StepOK, IInv

(* What is sent leaves the sum as it is. *)
LEMMA SumMoved ==
  ASSUME NEW S, IsFiniteSet(S), NEW f \in [S -> Nat], NEW a \in S, NEW b \in S, a # b,
         NEW x \in Nat, x <= f[a],
         NEW moved \in [S -> Nat], moved[a] = f[a] - x, moved[b] = f[b] + x,
         \A c \in S : c \notin {a, b} => moved[c] = f[c]
  PROVE  SumOver(moved) = SumOver(f)
<1>1. PICK sent : sent = [f EXCEPT ![a] = f[a] - x]
  OBVIOUS
<1>2. f[a] - x \in Nat /\ f[b] + x \in Nat /\ f[a] \in Nat /\ f[b] \in Nat
  OBVIOUS
<1>3. sent \in [S -> Nat] /\ sent[b] = f[b]
  BY <1>1, <1>2
<1>4. moved = [sent EXCEPT ![b] = f[b] + x]
  BY <1>1, <1>2, <1>3
<1>5. SumOver(sent) = SumOver(f) - f[a] + (f[a] - x)
  BY <1>1, <1>2, SumUpdate
<1>6. SumOver(moved) = SumOver(sent) - sent[b] + (f[b] + x)
  <2>1. SumOver([sent EXCEPT ![b] = f[b] + x]) = SumOver(sent) - sent[b] + (f[b] + x)
    BY <1>2, <1>3, SumUpdate, Zenon
  <2> QED BY <1>4, <2>1, Zenon
<1>7. SumOver(f) \in Nat
  BY SumBounds
<1> QED BY <1>2, <1>3, <1>5, <1>6, <1>7

LEMMA TransferOK ==
  ASSUME IInv, NEW u \in Users, NEW to \in Holders, NEW amount \in Nat, transfer(u, to, amount)
  PROVE  StepOK
<1>1. /\ amount <= balanceOf[u] /\ u # to
      /\ balanceOf' = [balanceOf EXCEPT ![u] = @ - amount, ![to] = @ + amount]
      /\ UNCHANGED <<totalAsset, feesEarnedFraction, assetBalance, debtVars, collateralVars,
                     rateVars, exchangeRate, pauseOptions, receiver>>
  BY DEF transfer
<1>2. IsFiniteSet(Holders) /\ u \in Holders
  BY HoldersFinite DEF Holders
<1>3. balanceOf \in [Holders -> Nat]
  BY DEF IInv, AssetInv
<1>4. balanceOf' \in [Holders -> Nat] /\ SumOver(balanceOf') = SumOver(balanceOf)
  <2>1. balanceOf' = [balanceOf EXCEPT ![u] = balanceOf[u] - amount,
                                       ![to] = balanceOf[to] + amount]
    BY <1>1, <1>2, <1>3
  <2>2. amount <= balanceOf[u] /\ u # to
    BY <1>1
  <2>3. balanceOf[u] - amount \in Nat /\ balanceOf[to] + amount \in Nat
    BY <1>2, <1>3, <2>2
  <2>4. balanceOf' \in [Holders -> Nat]
    BY <1>3, <2>1, <2>3
  <2>5. /\ balanceOf'[u] = balanceOf[u] - amount /\ balanceOf'[to] = balanceOf[to] + amount
        /\ \A c \in Holders : c \notin {u, to} => balanceOf'[c] = balanceOf[c]
    BY <1>2, <1>3, <2>1, <2>2
  <2>6. SumOver(balanceOf') = SumOver(balanceOf)
    BY <1>2, <1>3, <2>2, <2>4, <2>5, SumMoved
  <2> QED BY <2>4, <2>6
<1>5. AssetInv'
  BY <1>1, <1>4 DEF IInv, AssetInv, FractionsSum
<1>6. DebtInv' /\ NotDearer
  BY <1>1, DebtStill
<1>7. CollateralInv' /\ ControlInv'
  BY <1>1, CollateralUntouched DEF IInv, ControlInv, rateVars
<1>8. NoLoss
  BY <1>1, WorthStill DEF debtVars
<1> QED BY <1>5, <1>6, <1>7, <1>8 DEF StepOK, IInv

LEMMA OtherStepsOK ==
  ASSUME IInv,
         \/ UNCHANGED vars
         \/ accrue
         \/ \E rate \in ExchangeRates : updateExchangeRate(rate)
         \/ \E option \in Pausable, val \in BOOLEAN, reset \in BOOLEAN :
              updatePause(option, val, reset)
         \/ \E share \in CollateralDonations : donateCollateral(share)
         \/ \E share \in AssetDonations : donateAsset(share)
         \/ Tick
  PROVE  StepOK
<1> USE DEF assetVars, debtVars, collateralVars, rateVars
<1>1. /\ collateralBalance \in Nat /\ assetBalance \in Nat
      /\ collateralBalance <= collateralBalance /\ assetBalance <= assetBalance
      /\ ControlInv /\ elapsed \in Nat
  BY SingularityAssumption DEF IInv, CollateralInv, AssetInv, ControlInv
<1>2. CASE UNCHANGED vars
  BY <1>1, <1>2, QuietStepOK DEF vars, ControlInv
<1>3. CASE accrue
  BY <1>1, <1>3, AccrueOnlyOK DEF accrue, ControlInv
<1>4. ASSUME NEW rate \in ExchangeRates, updateExchangeRate(rate) PROVE StepOK
  BY <1>1, <1>4, QuietStepOK DEF updateExchangeRate, ControlInv
<1>5. ASSUME NEW option \in Pausable, NEW val \in BOOLEAN, NEW reset \in BOOLEAN,
             updatePause(option, val, reset)
      PROVE  StepOK
  <2>1. pauseOptions' \in [PauseType -> BOOLEAN]
    BY <1>1, <1>5 DEF updatePause, ControlInv
  <2>2. CASE val
    BY <1>5, <2>1, <2>2, AccrueOnlyOK DEF updatePause
  <2>3. CASE ~val
    <3>1. /\ elapsed' = 0 \/ elapsed' = elapsed
          /\ UNCHANGED <<assetVars, debtVars, collateralVars, interestPerSecond,
                         exchangeRate, receiver>>
      BY <1>5, <2>3 DEF updatePause
    <3>2. elapsed' \in 0..MaxElapsed
      BY <1>1, <3>1, SingularityAssumption DEF ControlInv
    <3> QED BY <1>1, <2>1, <3>1, <3>2, QuietStepOK DEF ControlInv
  <2> QED BY <2>2, <2>3
<1>6. ASSUME NEW share \in CollateralDonations, donateCollateral(share) PROVE StepOK
  <2>1. share \in Nat
    BY SingularityAssumption
  <2> QED BY <1>1, <1>6, <2>1, QuietStepOK DEF donateCollateral, ControlInv
<1>7. ASSUME NEW share \in AssetDonations, donateAsset(share) PROVE StepOK
  <2>1. share \in Nat
    BY SingularityAssumption
  <2> QED BY <1>1, <1>7, <2>1, QuietStepOK DEF donateAsset, ControlInv
<1>8. CASE Tick
  <2>1. elapsed' \in 0..MaxElapsed
    BY <1>1, <1>8, SingularityAssumption DEF Tick, ControlInv
  <2> QED BY <1>1, <1>8, <2>1, QuietStepOK DEF Tick, ControlInv
<1> QED BY <1>2, <1>3, <1>4, <1>5, <1>6, <1>7, <1>8


-----------------------------------------------------------------------------
(* Lending. *)

(* The parts of a lending call that touch neither debt nor collateral. *)
LEMMA LendingKeeps ==
  ASSUME IInv, Accrues, totalBorrow' = accruedBorrow,
         UNCHANGED <<userBorrowPart, collateralVars, exchangeRate, pauseOptions, receiver>>
  PROVE  DebtInv' /\ NotDearer /\ CollateralInv' /\ ControlInv'
<1>1. DebtInv' /\ NotDearer
  BY DebtCharged
<1>2. CollateralInv'
  BY CollateralUntouched
<1>3. exchangeRate' \in ExchangeRates
  BY DEF IInv, ControlInv
<1>4. ControlInv'
  BY <1>3, ControlKept
<1> QED BY <1>1, <1>2, <1>4

(* Shares the market takes cover what the pool counts, skimmed or not. *)
LEMMA TakenIsCovered ==
  ASSUME IInv, NEW share \in Nat, NEW skim \in BOOLEAN, TakesAsset(share, skim)
  PROVE  assetBalance' \in Nat /\ totalAsset.elastic + share <= assetBalance'
<1>1. totalAsset.elastic \in Nat /\ assetBalance \in Nat /\ totalAsset.elastic <= assetBalance
  BY UintAssumption DEF IInv, AssetInv, RebaseType
<1>2. CASE skim
  <2>1. share <= assetBalance - totalAsset.elastic /\ assetBalance' = assetBalance
    BY <1>2 DEF TakesAsset
  <2> QED BY <1>1, <2>1
<1>3. CASE ~skim
  <2>1. assetBalance' = assetBalance + share
    BY <1>3 DEF TakesAsset
  <2> QED BY <1>1, <2>1
<1> QED BY <1>2, <1>3

LEMMA AddAssetOK ==
  ASSUME IInv, NEW u \in Users, NEW share \in Nat, NEW skim \in BOOLEAN, addAsset(u, share, skim)
  PROVE  StepOK
<1> DEFINE fr == fractionFor(share)
           W == allShare(accruedAsset, accruedBorrow)
           B == accruedAsset.base
           A == totalAsset.elastic
           owed == toShare(accruedBorrow.elastic)
<1>1. /\ Accrues /\ AccruesFees /\ totalBorrow' = accruedBorrow
      /\ UNCHANGED <<userBorrowPart, collateralVars, exchangeRate, pauseOptions, receiver>>
  BY DEF addAsset
<1>2. DebtInv' /\ NotDearer /\ CollateralInv' /\ ControlInv'
  BY <1>1, LendingKeeps
<1>3. CASE Add(accruedAsset, share, fr).base < MinFractions
  <2>1. totalAsset' = accruedAsset /\ UNCHANGED <<balanceOf, assetBalance>>
    BY <1>3 DEF addAsset
  <2>2. AssetInv' /\ NoLoss
    BY <1>1, <2>1, PoolCharged, JustAccrued
  <2> QED BY <1>2, <2>2 DEF StepOK, IInv
<1>4. CASE ~(Add(accruedAsset, share, fr).base < MinFractions)
  <2>1. /\ Fits(Add(accruedAsset, share, fr))
        /\ totalAsset' = Add(accruedAsset, share, fr)
        /\ balanceOf' = [balanceOf EXCEPT ![u] = @ + fr]
        /\ TakesAsset(share, skim)
    BY <1>4 DEF addAsset
  <2>2. /\ W \in Nat /\ W = A + owed /\ A \in Nat /\ owed \in Nat
        /\ B \in Nat /\ totalAsset.base \in Nat /\ totalAsset.base <= B
    BY <1>1, AccruedWorth, Zenon
  <2>3. fr = IF W = 0 THEN share ELSE (share * B) \div W
    BY Zenon DEF fractionFor
  <2>4. accruedAsset.elastic = A
    BY <1>1, AccrualFacts
  <2>5. totalBorrow'.elastic = accruedBorrow.elastic
    BY <1>1
  <2> HIDE DEF W, B
  <2>6. fr \in Nat /\ W * (B + fr) <= (W + share) * B
    <3>1. CASE W = 0
      <4>1. fr = share
        BY <2>3, <3>1
      <4> QED BY <2>2, <3>1, <4>1
    <3>2. CASE W # 0
      <4>1. fr = (share * B) \div W /\ W > 0
        BY <2>2, <2>3, <3>2
      <4> QED BY <2>2, <4>1, PaidFraction
    <3> QED BY <3>1, <3>2
  <2> HIDE DEF fr
  <2>7. assetBalance' \in Nat /\ A + share <= assetBalance'
    BY <2>1, TakenIsCovered
  <2>8. AssetInv'
    BY <1>1, <2>1, <2>6, <2>7, PoolGrows DEF AccruesFees, Holders
  <2>9. CASE receiver # {}
    BY <1>1, <1>2, <2>8, <2>9, ReceiverRuns DEF StepOK, IInv
  <2>10. CASE receiver = {}
    <3>1. totalAsset'.elastic = A + share /\ totalAsset'.base = B + fr
      BY <2>1, <2>4 DEF Add, B
    <3>2. worth' = totalAsset'.elastic + owed + 0
      BY <1>1, <2>5, <2>10, WorthAfter, Zenon
    <3> HIDE DEF owed, A
    <3>3. worth' = W + share /\ W + share \in Nat /\ B + fr \in Nat
      BY <2>2, <2>6, <3>1, <3>2
    <3>4. totalAsset.base > 0 => B + fr > 0
      BY <2>2, <2>6
    <3>5. NoLoss
      BY <1>1, <2>6, <2>10, <3>1, <3>3, <3>4, SharesKept DEF W, B
    <3> QED BY <1>2, <2>8, <3>5 DEF StepOK, IInv
  <2> QED BY <2>9, <2>10
<1> QED BY <1>3, <1>4


(* Whoever removes fractions, those it had or has just been given, gets no *)
(* more shares than they are worth.                                        *)
LEMMA RemovalKeeps ==
  ASSUME IInv, NEW h \in Holders, NEW given \in Nat, NEW earned \in Nat,
         NEW asset \in RebaseType, asset.elastic = totalAsset.elastic,
         asset.base = totalAsset.base + earned,
         NEW debt \in RebaseType,
         feesEarnedFraction' \in Nat, feesEarnedFraction' + given = feesEarnedFraction + earned,
         NEW fraction \in Nat, NEW balance,
         balance = [balanceOf EXCEPT ![h] = balanceOf[h] + given],
         Removes(h, fraction, balance, asset, debt)
  PROVE  /\ AssetInv'
         /\ totalAsset'.base \in Nat /\ totalAsset'.elastic + toShare(debt.elastic) \in Nat
         /\ asset.base > 0 => totalAsset'.base > 0
         /\ allShare(asset, debt) * totalAsset'.base
              <= (totalAsset'.elastic + toShare(debt.elastic)) * asset.base
<1> DEFINE A == asset.elastic
           B == asset.base
           W == allShare(asset, debt)
           owed == toShare(debt.elastic)
           owned == balanceOf[h]
           share == shareOf(fraction, asset, debt)
<1>1. /\ A \in Nat /\ B \in Nat /\ UINT128_MAX \in Nat /\ A <= UINT128_MAX /\ B <= UINT128_MAX
      /\ asset = [elastic |-> A, base |-> B] /\ debt.elastic \in Nat
  BY UintAssumption DEF RebaseType
<1>2. /\ assetBalance \in Nat /\ A <= assetBalance /\ feesEarnedFraction \in Nat
      /\ balanceOf \in [Holders -> Nat] /\ owned \in Nat /\ totalAsset.base \in Nat
  BY UintAssumption DEF IInv, AssetInv, RebaseType
<1>3. owed \in Nat
  BY <1>1, ShareRoundTrip, Zenon
<1>4. W = A + owed
  BY Zenon DEF allShare
<1>5. balance[h] = owned + given
  BY <1>2
<1> HIDE DEF owed, W, owned
<1>6. W \in Nat
  BY <1>1, <1>3, <1>4
<1> DEFINE credit(v) == B - (owned + given) + v
<1>7. \A v \in Nat :
         credit(v) = totalAsset.base - owned + v - feesEarnedFraction + feesEarnedFraction'
  <2> DEFINE T == totalAsset.base
             f0 == feesEarnedFraction
             f1 == feesEarnedFraction'
  <2>1. B = T + earned /\ f1 + given = f0 + earned /\ T \in Nat /\ f0 \in Nat /\ f1 \in Nat
    BY <1>2
  <2> HIDE DEF B, T, f0, f1
  <2>2. \A v \in Nat : B - (owned + given) + v = T - owned + v - f0 + f1
    BY <1>1, <1>2, <2>1
  <2> QED BY <2>2 DEF T, f0, f1
<1>8. CASE B = 0
  <2>1. totalAsset' = asset /\ balanceOf' = balance /\ assetBalance' = assetBalance
    BY <1>8 DEF Removes
  <2>2. balanceOf' = [balanceOf EXCEPT ![h] = owned + given]
    BY <2>1 DEF owned
  <2>3. /\ owned + given \in Nat
        /\ B = totalAsset.base - owned + (owned + given) - feesEarnedFraction + feesEarnedFraction'
    <3>1. owned + given \in Nat
      BY <1>2
    <3>2. credit(owned + given) = B
      <4> HIDE DEF B
      <4> QED BY <1>1, <3>1
    <3> HIDE DEF credit
    <3> QED BY <1>7, <3>1, <3>2
  <2>4. AssetStep(h, owned + given)
    BY <1>2, <2>1, <2>2, <2>3 DEF AssetStep, owned
  <2>5. AssetInv'
    BY <2>4, AssetStepKeeps
  <2>6. totalAsset'.base = B /\ totalAsset'.elastic + owed = W
    BY <1>1, <1>4, <2>1
  <2>7. B \in Nat /\ W \in Nat /\ (B > 0 => B > 0) /\ W * B <= W * B
    BY <1>1, <1>6
  <2> QED BY <2>5, <2>6, <2>7, Zenon DEF W, owed
<1>9. CASE B # 0
  <2>1. /\ Sub(asset, share, fraction).base >= MinFractions
        /\ fraction <= balance[h]
        /\ Sub(asset, share, fraction).elastic >= 0
        /\ totalAsset' = Sub(asset, share, fraction)
        /\ balanceOf' = [balance EXCEPT ![h] = @ - fraction]
        /\ assetBalance' = assetBalance - share
    BY <1>9 DEF Removes
  <2>2. share = (fraction * W) \div B
    BY Zenon DEF shareOf, W
  <2> HIDE DEF share
  <2>3. share \in Nat /\ B * share <= fraction * W
    <3>1. B > 0 /\ fraction * W \in Nat
      BY <1>1, <1>6, <1>9
    <3> HIDE DEF B
    <3> QED BY <1>1, <2>2, <3>1, FloorDiv
  <2>4. totalAsset' = [elastic |-> A - share, base |-> B - fraction]
    BY <2>1 DEF Sub
  <2>5. /\ B - fraction >= MinFractions /\ A - share >= 0
        /\ totalAsset'.elastic = A - share /\ totalAsset'.base = B - fraction
    BY <2>1, <2>4 DEF Sub
  <2>6. MinFractions \in Nat /\ MinFractions > 0
    BY SingularityAssumption
  <2>7. totalAsset' \in RebaseType
    BY <1>1, <2>3, <2>4, <2>5, <2>6 DEF RebaseType
  <2> DEFINE v == owned + given - fraction
  <2>8. balanceOf' = [balanceOf EXCEPT ![h] = v]
    <3>1. balanceOf' = [balance EXCEPT ![h] = v]
      <4>1. balanceOf' = [balance EXCEPT ![h] = balance[h] - fraction]
        BY <2>1, Zenon
      <4>2. balance[h] - fraction = v
        BY <1>2, <1>5
      <4> QED BY <4>1, <4>2, Zenon
    <3> HIDE DEF v
    <3> QED BY <1>2, <3>1
  <2>9. fraction <= owned + given
    BY <1>5, <2>1
  <2>10. /\ v \in Nat
         /\ B - fraction = totalAsset.base - owned + v - feesEarnedFraction + feesEarnedFraction'
    <3>1. v \in Nat
      BY <1>2, <2>9
    <3>2. credit(v) = B - fraction
      <4> HIDE DEF B
      <4> QED BY <1>1, <1>2, <2>9
    <3> HIDE DEF credit, v
    <3> QED BY <1>7, <3>1, <3>2
  <2> HIDE DEF v
  <2>11. assetBalance' \in Nat /\ totalAsset'.elastic <= assetBalance'
    BY <1>1, <1>2, <2>1, <2>3, <2>5
  <2>12. AssetStep(h, v)
    BY <2>5, <2>7, <2>8, <2>10, <2>11 DEF AssetStep, owned
  <2>13. AssetInv'
    BY <2>12, AssetStepKeeps
  <2> DEFINE b == B - fraction
             w == W - share
  <2>14. totalAsset'.base = b /\ totalAsset'.elastic + owed = w
    BY <1>1, <1>3, <1>4, <2>3, <2>5
  <2>15. b \in Nat /\ w \in Nat /\ b > 0
    BY <1>1, <1>3, <1>4, <2>3, <2>5, <2>6
  <2>16. W * b <= w * B
    <3>1. W * b = W * B - fraction * W /\ w * B = W * B - B * share
      BY <1>1, <1>6, <2>3
    <3> HIDE DEF w, b
    <3> QED BY <1>1, <1>6, <2>3, <2>15, <3>1
  <2> HIDE DEF w, b
  <2>17. totalAsset'.base > 0
    BY <2>14, <2>15
  <2> QED BY <2>13, <2>14, <2>15, <2>16, <2>17, Zenon DEF W, owed
<1> QED BY <1>8, <1>9

(* After an accrual. *)
LEMMA RemovalOK ==
  ASSUME IInv, Accrues, totalBorrow' = accruedBorrow,
         UNCHANGED <<userBorrowPart, collateralVars, exchangeRate, pauseOptions, receiver>>,
         NEW h \in Holders, NEW given \in Nat, NEW fraction \in Nat, NEW balance,
         feesEarnedFraction' \in Nat,
         feesEarnedFraction' + given = feesEarnedFraction + accruedFraction,
         balance = [balanceOf EXCEPT ![h] = balanceOf[h] + given],
         Removes(h, fraction, balance, accruedAsset, accruedBorrow)
  PROVE  StepOK
<1>1. DebtInv' /\ NotDearer /\ CollateralInv' /\ ControlInv'
  BY LendingKeeps
<1>2. /\ accruedFraction \in Nat /\ accruedAsset \in RebaseType /\ accruedBorrow \in RebaseType
      /\ accruedAsset.elastic = totalAsset.elastic
      /\ accruedAsset.base = totalAsset.base + accruedFraction
  BY AccrualFacts
<1> DEFINE b == totalAsset'.base
           w == totalAsset'.elastic + toShare(accruedBorrow.elastic)
           W == allShare(accruedAsset, accruedBorrow)
           B == accruedAsset.base
<1>3. /\ AssetInv' /\ b \in Nat /\ w \in Nat
      /\ B > 0 => b > 0
      /\ W * b <= w * B
  BY <1>2, RemovalKeeps
<1>4. CASE receiver # {}
  BY <1>1, <1>3, <1>4, ReceiverRuns DEF StepOK, IInv
<1>5. CASE receiver = {}
  <2>1. totalBorrow'.elastic = accruedBorrow.elastic
    OBVIOUS
  <2>2. worth' = w + 0
    BY <1>5, <2>1, WorthAfter, Zenon
  <2>3. totalAsset.base \in Nat /\ totalAsset.base <= B /\ B \in Nat
    BY AccruedWorth, Zenon
  <2>4. totalAsset.base > 0 => b > 0
    <3> HIDE DEF b, B
    <3> QED BY <1>3, <2>3
  <2> HIDE DEF w
  <2>5. worth' = w
    BY <1>3, <2>2
  <2> HIDE DEF W
  <2>6. NoLoss
    BY <1>3, <1>5, <2>4, <2>5, SharesKept DEF W
  <2> QED BY <1>1, <1>3, <2>6 DEF StepOK, IInv
<1> QED BY <1>4, <1>5

LEMMA RemoveAssetOK ==
  ASSUME IInv, NEW u \in Users, NEW fraction \in Nat, removeAsset(u, fraction)
  PROVE  StepOK
<1>1. /\ Accrues /\ feesEarnedFraction' = feesEarnedFraction + accruedFraction
      /\ Removes(u, fraction, balanceOf, accruedAsset, accruedBorrow)
      /\ totalBorrow' = accruedBorrow
      /\ UNCHANGED <<userBorrowPart, collateralVars, exchangeRate, pauseOptions, receiver>>
  BY DEF removeAsset, AccruesFees
<1>2. accruedFraction \in Nat
  BY <1>1, AccrualFacts
<1>3. u \in Holders /\ 0 \in Nat
  BY DEF Holders
<1>4. balanceOf \in [Holders -> Nat] /\ feesEarnedFraction \in Nat
  BY DEF IInv, AssetInv
<1>5. /\ feesEarnedFraction' \in Nat
      /\ feesEarnedFraction' + 0 = feesEarnedFraction + accruedFraction
  BY <1>1, <1>2, <1>4
<1>6. balanceOf = [balanceOf EXCEPT ![u] = balanceOf[u] + 0]
  BY <1>3, <1>4
<1> QED BY <1>1, <1>3, <1>5, <1>6, RemovalOK

LEMMA RefreshPenroseFeesOK ==
  ASSUME IInv, refreshPenroseFees
  PROVE  StepOK
<1>1. /\ receiver = {} /\ Penrose \in Holders
      /\ UNCHANGED <<userBorrowPart, collateralVars, exchangeRate, pauseOptions, receiver>>
  BY HoldersFinite DEF refreshPenroseFees, NotEntered
<1>2. /\ balanceOf \in [Holders -> Nat] /\ feesEarnedFraction \in Nat
      /\ balanceOf[Penrose] \in Nat /\ totalAsset \in RebaseType /\ totalBorrow \in RebaseType
      /\ totalAsset.base \in Nat
  BY <1>1, UintAssumption DEF IInv, AssetInv, DebtInv, RebaseType
<1>3. CASE WithdrawsEarned
  <2> DEFINE earned == feesEarnedFraction + accruedFraction
             balance == [balanceOf EXCEPT ![Penrose] = balanceOf[Penrose] + earned]
             fraction == balance[Penrose]
  <2>1. /\ Accrues /\ feesEarnedFraction' = 0 /\ totalBorrow' = accruedBorrow
        /\ Removes(Penrose, fraction, balance, accruedAsset, accruedBorrow)
    BY <1>3 DEF WithdrawsEarned
  <2>2. earned \in Nat
    BY <1>2, <2>1, AccrualFacts
  <2>3. fraction \in Nat
    BY <1>1, <1>2, <2>2
  <2>4. /\ feesEarnedFraction' \in Nat
        /\ feesEarnedFraction' + earned = feesEarnedFraction + accruedFraction
    BY <2>1, <2>2
  <2>5. balance = [balanceOf EXCEPT ![Penrose] = balanceOf[Penrose] + earned]
    OBVIOUS
  <2> HIDE DEF balance, fraction, earned
  <2> QED BY <1>1, <2>1, <2>2, <2>3, <2>4, <2>5, RemovalOK
<1>4. CASE WithdrawsHeld
  <2> DEFINE b == totalAsset'.base
             w == totalAsset'.elastic + toShare(totalBorrow.elastic)
             W == allShare(totalAsset, totalBorrow)
             B == totalAsset.base
  <2>1. /\ Removes(Penrose, balanceOf[Penrose], balanceOf, totalAsset, totalBorrow)
        /\ UNCHANGED <<totalBorrow, feesEarnedFraction, rateVars>>
    BY <1>4 DEF WithdrawsHeld
  <2>2. balanceOf = [balanceOf EXCEPT ![Penrose] = balanceOf[Penrose] + 0]
    BY <1>1, <1>2
  <2>3. /\ totalAsset.base = totalAsset.base + 0 /\ feesEarnedFraction' \in Nat
        /\ feesEarnedFraction' + 0 = feesEarnedFraction + 0 /\ 0 \in Nat
    BY <1>2, <2>1
  <2>4. /\ AssetInv' /\ b \in Nat /\ w \in Nat
        /\ B > 0 => b > 0
        /\ W * b <= w * B
    BY <1>1, <1>2, <2>1, <2>2, <2>3, RemovalKeeps
  <2>5. DebtInv' /\ NotDearer
    BY <1>1, <2>1, DebtStill DEF debtVars
  <2>6. CollateralInv' /\ ControlInv'
    BY <1>1, <2>1, CollateralUntouched DEF IInv, ControlInv, rateVars
  <2>7. W \in Nat
    BY WorthNat
  <2>8. worth = W + 0
    BY <1>1 DEF worth, due
  <2>9. worth' = w + 0
    <3>1. totalBorrow'.elastic = totalBorrow.elastic /\ receiver' = {}
      BY <1>1, <2>1
    <3> QED BY <3>1, WorthAfter, Zenon
  <2> HIDE DEF W, w, b
  <2>10. worth = W /\ worth' = w
    BY <2>4, <2>7, <2>8, <2>9
  <2>11. NoLoss
    BY <1>2, <2>4, <2>7, <2>10, PriceKept DEF b
  <2> QED BY <2>4, <2>5, <2>6, <2>11 DEF StepOK, IInv
<1> QED BY <1>3, <1>4 DEF refreshPenroseFees


-----------------------------------------------------------------------------
(* Borrowing and repaying, with or without leverage. *)

(* The pool gives tokens for debt, and Penrose's fractions are paid with   *)
(* the opening fee.                                                        *)
LEMMA BorrowsKeeps ==
  ASSUME IInv, NEW u \in Users, NEW amount \in Nat, Accrues, AccruesFees,
         receiver = {}, UNCHANGED receiver, Borrows(u, amount)
  PROVE  DebtInv' /\ NotDearer /\ AssetInv' /\ NoLoss
<1> DEFINE fee == feeOf(amount, borrowOpeningFee)
           x == amount + fee
           part == borrowPart(x)
           fr == openingFraction(fee)
           s == toShare(amount)
           A == totalAsset.elastic
           B == accruedAsset.base
           D == accruedBorrow.elastic
           W == allShare(accruedAsset, accruedBorrow)
           full == fullAssetAmount(accruedAsset, accruedBorrow)
           S == SharesPerAmount
<1>1. /\ B >= MinFractions
      /\ accruedAsset.elastic - s >= 0
      /\ Fits([elastic |-> accruedAsset.elastic - s, base |-> B + fr])
      /\ Fits(Add(accruedBorrow, x, part))
      /\ totalBorrow' = Add(accruedBorrow, x, part)
      /\ totalAsset' = [elastic |-> accruedAsset.elastic - s, base |-> B + fr]
      /\ userBorrowPart' = [userBorrowPart EXCEPT ![u] = @ + part]
      /\ balanceOf' = [balanceOf EXCEPT ![Penrose] = @ + fr]
      /\ assetBalance' = assetBalance - s
  BY Zenon DEF Borrows
<1>2. fee \in Nat
  BY SingularityAssumption, FeeOfBounded, Zenon
<1>3. fee <= amount
  BY SingularityAssumption, FeeOfBounded, Zenon
<1>4. s \in Nat
  BY ShareRoundTrip, Zenon
<1>5. /\ W \in Nat /\ W = A + toShare(D) /\ A \in Nat /\ D \in Nat
      /\ B \in Nat /\ totalAsset.base \in Nat /\ totalAsset.base <= B
  BY AccruedWorth, Zenon
<1>6. /\ accruedAsset \in RebaseType /\ accruedBorrow \in RebaseType
      /\ accruedAsset.elastic = A /\ accruedFraction \in Nat
      /\ B = totalAsset.base + accruedFraction
  BY AccrualFacts
<1>7. full \in Nat /\ S \in Nat /\ S > 0 /\ S * full <= W /\ W < S * full + S
  BY <1>6, PoolFacts, Zenon
<1>8. s = amount * S /\ toShare(D) = D * S /\ toShare(D + x) = (D + x) * S
  BY Zenon DEF toShare
<1>9. MinFractions \in Nat /\ MinFractions > 0
  BY SingularityAssumption
<1>10. fr = IF fee = 0 THEN 0 ELSE (fee * B) \div full
  BY Zenon DEF openingFraction
<1>11. x \in Nat /\ totalBorrow'.elastic = D + x
  <2>1. x \in Nat
    BY <1>2
  <2>2. totalBorrow'.elastic = D + x
    BY <1>1 DEF Add
  <2> QED BY <2>1, <2>2
<1>12. DebtInv' /\ NotDearer
  <2>1. \E v : DebtStep(u, v)
    BY <1>1, <1>11, LoanIsDebtStep
  <2> QED BY <2>1, DebtStepKeeps
<1> HIDE DEF s, fr, W, full, fee, A, B, D, S
<1>13. s <= A
  BY <1>1, <1>4, <1>5, <1>6
<1>14. fee # 0 => full > 0
  <2> SUFFICES ASSUME fee # 0 PROVE full > 0
    OBVIOUS
  <2>1. amount > 0
    BY <1>2, <1>3
  <2>2. amount * S >= S
    BY <1>7, <2>1
  <2>3. D * S \in Nat
    BY <1>5, <1>7
  <2>4. W >= S
    BY <1>4, <1>5, <1>7, <1>8, <1>13, <2>2, <2>3
  <2>5. S * full > 0
    BY <1>5, <1>7, <2>4
  <2> QED BY <1>7, <2>5
<1>15. fr \in Nat /\ full * (B + fr) <= (full + fee) * B
  <2>1. CASE fee = 0
    <3>1. fr = 0
      BY <1>10, <2>1
    <3> QED BY <1>5, <1>7, <2>1, <3>1
  <2>2. CASE fee # 0
    <3>1. fr = (fee * B) \div full
      BY <1>10, <2>2
    <3> QED BY <1>2, <1>5, <1>7, <1>14, <2>2, <3>1, PaidFraction
  <2> QED BY <2>1, <2>2
<1>16. totalAsset'.elastic = A - s /\ totalAsset'.base = B + fr
  BY <1>1, <1>6
<1>17. AssetInv'
  <2>1. totalAsset' \in RebaseType
    <3>1. A - s <= UINT128_MAX /\ B + fr <= UINT128_MAX
      BY <1>1, <1>6 DEF Fits
    <3>2. totalAsset' = [elastic |-> A - s, base |-> B + fr]
      BY <1>1, <1>6
    <3>3. A - s \in Nat /\ B + fr \in Nat
      BY <1>4, <1>5, <1>13, <1>15
    <3> QED BY <3>1, <3>2, <3>3, UintAssumption DEF RebaseType
  <2> DEFINE owned == balanceOf[Penrose]
  <2>2. /\ owned \in Nat /\ feesEarnedFraction \in Nat /\ assetBalance \in Nat
        /\ A <= assetBalance /\ Penrose \in Holders
    BY HoldersFinite DEF IInv, AssetInv, A
  <2>3. feesEarnedFraction' = feesEarnedFraction + accruedFraction
    BY DEF AccruesFees
  <2>4. balanceOf' = [balanceOf EXCEPT ![Penrose] = owned + fr]
    BY <1>1
  <2> HIDE DEF owned
  <2>5. /\ feesEarnedFraction' \in Nat /\ owned + fr \in Nat
        /\ B + fr = totalAsset.base - owned + (owned + fr)
                      - feesEarnedFraction + feesEarnedFraction'
    BY <1>5, <1>6, <1>15, <2>2, <2>3
  <2>6. assetBalance' \in Nat /\ A - s <= assetBalance'
    BY <1>1, <1>4, <1>5, <1>13, <2>2
  <2>7. AssetStep(Penrose, owned + fr)
    BY <1>16, <2>1, <2>4, <2>5, <2>6 DEF AssetStep, owned
  <2> QED BY <2>2, <2>7, AssetStepKeeps
<1>18. NoLoss
  <2> DEFINE w == W + S * fee
             b == B + fr
             f == full + fee
  <2>1. worth' = totalAsset'.elastic + toShare(totalBorrow'.elastic) + 0
    BY WorthAfter
  <2>2. worth' = (A - s) + (D + x) * S + 0
    BY <1>8, <1>11, <1>16, <2>1
  <2>3. (A - s) + (D + x) * S + 0 = w
    <3>1. (D + x) * S = D * S + amount * S + S * fee
      BY <1>2, <1>5, <1>7
    <3>2. D * S \in Nat /\ amount * S \in Nat /\ S * fee \in Nat
      BY <1>2, <1>5, <1>7
    <3> HIDE DEF x
    <3> QED BY <1>5, <1>8, <3>1, <3>2
  <2>4. w \in Nat /\ b \in Nat /\ f \in Nat /\ b > 0
    BY <1>1, <1>2, <1>5, <1>7, <1>9, <1>15
  <2>5. S * f <= w
    <3>1. S * f = S * full + S * fee /\ S * fee \in Nat /\ S * full \in Nat
      BY <1>2, <1>7
    <3> QED BY <1>5, <1>7, <3>1
  <2>6. full * b <= f * B
    BY <1>15
  <2>7. worth' = w /\ totalAsset'.base = b
    BY <1>16, <2>2, <2>3
  <2>8. totalAsset.base > 0 => b > 0
    BY <2>4
  <2> HIDE DEF w, b, f
  <2> QED BY <2>4, <2>5, <2>6, <2>7, <2>8, TokensKept DEF S, full, B
<1> QED BY <1>12, <1>17, <1>18

LEMMA BorrowOK ==
  ASSUME IInv, NEW u \in Users, NEW amount \in Nat, NEW rate \in ExchangeRates,
         borrow(u, amount, rate)
  PROVE  StepOK
<1>1. /\ receiver = {} /\ Borrows(u, amount) /\ Accrues /\ AccruesFees /\ exchangeRate' = rate
      /\ UNCHANGED <<collateralVars, pauseOptions, receiver>>
  BY Zenon DEF borrow, Solvent, NotEntered
<1>2. DebtInv' /\ NotDearer /\ AssetInv' /\ NoLoss
  BY <1>1, BorrowsKeeps
<1>3. CollateralInv' /\ ControlInv'
  BY <1>1, CollateralUntouched, ControlKept
<1> QED BY <1>2, <1>3 DEF StepOK, IInv

LEMMA BuyCollateralOK ==
  ASSUME IInv, NEW u \in Users, NEW amount \in Nat, NEW out \in Nat, NEW rate \in ExchangeRates,
         buyCollateral(u, amount, out, rate)
  PROVE  StepOK
<1> DEFINE share == toShare(out)
<1>1. share \in Nat
  BY ShareRoundTrip
<1>2. /\ receiver = {} /\ Borrows(u, amount) /\ Accrues /\ AccruesFees /\ exchangeRate' = rate
      /\ userCollateralShare' = [userCollateralShare EXCEPT ![u] = userCollateralShare[u] + share]
      /\ totalCollateralShare' = totalCollateralShare + share
      /\ collateralBalance' = collateralBalance + share
      /\ UNCHANGED <<pauseOptions, receiver>>
  BY Zenon DEF buyCollateral, Solvent, NotEntered
<1> HIDE DEF share
<1>3. DebtInv' /\ NotDearer /\ AssetInv' /\ NoLoss
  BY <1>2, BorrowsKeeps
<1>4. collateralBalance' \in Nat /\ totalCollateralShare + share <= collateralBalance'
  BY <1>1, <1>2 DEF IInv, CollateralInv
<1>5. CollateralInv'
  BY <1>1, <1>2, <1>4, InflowKeeps
<1>6. ControlInv'
  BY <1>2, ControlKept
<1> QED BY <1>3, <1>5, <1>6 DEF StepOK, IInv


(* What a part is repaid with goes back to the pool, to the last share. *)
LEMMA RepaymentKeeps ==
  ASSUME IInv, Accrues, AccruesFees, receiver = {}, UNCHANGED <<balanceOf, receiver>>,
         NEW u \in Users, NEW part \in Nat, part <= userBorrowPart[u],
         NEW amount, amount = ToElastic(accruedBorrow, part, TRUE),
         amount <= accruedBorrow.elastic,
         totalBorrow' = Sub(accruedBorrow, amount, part),
         userBorrowPart' = [userBorrowPart EXCEPT ![u] = userBorrowPart[u] - part],
         Fits(Add(accruedAsset, toShare(amount), 0)),
         totalAsset' = Add(accruedAsset, toShare(amount), 0),
         amount \in Nat =>
           assetBalance' \in Nat /\ totalAsset.elastic + toShare(amount) <= assetBalance'
  PROVE  DebtInv' /\ NotDearer /\ AssetInv' /\ NoLoss
<1> DEFINE E == accruedBorrow.elastic
           B == accruedBorrow.base
           A == totalAsset.elastic
           S == SharesPerAmount
           W == allShare(accruedAsset, accruedBorrow)
           s == toShare(amount)
<1>1. /\ accruedBorrow \in RebaseType /\ Covered(accruedBorrow)
      /\ B = totalBorrow.base /\ accruedAsset.elastic = A
  BY AccrualFacts
<1>2. E \in Nat /\ B \in Nat /\ B <= E /\ accruedBorrow \in [elastic : Nat, base : Nat]
  BY <1>1, UintAssumption DEF RebaseType, Covered
<1>3. part <= B
  <2>1. IsFiniteSet(Users) /\ DebtInv
    BY SingularityAssumption DEF IInv
  <2>2. userBorrowPart[u] \in Nat /\ userBorrowPart[u] <= totalBorrow.base
    BY <2>1, SumBounds DEF DebtInv
  <2> HIDE DEF B
  <2> QED BY <1>1, <1>2, <2>2
<1>4. amount \in Nat
  BY <1>2, ToElasticNat
<1>5. B - part <= E - amount /\ part * E <= B * amount
  <2>1. CASE B = 0
    <3>1. part = 0
      BY <1>2, <1>3, <2>1
    <3>2. amount = part
      BY <2>1, Zenon DEF ToElastic
    <3> HIDE DEF E, B
    <3>3. E \in Nat
      BY <1>2
    <3> QED BY ONLY <2>1, <3>1, <3>2, <3>3
  <2>2. CASE B # 0
    <3>1. amount = CeilDiv(part * E, B)
      BY <2>2, Zenon DEF ToElastic, RoundedDiv
    <3> HIDE DEF E, B
    <3>2. B > 0
      BY <1>2, <2>2
    <3> QED BY <1>2, <1>3, <3>1, <3>2, RepayRounding
  <2> QED BY <2>1, <2>2
<1>6. DebtInv' /\ NotDearer
  <2>1. \E v : DebtStep(u, v)
    BY <1>3, <1>4, <1>5, ReductionIsDebtStep
  <2> QED BY <2>1, DebtStepKeeps
<1>7. s \in Nat
  BY <1>4, ShareRoundTrip
<1>8. AssetInv'
  BY <1>4, <1>7, PoolRepaid
<1>9. totalAsset'.elastic = A + s /\ totalAsset'.base = accruedAsset.base
  <2>1. accruedAsset.base \in Nat
    BY AccruedWorth
  <2> QED BY <1>1, <2>1 DEF Add
<1>10. totalBorrow'.elastic = E - amount
  BY DEF Sub
<1>11. worth' = W
  <2>1. W \in Nat /\ W = A + toShare(E) /\ A \in Nat /\ E \in Nat
    BY AccruedWorth, Zenon
  <2>2. s = amount * S /\ toShare(E) = E * S /\ toShare(E - amount) = (E - amount) * S
    BY Zenon DEF toShare
  <2>3. worth' = totalAsset'.elastic + toShare(totalBorrow'.elastic) + 0
    BY WorthAfter
  <2>4. worth' = (A + s) + (E - amount) * S + 0
    BY <1>9, <1>10, <2>2, <2>3
  <2>5. S \in Nat
    BY PrecisionAssumption
  <2> HIDE DEF A, E, S, W, s
  <2>6. E \in Nat
    BY <2>1
  <2>7. (E - amount) * S = E * S - amount * S /\ E * S \in Nat /\ amount * S \in Nat
    BY ONLY <1>4, <2>5, <2>6
  <2> QED BY ONLY <1>7, <2>1, <2>2, <2>4, <2>7
<1>12. NoLoss
  BY <1>9, <1>11, WorthMoves
<1> QED BY <1>6, <1>8, <1>12

LEMMA RepaysKeeps ==
  ASSUME IInv, NEW u \in Users, NEW part \in Nat, part <= userBorrowPart[u],
         NEW skim \in BOOLEAN, Accrues, AccruesFees, receiver = {},
         UNCHANGED <<balanceOf, receiver>>, Repays(u, part, skim)
  PROVE  DebtInv' /\ NotDearer /\ AssetInv' /\ NoLoss
<1> DEFINE amount == ToElastic(accruedBorrow, part, TRUE)
<1>1. /\ amount <= accruedBorrow.elastic
      /\ Fits(Add(accruedAsset, toShare(amount), 0))
      /\ totalBorrow' = Sub(accruedBorrow, amount, part)
      /\ userBorrowPart' = [userBorrowPart EXCEPT ![u] = userBorrowPart[u] - part]
      /\ totalAsset' = Add(accruedAsset, toShare(amount), 0)
      /\ TakesAsset(toShare(amount), skim)
  BY Zenon DEF Repays
<1>2. amount \in Nat =>
        assetBalance' \in Nat /\ totalAsset.elastic + toShare(amount) <= assetBalance'
  <2> HIDE DEF amount
  <2> SUFFICES ASSUME amount \in Nat
               PROVE  assetBalance' \in Nat /\ totalAsset.elastic + toShare(amount) <= assetBalance'
    OBVIOUS
  <2>1. toShare(amount) \in Nat
    BY ShareRoundTrip
  <2> QED BY <1>1, <2>1, TakenIsCovered
<1> QED BY <1>1, <1>2, RepaymentKeeps

LEMMA RepayOK ==
  ASSUME IInv, NEW u \in Users, NEW part \in Nat, NEW skim \in BOOLEAN,
         NEW rate \in ExchangeRates, repay(u, part, skim, rate)
  PROVE  StepOK
<1> DEFINE repaid == Least(part, userBorrowPart[u])
<1>1. repaid \in Nat /\ repaid <= userBorrowPart[u]
  <2>1. userBorrowPart[u] \in Nat
    BY DEF IInv, DebtInv
  <2> QED BY <2>1, LeastNat
<1>2. /\ receiver = {} /\ Accrues /\ AccruesFees
      /\ Repays(u, repaid, skim)
      /\ exchangeRate' = rate
      /\ UNCHANGED <<balanceOf, collateralVars, pauseOptions, receiver>>
  BY DEF repay, NotEntered
<1> HIDE DEF repaid
<1>3. DebtInv' /\ NotDearer /\ AssetInv' /\ NoLoss
  BY <1>1, <1>2, RepaysKeeps
<1>4. CollateralInv' /\ ControlInv'
  BY <1>2, CollateralUntouched, ControlKept
<1> QED BY <1>3, <1>4 DEF StepOK, IInv

LEMMA SellCollateralOK ==
  ASSUME IInv, NEW u \in Users, NEW share \in Nat, NEW out \in Nat,
         NEW rate \in ExchangeRates, sellCollateral(u, share, out, rate)
  PROVE  StepOK
<1> DEFINE total == accruedBorrow
           partOwed == userBorrowPart[u]
           owed == ToElastic(total, partOwed, TRUE)
           part == IF toShare(owed) <= toShare(out) THEN partOwed
                   ELSE Least(ToBase(total, out, FALSE), partOwed)
<1>1. receiver = {} /\ Accrues /\ AccruesFees
  BY Zenon DEF sellCollateral, Solvent, NotEntered
<1>2. total \in [elastic : Nat, base : Nat]
  BY <1>1, AccrualFacts, UintAssumption DEF RebaseType
<1>3. part \in Nat /\ part <= partOwed
  <2> DEFINE affordable == ToBase(total, out, FALSE)
  <2>1. partOwed \in Nat
    BY DEF IInv, DebtInv
  <2>2. affordable \in Nat
    BY <1>2, ToBaseNat
  <2> HIDE DEF affordable
  <2>3. Least(affordable, partOwed) \in Nat /\ Least(affordable, partOwed) <= partOwed
    BY <2>1, <2>2, LeastNat
  <2>4. partOwed <= partOwed
    BY <2>1
  <2>5. part = partOwed \/ part = Least(affordable, partOwed)
    BY Zenon DEF affordable
  <2> HIDE DEF part, partOwed
  <2> QED BY <2>1, <2>3, <2>4, <2>5, Zenon
<1>4. /\ share <= userCollateralShare[u]
      /\ userCollateralShare' = [userCollateralShare EXCEPT ![u] = userCollateralShare[u] - share]
      /\ totalCollateralShare' = totalCollateralShare - share
      /\ collateralBalance' = collateralBalance - share
      /\ Repays(u, part, FALSE)
      /\ exchangeRate' = rate
      /\ UNCHANGED <<balanceOf, pauseOptions, receiver>>
  BY Zenon DEF sellCollateral, RemovesCollateral, Solvent
<1> HIDE DEF part
<1>5. DebtInv' /\ NotDearer /\ AssetInv' /\ NoLoss
  BY <1>1, <1>3, <1>4, RepaysKeeps
<1>6. CollateralInv'
  <2>1. share <= share
    OBVIOUS
  <2> QED BY <1>4, <2>1, OutflowKeeps, Zenon
<1>7. ControlInv'
  BY <1>1, <1>4, ControlKept
<1> QED BY <1>5, <1>6, <1>7 DEF StepOK, IInv

LEMMA LiquidateBadDebtOK ==
  ASSUME IInv, NEW u \in Users, NEW rate \in ExchangeRates, liquidateBadDebt(u, rate)
  PROVE  StepOK
<1> DEFINE part == userBorrowPart[u]
           share == userCollateralShare[u]
           amount == ToElastic(accruedBorrow, part, TRUE)
           sent == toShare(toAmount(share, FALSE))
<1>1. /\ receiver = {} /\ Accrues /\ AccruesFees
      /\ amount <= accruedBorrow.elastic
      /\ Fits(Add(accruedAsset, toShare(amount), 0))
      /\ totalBorrow' = Sub(accruedBorrow, amount, part)
      /\ userBorrowPart' = [userBorrowPart EXCEPT ![u] = 0]
      /\ userCollateralShare' = [userCollateralShare EXCEPT ![u] = 0]
      /\ totalCollateralShare' = totalCollateralShare - share
      /\ collateralBalance' = collateralBalance - sent
      /\ totalAsset' = Add(accruedAsset, toShare(amount), 0)
      /\ assetBalance' = assetBalance + toShare(amount)
      /\ exchangeRate' = rate
      /\ UNCHANGED <<balanceOf, pauseOptions, receiver>>
  BY Zenon DEF liquidateBadDebt, SendsCollateral, NotEntered
<1>2. part \in Nat /\ share \in Nat /\ part <= userBorrowPart[u] /\ share <= userCollateralShare[u]
  BY DEF IInv, DebtInv, CollateralInv
<1>3. /\ userBorrowPart' = [userBorrowPart EXCEPT ![u] = userBorrowPart[u] - part]
      /\ userCollateralShare' = [userCollateralShare EXCEPT ![u] = userCollateralShare[u] - share]
  <2>1. part - part = 0 /\ share - share = 0
    BY <1>2
  <2> QED BY <1>1, <2>1
<1>4. amount \in Nat =>
        assetBalance' \in Nat /\ totalAsset.elastic + toShare(amount) <= assetBalance'
  <2> HIDE DEF amount
  <2> SUFFICES ASSUME amount \in Nat
               PROVE  assetBalance' \in Nat /\ totalAsset.elastic + toShare(amount) <= assetBalance'
    OBVIOUS
  <2>1. toShare(amount) \in Nat
    BY ShareRoundTrip
  <2>2. totalAsset.elastic \in Nat /\ assetBalance \in Nat /\ totalAsset.elastic <= assetBalance
    BY UintAssumption DEF IInv, AssetInv, RebaseType
  <2> QED BY <1>1, <2>1, <2>2
<1>5. DebtInv' /\ NotDearer /\ AssetInv' /\ NoLoss
  BY <1>1, <1>2, <1>3, <1>4, RepaymentKeeps
<1>6. CollateralInv'
  <2>1. sent \in Nat /\ sent <= share
    BY <1>2, SendsAtMost
  <2> HIDE DEF sent
  <2> QED BY <1>1, <1>2, <1>3, <2>1, OutflowKeeps
<1>7. ControlInv'
  BY <1>1, ControlKept
<1> QED BY <1>5, <1>6, <1>7 DEF StepOK, IInv


-----------------------------------------------------------------------------
(* Liquidation, and the receiver's return. *)

LEMMA MinReturnedNat ==
  ASSUME NEW share \in Nat, NEW rate \in Nat \ {0}
  PROVE  minReturned(share, rate) \in Nat
<1> DEFINE tokens == toAmount(share, FALSE)
           receivable == (tokens * EXCHANGE_RATE_PRECISION) \div rate
<1>1. tokens \in Nat
  BY WholeTokens, Zenon
<1>2. minReturned(share, rate) = receivable - feeOf(receivable, maxLiquidationSlippage)
  BY Zenon DEF minReturned
<1>3. receivable \in Nat
  <2>1. EXCHANGE_RATE_PRECISION \in Nat
    BY PrecisionAssumption
  <2> HIDE DEF tokens
  <2>2. tokens * EXCHANGE_RATE_PRECISION \in Nat
    BY <1>1, <2>1
  <2> QED BY <2>2, FloorDiv
<1> HIDE DEF receivable
<1>4. /\ feeOf(receivable, maxLiquidationSlippage) \in Nat
      /\ feeOf(receivable, maxLiquidationSlippage) <= receivable
  BY <1>3, RateAssumption, FeeOfBounded
<1> QED BY <1>2, <1>3, <1>4

LEMMA LiquidateOK ==
  ASSUME IInv, NEW u \in Users, NEW limit \in Nat, NEW bonus \in Nat,
         NEW rate \in ExchangeRates, liquidate(u, limit, bonus, rate)
  PROVE  StepOK
<1> DEFINE total == accruedBorrow
           part == userBorrowPart[u]
           share == userCollateralShare[u]
           reward == getCallerReward(part, share, total, rate)
<1>1. /\ receiver = {} /\ Accrues /\ AccruesFees /\ closingDenominator # 0
      /\ totalAsset' = accruedAsset /\ exchangeRate' = rate
      /\ UNCHANGED <<balanceOf, assetBalance, pauseOptions>>
  BY Zenon DEF liquidate, NotEntered
<1>2. /\ DebtInv /\ IsFiniteSet(Users)
      /\ total \in RebaseType /\ Covered(total) /\ total.base = totalBorrow.base
  BY <1>1, AccrualFacts, SingularityAssumption DEF IInv
<1>3. part \in Nat /\ part <= totalBorrow.base /\ share \in Nat
  BY <1>2, SumBounds DEF DebtInv, IInv, CollateralInv
<1>4. part > 0
  <2>1. part # 0
    BY DEF liquidate, isSolvent
  <2> QED BY <1>3, <2>1
<1>5. rate \in Nat \ {0}
  BY SingularityAssumption
<1>6. PICK cut \in liquidationCut(part, share, total, rate, limit, bonus) :
        /\ totalBorrow' = Sub(total, cut.amount, cut.part)
        /\ userBorrowPart' = [userBorrowPart EXCEPT ![u] = userBorrowPart[u] - cut.part]
        /\ userCollateralShare' = [userCollateralShare EXCEPT ![u] = userCollateralShare[u] - cut.share]
        /\ totalCollateralShare' = IF totalCollateralShare > cut.share
                                   THEN totalCollateralShare - cut.share ELSE 0
        /\ SendsCollateral(cut.share)
        /\ receiver' = {[amount |-> cut.amount, least |-> minReturned(cut.share, rate),
                         reward |-> reward]}
  BY Zenon DEF liquidate
<1>7. /\ total \in [elastic : Nat, base : Nat] /\ total.base > 0
      /\ total.base <= total.elastic /\ part <= total.base
  BY <1>2, <1>3, <1>4, UintAssumption DEF RebaseType, Covered
<1> HIDE DEF total, part, share
<1>8. /\ cut.amount \in Nat /\ cut.amount <= total.elastic /\ cut.amount > 0
      /\ cut.part \in Nat /\ cut.part <= part
      /\ cut.share \in Nat /\ cut.share <= share
      /\ total.base - cut.part <= total.elastic - cut.amount
      /\ cut.part * total.elastic <= total.base * cut.amount
  BY <1>1, <1>3, <1>4, <1>5, <1>7, CutFacts
<1>9. reward \in 0..FEE_PRECISION
  BY <1>3, <1>5, <1>7, CallerRewardBounded
<1> HIDE DEF reward
<1>10. DebtInv' /\ NotDearer
  <2>1. cut.part <= total.base
    BY <1>3, <1>7, <1>8
  <2>2. \E v : DebtStep(u, v)
    BY <1>1, <1>6, <1>8, <2>1, ReductionIsDebtStep DEF total, part
  <2> QED BY <1>1, <2>2, DebtStepKeeps
<1>11. CollateralInv'
  <2> DEFINE sent == toShare(toAmount(cut.share, FALSE))
  <2>1. sent \in Nat /\ sent <= cut.share
    BY <1>8, SendsAtMost
  <2>2. collateralBalance' = collateralBalance - sent
    BY <1>6 DEF SendsCollateral
  <2> HIDE DEF sent
  <2>3. share <= totalCollateralShare /\ totalCollateralShare \in Nat
    BY <1>2, SumBounds DEF IInv, CollateralInv, share
  <2>4. totalCollateralShare' = totalCollateralShare - cut.share
    <3>1. totalCollateralShare' = IF totalCollateralShare > cut.share
                                  THEN totalCollateralShare - cut.share ELSE 0
      BY <1>6
    <3> QED BY <1>3, <1>8, <2>3, <3>1
  <2>5. cut.share <= userCollateralShare[u]
    BY <1>8 DEF share
  <2> QED BY <1>6, <1>8, <2>1, <2>2, <2>4, <2>5, OutflowKeeps
<1>12. AssetInv'
  BY <1>1, PoolCharged
<1> DEFINE call == [amount |-> cut.amount, least |-> minReturned(cut.share, rate),
                    reward |-> reward]
<1>13. call \in CallType /\ call.amount = cut.amount
  <2>1. minReturned(cut.share, rate) \in Nat
    BY <1>5, <1>8, MinReturnedNat
  <2> QED BY <1>8, <1>9, <2>1 DEF CallType
<1>14. receiver' = {call}
  BY <1>6
<1> HIDE DEF call
<1>15. ControlInv'
  <2>1. /\ interestPerSecond' \in minimumInterestPerSecond..maximumInterestPerSecond
        /\ elapsed' \in 0..MaxElapsed
    BY <1>1, AccrualFacts
  <2> QED BY <1>1, <1>13, <1>14, <2>1 DEF IInv, ControlInv
<1>16. NoLoss
  <2> DEFINE W == allShare(accruedAsset, accruedBorrow)
             A == totalAsset.elastic
             E == accruedBorrow.elastic
             S == SharesPerAmount
             a == cut.amount
  <2>1. W \in Nat /\ W = A + toShare(E) /\ A \in Nat /\ E \in Nat
    BY <1>1, AccruedWorth, Zenon
  <2>2. totalAsset'.elastic = A /\ totalBorrow'.elastic = E - a /\ totalAsset'.base = accruedAsset.base
    BY <1>1, <1>6, AccrualFacts DEF Sub, total
  <2>3. due' = toShare(a)
    <3>1. (CHOOSE c \in receiver' : TRUE) = call
      BY <1>14
    <3>2. receiver' # {}
      BY <1>14
    <3>3. due' = toShare((CHOOSE c \in receiver' : TRUE).amount)
      BY <3>2 DEF due, toShare
    <3> QED BY <1>13, <3>1, <3>3
  <2>4. worth' = totalAsset'.elastic + toShare(totalBorrow'.elastic) + due'
    BY DEF worth, allShare, toShare
  <2>5. toShare(a) = a * S /\ toShare(E) = E * S /\ toShare(E - a) = (E - a) * S
    BY Zenon DEF toShare
  <2>6. worth' = A + (E - a) * S + a * S
    BY <2>2, <2>3, <2>4, <2>5
  <2>7. S \in Nat /\ a \in Nat
    BY <1>8, PrecisionAssumption
  <2> HIDE DEF W, A, E, S, a
  <2>8. (E - a) * S = E * S - a * S /\ E * S \in Nat /\ a * S \in Nat
    BY <2>1, <2>7
  <2>9. worth' = W
    BY <2>1, <2>5, <2>6, <2>8
  <2> QED BY <1>1, <2>2, <2>9, WorthMoves DEF W
<1> QED BY <1>10, <1>11, <1>12, <1>15, <1>16 DEF StepOK, IInv

(* The debt is made good, and the protocol's part of the surplus is paid   *)
(* for by the surplus.                                                     *)
LEMMA OnCollateralReceiverOK ==
  ASSUME IInv, NEW returned \in Nat, onCollateralReceiver(returned)
  PROVE  StepOK
<1>1. PICK call \in CallType : receiver = {call}
  BY DEF onCollateralReceiver, IInv, ControlInv
<1> DEFINE split == extractLiquidationFees(toShare(returned), toShare(call.amount), call.reward)
           s == toShare(call.amount)
           x == split.feeShare
           asset == Add(totalAsset, s, 0)
           fr == surplusFraction(x, asset)
           after == Add(asset, x, fr)
           A == totalAsset.elastic
           B == totalAsset.base
           S == SharesPerAmount
           W == allShare(asset, totalBorrow)
           full == fullAssetAmount(asset, totalBorrow)
           tokens == toAmount(x, FALSE)
<1>2. /\ toShare(returned) >= s
      /\ Fits(after)
      /\ totalAsset' = after
      /\ balanceOf' = [balanceOf EXCEPT ![Penrose] = @ + fr]
      /\ assetBalance' = assetBalance + s + x
      /\ receiver' = {}
      /\ UNCHANGED <<feesEarnedFraction, debtVars, collateralVars, rateVars,
                     exchangeRate, pauseOptions>>
  BY <1>1, Zenon DEF onCollateralReceiver, Suffices
<1>3. /\ call.amount \in Nat /\ call.amount > 0 /\ call.reward \in 0..FEE_PRECISION
  BY DEF CallType
<1>4. s \in Nat /\ toShare(returned) \in Nat
  BY <1>3, ShareRoundTrip
<1>5. x \in Nat
  <2> DEFINE extra == IF toShare(returned) > s THEN toShare(returned) - s ELSE 0
             caller == feeOf(extra, call.reward)
  <2>1. extra \in Nat
    <3> HIDE DEF s
    <3> QED BY <1>4
  <2>2. x = extra - caller
    BY Zenon DEF extractLiquidationFees
  <2> HIDE DEF extra, x
  <2>3. caller \in Nat /\ caller <= extra
    BY <1>3, <2>1, FeeOfBounded
  <2> HIDE DEF caller
  <2> QED BY <2>1, <2>2, <2>3
<1>6. tokens \in Nat /\ S * tokens <= x /\ S \in Nat /\ S > 0
  <2>1. tokens \in Nat
    BY <1>5, WholeTokens, Zenon
  <2>2. toShare(tokens) <= x
    BY <1>5, WholeTokens, Zenon
  <2>3. S \in Nat /\ S > 0
    BY PrecisionAssumption
  <2> HIDE DEF tokens, x
  <2> QED BY <2>1, <2>2, <2>3 DEF toShare
<1>7. /\ A \in Nat /\ B \in Nat /\ totalAsset \in RebaseType /\ totalBorrow \in RebaseType
      /\ B <= UINT128_MAX /\ UINT128_MAX \in Nat
      /\ totalAsset = [elastic |-> A, base |-> B]
      /\ totalBorrow.elastic \in Nat
  BY UintAssumption DEF IInv, AssetInv, DebtInv, RebaseType
<1>8. asset.elastic = A + s /\ asset.base = B
  BY <1>7 DEF Add
<1>9. fr = IF x = 0 THEN 0 ELSE (tokens * asset.base) \div full
  BY Zenon DEF surplusFraction
<1>10. after.elastic = A + s + x /\ after.base = B + fr /\ asset = [elastic |-> A + s, base |-> B]
  BY <1>7, <1>8 DEF Add
<1> HIDE DEF s, x, fr, after, split, A, B, W, full, tokens, S
<1>11. A + s + x <= UINT128_MAX /\ B + fr <= UINT128_MAX
  BY <1>2, <1>10 DEF Fits
<1>12. asset \in RebaseType
  BY <1>4, <1>5, <1>7, <1>10, <1>11 DEF RebaseType
<1> HIDE DEF asset
<1>13. W \in Nat /\ full \in Nat /\ S * full <= W /\ W < S * full + S
  BY <1>7, <1>12, PoolFacts, Zenon DEF W, full, S
<1>14. W = A + s + toShare(totalBorrow.elastic) /\ toShare(totalBorrow.elastic) \in Nat
  <2>1. toShare(totalBorrow.elastic) \in Nat
    BY <1>7, ShareRoundTrip, Zenon
  <2> QED BY <1>8, <2>1 DEF W, allShare
<1>15. full > 0
  <2>1. s = call.amount * S
    BY Zenon DEF s, S, toShare
  <2>2. s >= S
    BY <1>3, <1>6, <2>1
  <2>3. W >= S
    BY <1>4, <1>6, <1>7, <1>14, <2>2
  <2>4. S * full > 0
    BY <1>6, <1>13, <2>3
  <2> QED BY <1>6, <1>13, <2>4
<1>16. fr \in Nat /\ full * (B + fr) <= (full + tokens) * B
  <2>1. CASE x = 0
    <3>1. fr = 0
      BY <1>9, <2>1
    <3>2. full * B <= (full + tokens) * B
      <4>1. (full + tokens) * B = full * B + tokens * B /\ tokens * B \in Nat /\ full * B \in Nat
        BY <1>6, <1>7, <1>13
      <4> QED BY <4>1
    <3> QED BY <1>7, <3>1, <3>2
  <2>2. CASE x # 0
    <3>1. fr = (tokens * B) \div full
      BY <1>8, <1>9, <2>2
    <3> QED BY <1>6, <1>7, <1>13, <1>15, <3>1, PaidFraction
  <2> QED BY <2>1, <2>2
<1>17. totalAsset'.elastic = A + s + x /\ totalAsset'.base = B + fr /\ totalAsset' \in RebaseType
  <2>1. totalAsset' = [elastic |-> A + s + x, base |-> B + fr]
    BY <1>2, <1>10 DEF after, Add
  <2> QED BY <1>4, <1>5, <1>7, <1>11, <1>16, <2>1 DEF RebaseType
<1>18. AssetInv'
  <2> DEFINE owned == balanceOf[Penrose]
  <2>1. /\ owned \in Nat /\ feesEarnedFraction \in Nat /\ assetBalance \in Nat
        /\ A <= assetBalance /\ Penrose \in Holders
    BY HoldersFinite DEF IInv, AssetInv, A
  <2>2. balanceOf' = [balanceOf EXCEPT ![Penrose] = owned + fr]
    BY <1>2
  <2>3. feesEarnedFraction' = feesEarnedFraction
    BY <1>2
  <2> HIDE DEF owned
  <2>4. /\ owned + fr \in Nat /\ feesEarnedFraction' \in Nat
        /\ B + fr = B - owned + (owned + fr) - feesEarnedFraction + feesEarnedFraction'
    BY <1>7, <1>16, <2>1, <2>3
  <2>5. assetBalance' \in Nat /\ A + s + x <= assetBalance'
    BY <1>2, <1>4, <1>5, <1>7, <2>1
  <2>6. AssetStep(Penrose, owned + fr)
    BY <1>17, <2>2, <2>4, <2>5 DEF AssetStep, owned, B
  <2> QED BY <2>1, <2>6, AssetStepKeeps
<1>19. NoLoss
  <2> SUFFICES ASSUME B > 0
               PROVE  (worth - S) * totalAsset'.base < worth' * B
    BY DEF NoLoss, B, S
  <2> DEFINE w == W + x
             f == full + tokens
             b == B + fr
             owed == toShare(totalBorrow.elastic)
  <2>1. worth = W
    <3>1. (CHOOSE c \in receiver : TRUE) = call /\ receiver # {}
      BY <1>1
    <3>2. due = s
      BY <3>1 DEF due, s
    <3>3. worth = A + owed + s
      BY <3>2 DEF worth, allShare, A
    <3> HIDE DEF owed
    <3> QED BY <1>4, <1>7, <1>14, <3>3 DEF owed
  <2>2. worth' = totalAsset'.elastic + owed + 0
    <3>1. totalBorrow'.elastic = totalBorrow.elastic /\ receiver' = {}
      BY <1>2 DEF debtVars
    <3> QED BY <3>1, WorthAfter, Zenon
  <2>3. worth' = w
    <3>1. owed \in Nat /\ W = A + s + owed
      BY <1>14
    <3> HIDE DEF owed
    <3> QED BY <1>4, <1>5, <1>7, <1>17, <2>2, <3>1
  <2>4. w \in Nat /\ f \in Nat /\ b \in Nat /\ b > 0
    BY <1>5, <1>6, <1>7, <1>13, <1>16
  <2>5. S * f <= w
    <3>1. S * f = S * full + S * tokens /\ S * full \in Nat /\ S * tokens \in Nat
      BY <1>6, <1>13
    <3> QED BY <1>5, <1>6, <1>13, <3>1
  <2>6. full * b <= f * B
    BY <1>16
  <2> HIDE DEF w, f, b
  <2>7. w * b <= w * b
    BY <2>4
  <2>8. (W - S) * b < w * B
    BY <1>6, <1>7, <1>13, <2>4, <2>5, <2>6, <2>7, MildLoss
  <2> QED BY <1>17, <2>1, <2>3, <2>8 DEF b
<1>20. DebtInv' /\ NotDearer
  BY <1>2, DebtStill
<1>21. CollateralInv' /\ ControlInv'
  BY <1>2, CollateralUntouched DEF IInv, ControlInv, rateVars
<1> QED BY <1>18, <1>19, <1>20, <1>21 DEF StepOK, IInv


-----------------------------------------------------------------------------
(* The theorems. *)

LEMMA InitOK == Init => IInv
<1> SUFFICES ASSUME Init PROVE IInv
  OBVIOUS
<1>1. /\ totalBorrow = [elastic |-> 0, base |-> 0] /\ totalAsset = [elastic |-> 0, base |-> 0]
      /\ UINT128_MAX \in Nat
  BY UintAssumption DEF Init, EmptyRebase
<1>2. /\ SumOver(userBorrowPart) = 0 /\ SumOver(userCollateralShare) = 0
      /\ SumOver(balanceOf) = 0
  BY SumOfZeros DEF Init
<1>3. DebtInv
  BY <1>1, <1>2 DEF Init, DebtInv, RebaseType, Covered
<1>4. AssetInv
  BY <1>1, <1>2 DEF Init, AssetInv, RebaseType, FractionsSum
<1>5. CollateralInv
  BY <1>2 DEF Init, CollateralInv
<1>6. ControlInv
  BY SingularityAssumption DEF Init, ControlInv
<1> QED BY <1>3, <1>4, <1>5, <1>6 DEF IInv

(* Every step keeps the invariant, makes no part of the debt dearer        *)
(* without time passing, and costs the fractions there are less than one   *)
(* token.                                                                  *)
LEMMA StepsOK ==
  ASSUME IInv, [Next]_vars
  PROVE  StepOK
<1>1. ASSUME NEW u \in Users, LendingCall(u)
      PROVE  StepOK
  <2>1. LendShares \subseteq Nat /\ RemoveFractions \subseteq Nat
    BY SingularityAssumption
  <2>2. ASSUME NEW share \in LendShares, NEW skim \in BOOLEAN, addAsset(u, share, skim)
        PROVE  StepOK
    BY <2>1, <2>2, AddAssetOK
  <2>3. ASSUME NEW fraction \in RemoveFractions, removeAsset(u, fraction)
        PROVE  StepOK
    BY <2>1, <2>3, RemoveAssetOK
  <2>4. ASSUME NEW to \in Holders, NEW amount \in RemoveFractions, transfer(u, to, amount)
        PROVE  StepOK
    BY <2>1, <2>4, TransferOK
  <2> QED BY <1>1, <2>2, <2>3, <2>4 DEF LendingCall
<1>2. ASSUME NEW u \in Users, NEW rate \in ExchangeRates, CollateralCall(u, rate)
      PROVE  StepOK
  <2>1. AddAmounts \subseteq Nat /\ AddShares \subseteq Nat /\ RemoveShares \subseteq Nat
    BY SingularityAssumption
  <2>2. ASSUME NEW amount \in AddAmounts, NEW share \in AddShares, NEW skim \in BOOLEAN,
               addCollateral(u, amount, share, skim)
        PROVE  StepOK
    BY <2>1, <2>2, AddCollateralOK
  <2>3. ASSUME NEW share \in RemoveShares, removeCollateral(u, share, rate)
        PROVE  StepOK
    BY <2>1, <2>3, RemoveCollateralOK
  <2> QED BY <1>2, <2>2, <2>3 DEF CollateralCall
<1>3. ASSUME NEW u \in Users, NEW rate \in ExchangeRates, DebtCall(u, rate)
      PROVE  StepOK
  <2>1. BorrowAmounts \subseteq Nat /\ RepayParts \subseteq Nat
    BY SingularityAssumption
  <2>2. ASSUME NEW amount \in BorrowAmounts, borrow(u, amount, rate)
        PROVE  StepOK
    BY <2>1, <2>2, BorrowOK
  <2>3. ASSUME NEW part \in RepayParts, NEW skim \in BOOLEAN, repay(u, part, skim, rate)
        PROVE  StepOK
    BY <2>1, <2>3, RepayOK
  <2> QED BY <1>3, <2>2, <2>3 DEF DebtCall
<1>4. ASSUME NEW u \in Users, NEW rate \in ExchangeRates, LeverageCall(u, rate)
      PROVE  StepOK
  <2>1. LeverageAmounts \subseteq Nat /\ RemoveShares \subseteq Nat /\ SwapOutputs \subseteq Nat
    BY SingularityAssumption
  <2>2. ASSUME NEW amount \in LeverageAmounts, NEW out \in SwapOutputs,
               buyCollateral(u, amount, out, rate)
        PROVE  StepOK
    BY <2>1, <2>2, BuyCollateralOK
  <2>3. ASSUME NEW share \in RemoveShares, NEW out \in SwapOutputs,
               sellCollateral(u, share, out, rate)
        PROVE  StepOK
    BY <2>1, <2>3, SellCollateralOK
  <2> QED BY <1>4, <2>2, <2>3 DEF LeverageCall
<1>5. ASSUME NEW u \in Users, NEW rate \in ExchangeRates, LiquidationCall(u, rate)
      PROVE  StepOK
  <2>1. MaxBorrowParts \subseteq Nat /\ MinBonuses \subseteq Nat
    BY SingularityAssumption
  <2>2. ASSUME NEW limit \in MaxBorrowParts, NEW bonus \in MinBonuses,
               liquidate(u, limit, bonus, rate)
        PROVE  StepOK
    BY <2>1, <2>2, LiquidateOK
  <2>3. CASE liquidateBadDebt(u, rate)
    BY <2>3, LiquidateBadDebtOK
  <2> QED BY <1>5, <2>2, <2>3 DEF LiquidationCall
<1>6. CASE UserCall
  BY <1>1, <1>2, <1>3, <1>4, <1>5, <1>6 DEF UserCall
<1>7. CASE OwnerCall
  BY <1>7, RefreshPenroseFeesOK, OtherStepsOK DEF OwnerCall
<1>8. CASE Environment
  <2>1. SwapOutputs \subseteq Nat
    BY SingularityAssumption
  <2> QED BY <1>8, <2>1, OnCollateralReceiverOK, OtherStepsOK DEF Environment
<1>9. CASE UNCHANGED vars
  BY <1>9, OtherStepsOK
<1> QED BY <1>6, <1>7, <1>8, <1>9 DEF Next

(* IInv is an invariant of the market, whatever the contract that gets     *)
(* seized collateral calls before it pays.                                 *)
THEOREM Invariance == Spec => []IInv
<1>1. IInv /\ [Next]_vars => IInv'
  BY StepsOK DEF StepOK
<1> QED BY InitOK, <1>1, PTL DEF Spec

(* No call of the market, in whichever order, makes its state leave its    *)
(* types: no checked subtraction of the totals underflows, and the rate of *)
(* interest stays between its bounds.                                      *)
THEOREM TypeCorrect == Spec => []TypeOK
<1>1. ASSUME IInv PROVE TypeOK
  <2>1. ASSUME NEW call \in CallType
        PROVE  {call} \subseteq [amount : Nat, least : Nat, reward : Nat]
    <3>1. FEE_PRECISION \in Nat
      BY PrecisionAssumption
    <3> QED BY <3>1 DEF CallType
  <2>2. receiver \subseteq [amount : Nat, least : Nat, reward : Nat]
    BY <1>1, <2>1 DEF IInv, ControlInv
  <2> QED BY <1>1, <2>2 DEF IInv, DebtInv, AssetInv, CollateralInv, ControlInv, TypeOK
<1>2. IInv => TypeOK
  BY <1>1
<1> QED BY Invariance, <1>2, PTL

(* Every fraction of the pool is a holder's or one Penrose has earned. *)
THEOREM FractionsAddUp == Spec => []FractionsSum
<1>1. IInv => FractionsSum
  BY DEF IInv, AssetInv
<1> QED BY Invariance, <1>1, PTL

(* The debt's base and the collateral's total are the sums of the users'. *)
THEOREM PositionsAddUp == Spec => []PositionsSum
<1>1. IInv => PositionsSum
  BY DEF IInv, DebtInv, CollateralInv, PositionsSum
<1> QED BY Invariance, <1>1, PTL

(* What the market counts as lenders' and users' shares is in YieldBox:    *)
(* nobody skims them.                                                      *)
THEOREM SharesAreHeld == Spec => []Custody
<1>1. IInv => Custody
  BY DEF IInv, AssetInv, CollateralInv, Custody
<1> QED BY Invariance, <1>1, PTL

(* Without time passing no user's call makes another user's debt grow. *)
THEOREM OnlyTimeMakesDebtDearer == Spec => DebtPerPartGrowsOnlyWithTime
<1>1. IInv /\ [Next]_vars => [NotDearer]_vars
  BY StepsOK DEF StepOK
<1>2. [NotDearer]_vars
        => [ (elapsed = 0 /\ totalBorrow.base > 0 /\ totalBorrow'.base > 0)
               => totalBorrow'.elastic * totalBorrow.base
                    <= totalBorrow.elastic * totalBorrow'.base ]_vars
  BY DEF NotDearer
<1> QED BY Invariance, <1>1, <1>2, PTL DEF Spec, DebtPerPartGrowsOnlyWithTime

(* What one user, a liquidator or the protocol does costs the fractions    *)
(* there were less than one token in all.                                  *)
THEOREM LendersKeepWorth == Spec => LendersNeverLose
<1>1. IInv /\ [Next]_vars => [NoLoss]_vars
  BY StepsOK DEF StepOK
<1>2. [NoLoss]_vars
        => [ (totalAsset.base > 0 /\ (receiver = {} \/ receiver' = {}))
               => (worth - SharesPerAmount) * totalAsset'.base < worth' * totalAsset.base ]_vars
  BY DEF NoLoss
<1> QED BY Invariance, <1>1, <1>2, PTL DEF Spec, LendersNeverLose

-----------------------------------------------------------------------------
(* Solvency.                                                               *)

(* A position that only got lighter stays solvent. *)
LEMMA LighterStaysSolvent ==
  ASSUME IInv, StepOK, exchangeRate' = exchangeRate,
         elapsed = 0 \/ UNCHANGED totalBorrow,
         NEW w \in Users, userBorrowPart'[w] <= userBorrowPart[w],
         userCollateralShare[w] <= userCollateralShare'[w], SolventAt(w)
  PROVE  SolventAt(w)'
<1> DEFINE p == userBorrowPart[w]
           q == userBorrowPart'[w]
           s == userCollateralShare[w]
           t == userCollateralShare'[w]
<1>1. IInv' /\ NotDearer /\ IsFiniteSet(Users)
  BY SingularityAssumption DEF StepOK
<1>2. /\ p \in Nat /\ q \in Nat /\ s \in Nat /\ t \in Nat /\ q <= p /\ s <= t
      /\ exchangeRate \in Nat
  BY <1>1, SingularityAssumption DEF IInv, DebtInv, CollateralInv, ControlInv
<1>3. p <= totalBorrow.base
  BY <1>1, SumBounds DEF IInv, DebtInv
<1>4. q <= totalBorrow'.base
  <2> DEFINE f == userBorrowPart'
  <2>1. f \in [Users -> Nat] /\ totalBorrow'.base = SumOver(f)
    BY <1>1 DEF IInv, DebtInv
  <2> HIDE DEF f
  <2>2. f[w] <= SumOver(f)
    BY <1>1, <2>1, SumBounds
  <2> QED BY <2>1, <2>2 DEF f
<1>5. /\ totalBorrow \in [elastic : Nat, base : Nat] /\ totalBorrow' \in [elastic : Nat, base : Nat]
  BY <1>1, UintAssumption DEF IInv, DebtInv, RebaseType
<1>6. CASE q = 0
  BY <1>6 DEF SolventAt, isSolvent
<1>7. CASE q # 0
  <2>1. totalBorrow.base > 0 /\ totalBorrow'.base > 0
    BY <1>2, <1>3, <1>4, <1>5, <1>7
  <2>2. totalBorrow'.elastic * totalBorrow.base <= totalBorrow.elastic * totalBorrow'.base
    BY <1>1, <1>5, <2>1 DEF NotDearer
  <2>3. isSolvent(p, s, totalBorrow, exchangeRate, FALSE)
    BY DEF SolventAt
  <2> HIDE DEF p, q, s, t
  <2>4. isSolvent(q, t, totalBorrow', exchangeRate, FALSE)
    BY <1>2, <1>5, <2>1, <2>2, <2>3, SolventWithLess
  <2> QED BY <2>4 DEF SolventAt, q, t
<1> QED BY <1>6, <1>7

(* Apart from the acting user's, a call moves no position, and what it     *)
(* charges it charges for the time since the last accrual.                 *)
LEMMA OthersUntouched ==
  ASSUME IInv, NEW u \in Users, NEW rate \in ExchangeRates,
         \/ CollateralCall(u, rate) \/ DebtCall(u, rate)
         \/ LeverageCall(u, rate) \/ LiquidationCall(u, rate),
         NEW w \in Users, w # u
  PROVE  /\ userBorrowPart'[w] = userBorrowPart[w]
         /\ userCollateralShare'[w] = userCollateralShare[w]
         /\ elapsed' = 0 \/ UNCHANGED totalBorrow
<1> DEFINE Untouched == /\ userBorrowPart'[w] = userBorrowPart[w]
                        /\ userCollateralShare'[w] = userCollateralShare[w]
                        /\ elapsed' = 0 \/ UNCHANGED totalBorrow
<1>1. userBorrowPart \in [Users -> Nat] /\ userCollateralShare \in [Users -> Nat]
  BY DEF IInv, DebtInv, CollateralInv
<1>2. CASE CollateralCall(u, rate)
  <2>1. ASSUME NEW amount, NEW share, NEW skim, addCollateral(u, amount, share, skim)
        PROVE  Untouched
    BY <1>1, <2>1 DEF addCollateral, debtVars
  <2>2. ASSUME NEW share, removeCollateral(u, share, rate) PROVE Untouched
    BY <1>1, <2>2 DEF removeCollateral, RemovesCollateral, Solvent, Accrues
  <2> HIDE DEF Untouched
  <2>3. Untouched
    BY <1>2, <2>1, <2>2 DEF CollateralCall
  <2> QED BY <2>3 DEF Untouched
<1>3. CASE DebtCall(u, rate)
  <2>1. ASSUME NEW amount, borrow(u, amount, rate) PROVE Untouched
    BY <1>1, <2>1 DEF borrow, Borrows, Solvent, Accrues, collateralVars
  <2>2. ASSUME NEW part, NEW skim, repay(u, part, skim, rate) PROVE Untouched
    BY <1>1, <2>2 DEF repay, Repays, Accrues, collateralVars
  <2> HIDE DEF Untouched
  <2>3. Untouched
    BY <1>3, <2>1, <2>2 DEF DebtCall
  <2> QED BY <2>3 DEF Untouched
<1>4. CASE LeverageCall(u, rate)
  <2>1. ASSUME NEW amount, NEW out, buyCollateral(u, amount, out, rate) PROVE Untouched
    BY <1>1, <2>1 DEF buyCollateral, Borrows, Solvent, Accrues
  <2>2. ASSUME NEW share, NEW out, sellCollateral(u, share, out, rate) PROVE Untouched
    BY <1>1, <2>2 DEF sellCollateral, RemovesCollateral, Repays, Solvent, Accrues
  <2> HIDE DEF Untouched
  <2>3. Untouched
    BY <1>4, <2>1, <2>2 DEF LeverageCall
  <2> QED BY <2>3 DEF Untouched
<1>5. CASE LiquidationCall(u, rate)
  <2>1. ASSUME NEW limit, NEW bonus, liquidate(u, limit, bonus, rate) PROVE Untouched
    <3>1. \E p, s : /\ userBorrowPart' = [userBorrowPart EXCEPT ![u] = p]
                    /\ userCollateralShare' = [userCollateralShare EXCEPT ![u] = s]
                    /\ elapsed' = 0
      BY <2>1, Zenon DEF liquidate, Accrues
    <3> QED BY <1>1, <3>1
  <2>2. ASSUME liquidateBadDebt(u, rate) PROVE Untouched
    BY <1>1, <2>2 DEF liquidateBadDebt, Accrues
  <2> HIDE DEF Untouched
  <2>3. Untouched
    BY <1>5, <2>1, <2>2 DEF LiquidationCall
  <2> QED BY <2>3 DEF Untouched
<1> QED BY <1>2, <1>3, <1>4, <1>5

(* A call that charges no interest leaves the caller solvent if it was:    *)
(* each either demands it or only lightens the position, and a solvent     *)
(* user is not liquidated.                                                 *)
LEMMA CallerStaysSolvent ==
  ASSUME IInv, StepOK, exchangeRate' = exchangeRate, elapsed' >= elapsed,
         NEW u \in Users, NEW rate \in ExchangeRates,
         \/ CollateralCall(u, rate) \/ DebtCall(u, rate)
         \/ LeverageCall(u, rate) \/ LiquidationCall(u, rate),
         SolventAt(u)
  PROVE  SolventAt(u)'
<1>1. /\ userBorrowPart \in [Users -> Nat] /\ userCollateralShare \in [Users -> Nat]
      /\ elapsed \in Nat
  BY SingularityAssumption DEF IInv, DebtInv, CollateralInv, ControlInv
<1>2. Solvent(u, rate) => SolventAt(u)'
  BY DEF Solvent, SolventAt
<1>3. CASE CollateralCall(u, rate)
  <2>1. ASSUME NEW amount \in AddAmounts, NEW share \in AddShares, NEW skim \in BOOLEAN,
               addCollateral(u, amount, share, skim)
        PROVE  SolventAt(u)'
    <3> DEFINE credited == IF share = 0 THEN toShare(amount) ELSE share
    <3>1. amount \in Nat /\ share \in Nat
      BY SingularityAssumption
    <3>2. credited \in Nat
      BY <3>1, ShareRoundTrip
    <3> HIDE DEF credited
    <3>3. /\ userCollateralShare' = [userCollateralShare EXCEPT ![u] = @ + credited]
          /\ UNCHANGED debtVars
      BY <2>1, Zenon DEF addCollateral, credited
    <3>4. userBorrowPart'[u] <= userBorrowPart[u] /\ UNCHANGED totalBorrow
          /\ userCollateralShare[u] <= userCollateralShare'[u]
      BY <1>1, <3>2, <3>3 DEF debtVars
    <3> QED BY <3>4, LighterStaysSolvent
  <2>2. ASSUME NEW share \in RemoveShares, removeCollateral(u, share, rate) PROVE SolventAt(u)'
    BY <1>2, <2>2 DEF removeCollateral
  <2> QED BY <1>3, <2>1, <2>2 DEF CollateralCall
<1>4. CASE DebtCall(u, rate)
  <2>1. ASSUME NEW amount \in BorrowAmounts, borrow(u, amount, rate) PROVE SolventAt(u)'
    BY <1>2, <2>1 DEF borrow
  <2>2. ASSUME NEW part \in RepayParts, NEW skim \in BOOLEAN, repay(u, part, skim, rate)
        PROVE  SolventAt(u)'
    <3> DEFINE paid == Least(part, userBorrowPart[u])
    <3>1. part \in Nat /\ paid \in Nat
      BY <1>1, SingularityAssumption, LeastNat
    <3> HIDE DEF paid
    <3>2. /\ userBorrowPart' = [userBorrowPart EXCEPT ![u] = @ - paid]
          /\ userCollateralShare' = userCollateralShare /\ elapsed' = 0
      BY <2>2, Zenon DEF repay, Repays, Accrues, collateralVars, paid
    <3>3. userBorrowPart'[u] <= userBorrowPart[u] /\ elapsed = 0
          /\ userCollateralShare[u] <= userCollateralShare'[u]
      BY <1>1, <3>1, <3>2
    <3> QED BY <3>3, LighterStaysSolvent
  <2> QED BY <1>4, <2>1, <2>2 DEF DebtCall
<1>5. CASE LeverageCall(u, rate)
  <2>1. ASSUME NEW amount \in LeverageAmounts, NEW out \in SwapOutputs,
               buyCollateral(u, amount, out, rate)
        PROVE  SolventAt(u)'
    BY <1>2, <2>1 DEF buyCollateral
  <2>2. ASSUME NEW share \in RemoveShares, NEW out \in SwapOutputs,
               sellCollateral(u, share, out, rate)
        PROVE  SolventAt(u)'
    BY <1>2, <2>2 DEF sellCollateral
  <2> QED BY <1>5, <2>1, <2>2 DEF LeverageCall
<1>6. CASE LiquidationCall(u, rate)
  <2>1. ASSUME NEW limit \in MaxBorrowParts, NEW bonus \in MinBonuses,
               liquidate(u, limit, bonus, rate)
        PROVE  FALSE
    <3> DEFINE p == userBorrowPart[u]
               s == userCollateralShare[u]
    <3>1. /\ ~isSolvent(p, s, accruedBorrow, rate, TRUE)
          /\ exchangeRate' = rate /\ elapsed' = 0 /\ Fits(accruedBorrow)
      BY <2>1 DEF liquidate, Accrues
    <3>2. totalBorrow \in [elastic : Nat, base : Nat]
      BY UintAssumption DEF IInv, DebtInv, RebaseType
    <3>3. elapsed = 0
      BY <1>1, <3>1
    <3>4. accruedBorrow = totalBorrow
      BY <3>1, <3>3, InterestFacts DEF IInv
    <3>5. p \in Nat /\ s \in Nat /\ rate \in Nat
      BY <1>1, SingularityAssumption
    <3>6. p <= totalBorrow.base
      BY SingularityAssumption, SumBounds DEF IInv, DebtInv
    <3>7. p # 0
      BY <3>1 DEF isSolvent
    <3>8. isSolvent(p, s, totalBorrow, rate, FALSE)
      BY <3>1 DEF SolventAt
    <3> HIDE DEF p, s
    <3>9. totalBorrow.base > 0
      BY <3>2, <3>5, <3>6, <3>7
    <3> QED BY <3>1, <3>2, <3>4, <3>5, <3>8, <3>9, SolventNotLiquidated
  <2>2. CASE liquidateBadDebt(u, rate)
    <3>1. userBorrowPart'[u] = 0
      BY <1>1, <2>2 DEF liquidateBadDebt
    <3> QED BY <3>1 DEF SolventAt, isSolvent
  <2> QED BY <1>6, <2>1, <2>2 DEF LiquidationCall
<1> QED BY <1>3, <1>4, <1>5, <1>6

(* Every other step leaves the positions alone, and either charges what    *)
(* time has brought or does not touch the debt.                            *)
LEMMA PositionsStill ==
  ASSUME \/ \E u \in Users : LendingCall(u)
         \/ OwnerCall \/ Environment \/ UNCHANGED vars
  PROVE  /\ UNCHANGED <<userBorrowPart, userCollateralShare>>
         /\ elapsed' = 0 \/ UNCHANGED totalBorrow
<1> DEFINE Still == /\ UNCHANGED <<userBorrowPart, userCollateralShare>>
                    /\ elapsed' = 0 \/ UNCHANGED totalBorrow
<1> USE DEF debtVars, collateralVars, rateVars
<1>1. ASSUME NEW u \in Users, LendingCall(u) PROVE Still
  <2>1. ASSUME NEW share, NEW skim, addAsset(u, share, skim) PROVE Still
    BY <2>1, Zenon DEF addAsset, Accrues
  <2>2. ASSUME NEW fraction, removeAsset(u, fraction) PROVE Still
    BY <2>2, Zenon DEF removeAsset, Accrues
  <2>3. ASSUME NEW to, NEW amount, transfer(u, to, amount) PROVE Still
    BY <2>3 DEF transfer
  <2> HIDE DEF Still
  <2> QED BY <1>1, <2>1, <2>2, <2>3 DEF LendingCall
<1>2. ASSUME OwnerCall PROVE Still
  <2>1. ASSUME refreshPenroseFees PROVE Still
    <3>1. elapsed' = 0 \/ UNCHANGED totalBorrow
      BY <2>1, Zenon DEF refreshPenroseFees, WithdrawsEarned, WithdrawsHeld, Accrues
    <3>2. UNCHANGED <<userBorrowPart, userCollateralShare>>
      BY <2>1 DEF refreshPenroseFees
    <3> QED BY <3>1, <3>2
  <2>2. ASSUME NEW option, NEW val, NEW reset, updatePause(option, val, reset) PROVE Still
    BY <2>2 DEF updatePause, accrueOnly, Accrues
  <2> HIDE DEF Still
  <2> QED BY <1>2, <2>1, <2>2 DEF OwnerCall
<1>3. ASSUME Environment PROVE Still
  <2>1. ASSUME NEW returned, onCollateralReceiver(returned) PROVE Still
    <3>1. UNCHANGED <<debtVars, collateralVars>>
      BY <2>1, Zenon DEF onCollateralReceiver
    <3> QED BY <3>1
  <2>2. ASSUME accrue PROVE Still
    BY <2>2 DEF accrue, accrueOnly, Accrues
  <2>3. ASSUME \/ \E rate \in ExchangeRates : updateExchangeRate(rate)
               \/ \E share \in CollateralDonations : donateCollateral(share)
               \/ \E share \in AssetDonations : donateAsset(share)
               \/ Tick
        PROVE  Still
    BY <2>3 DEF updateExchangeRate, donateCollateral, donateAsset, Tick
  <2> HIDE DEF Still
  <2> QED BY <1>3, <2>1, <2>2, <2>3 DEF Environment
<1>4. ASSUME UNCHANGED vars PROVE Still
  BY <1>4 DEF vars
<1> QED BY <1>1, <1>2, <1>3, <1>4

LEMMA StaysSolvent ==
  ASSUME IInv, [Next]_vars, exchangeRate' = exchangeRate, elapsed' >= elapsed,
         NEW w \in Users, SolventAt(w)
  PROVE  SolventAt(w)'
<1>1. StepOK
  BY StepsOK
<1>2. /\ userBorrowPart \in [Users -> Nat] /\ userCollateralShare \in [Users -> Nat]
      /\ elapsed \in Nat
  BY SingularityAssumption DEF IInv, DebtInv, CollateralInv, ControlInv
<1>3. ASSUME userBorrowPart'[w] = userBorrowPart[w],
             userCollateralShare'[w] = userCollateralShare[w],
             elapsed' = 0 \/ UNCHANGED totalBorrow
      PROVE  SolventAt(w)'
  <2>1. /\ userBorrowPart'[w] <= userBorrowPart[w]
        /\ userCollateralShare[w] <= userCollateralShare'[w]
        /\ elapsed = 0 \/ UNCHANGED totalBorrow
    BY <1>2, <1>3
  <2> QED BY <1>1, <2>1, LighterStaysSolvent
<1>4. ASSUME NEW u \in Users, NEW rate \in ExchangeRates,
             \/ CollateralCall(u, rate) \/ DebtCall(u, rate)
             \/ LeverageCall(u, rate) \/ LiquidationCall(u, rate)
      PROVE  SolventAt(w)'
  <2>1. CASE u = w
    BY <1>1, <1>4, <2>1, CallerStaysSolvent
  <2>2. CASE u # w
    BY <1>3, <1>4, <2>2, OthersUntouched
  <2> QED BY <2>1, <2>2
<1>5. CASE \/ \E u \in Users : LendingCall(u)
           \/ OwnerCall \/ Environment \/ UNCHANGED vars
  BY <1>3, <1>5, PositionsStill
<1> QED BY <1>4, <1>5 DEF Next, UserCall

(* A solvent user stays solvent unless the oracle moves or interest is     *)
(* charged, whatever it or anybody else calls.                             *)
THEOREM OnlyPriceOrInterest == Spec => OnlyPriceOrInterestEndangers
<1> DEFINE Safe == (exchangeRate' = exchangeRate /\ elapsed' >= elapsed)
                     => \A u \in Users : SolventAt(u) => SolventAt(u)'
<1>1. IInv /\ [Next]_vars => [Safe]_vars
  BY StaysSolvent
<1> QED BY Invariance, <1>1, PTL DEF Spec, OnlyPriceOrInterestEndangers

=============================================================================
