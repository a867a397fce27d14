----------------------------- MODULE MarketMath -----------------------------
(***************************************************************************)
(* The pure functions of Market.sol and BBCommon.sol that BigBang and      *)
(* Singularity share: solvency, loan-to-value, the closing factor, the     *)
(* liquidator's reward and the opening fee.                                *)
(*                                                                         *)
(* Every precision is a constant, so that TLC works with small ones; the   *)
(* operators keep the order of multiplications and divisions of the code,  *)
(* because each division rounds down.  `SharesPerAmount` is YieldBox's     *)
(* shares per token: YieldBox is outside the repository, and for the       *)
(* strategy-less assets the markets use its ratio does not move.           *)
(***************************************************************************)
EXTENDS Rebase

CONSTANTS
  FEE_PRECISION,                     \* 1e5
  EXCHANGE_RATE_PRECISION,           \* 1e18 unless init overrides it
  SharesPerAmount,                   \* YieldBox shares per token unit
  collateralizationRate,             \* of FEE_PRECISION
  liquidationCollateralizationRate,  \* of FEE_PRECISION
  liquidationMultiplier,             \* of FEE_PRECISION
  liquidationBonusAmount,            \* of FEE_PRECISION
  minLiquidatorReward,               \* of FEE_PRECISION
  maxLiquidatorReward,               \* of FEE_PRECISION
  maxLiquidationSlippage,            \* of FEE_PRECISION
  minMintFee, maxMintFee,            \* of FEE_PRECISION
  minMintFeeStart, maxMintFeeStart   \* asset prices at which they apply

ASSUME PrecisionAssumption ==
  /\ FEE_PRECISION \in Nat \ {0}
  /\ EXCHANGE_RATE_PRECISION \in Nat \ {0}
  /\ SharesPerAmount \in Nat \ {0}

ASSUME RateAssumption ==
  /\ collateralizationRate \in 0..liquidationCollateralizationRate
  /\ liquidationCollateralizationRate \in 0..FEE_PRECISION
  /\ liquidationMultiplier \in 0..FEE_PRECISION
  /\ liquidationBonusAmount \in 0..FEE_PRECISION
  /\ minLiquidatorReward \in 0..maxLiquidatorReward
  /\ maxLiquidatorReward \in 0..FEE_PRECISION
  /\ maxLiquidationSlippage \in 0..FEE_PRECISION

ASSUME MintFeeAssumption ==
  /\ minMintFee \in Nat /\ maxMintFee \in Nat /\ minMintFee <= maxMintFee
  /\ minMintFeeStart \in Nat /\ maxMintFeeStart \in Nat
  /\ maxMintFeeStart < minMintFeeStart

Least(a, b) == IF a <= b THEN a ELSE b

(* YieldBox conversions. *)
toShare(amount) == amount * SharesPerAmount

toAmount(share, roundUp) == RoundedDiv(share, SharesPerAmount, roundUp)

(* What a fraction of FEE_PRECISION takes of an amount. *)
feeOf(amount, fee) == (amount * fee) \div FEE_PRECISION

-----------------------------------------------------------------------------

(* What the collateral of a user is worth, in the borrowed asset. *)
collateralInAsset(share, rate) ==
  (toAmount(share, FALSE) * EXCHANGE_RATE_PRECISION) \div rate

isSolvent(part, share, total, rate, liquidation) ==
  \/ part = 0
  \/ /\ part # 0 /\ share # 0
     /\ LET required == IF liquidation THEN liquidationCollateralizationRate
                                       ELSE collateralizationRate
        IN  toAmount(share, FALSE) * (EXCHANGE_RATE_PRECISION \div FEE_PRECISION) * required
              >= (part * total.elastic * rate) \div total.base

(* The denominator of the closing factor; a multiplier that makes it zero  *)
(* makes every liquidation revert on the division.                         *)
closingDenominator ==
  FEE_PRECISION
    - (liquidationCollateralizationRate * (FEE_PRECISION + liquidationMultiplier)) \div FEE_PRECISION

(* How much of a debt a liquidation may repay.  `part` has to be positive: *)
(* the code divides by the base of the total.                              *)
computeClosingFactor(part, inAsset, total) ==
  LET amount   == (part * total.elastic) \div total.base
      startsAt == feeOf(inAsset, liquidationCollateralizationRate)
      divisor  == IF closingDenominator < 0 THEN -closingDenominator ELSE closingDenominator
  IN  IF amount < startsAt THEN 0
      ELSE Least(((amount - startsAt) * FEE_PRECISION) \div divisor, amount)

(* The share of a liquidation's surplus that its caller keeps. *)
getCallerReward(part, share, total, rate) ==
  LET maxTVL   == collateralInAsset(share, rate)
      startTVL == feeOf(maxTVL, collateralizationRate)
      borrowed == (part * total.elastic) \div total.base
      progress == ((borrowed - startTVL) * FEE_PRECISION) \div (maxTVL - startTVL)
  IN  IF part = 0 \/ startTVL = 0 THEN 0
      ELSE IF borrowed < startTVL THEN 0
      ELSE IF borrowed >= maxTVL THEN minLiquidatorReward
      \* signed division truncates towards zero: the negative term rounds up
      ELSE maxLiquidatorReward
             - ((maxLiquidatorReward - minLiquidatorReward) * progress) \div FEE_PRECISION

(* The opening fee of a loan: maxMintFee while the stable trades low,      *)
(* minMintFee while it trades high, interpolated in between.               *)
openingFeeRate(price) ==
  IF price >= minMintFeeStart THEN minMintFee
  ELSE IF price <= maxMintFeeStart THEN maxMintFee
  ELSE maxMintFee - ((price - maxMintFeeStart) * (maxMintFee - minMintFee))
                      \div (minMintFeeStart - maxMintFeeStart)

computeVariableOpeningFee(amount, price) == feeOf(amount, openingFeeRate(price))

-----------------------------------------------------------------------------

(* WRONG, for TLC to refute: the reward taken of all that was returned. *)
extractFromReturned(returnedShare, borrowShare, callerReward) ==
  [feeShare |-> returnedShare - borrowShare, callerShare |-> feeOf(returnedShare, callerReward)]

(* A liquidation's surplus, split between its caller and the fees. *)
extractLiquidationFees(returnedShare, borrowShare, callerReward) ==
  LET extra  == IF returnedShare > borrowShare THEN returnedShare - borrowShare ELSE 0
      caller == feeOf(extra, callerReward)
  IN  [feeShare |-> extra - caller, callerShare |-> caller]

(* What a liquidator gets for repaying `amount`, in the borrowed asset. *)
withBonus(amount) == amount + feeOf(amount, liquidationBonusAmount)

(* WRONG: the bonus seized twice. *)
seizedWithBonusTwice(amount, rate) ==
  toShare(((withBonus(amount) + feeOf(amount, liquidationBonusAmount)) * rate)
            \div EXCHANGE_RATE_PRECISION)

(* The collateral shares for that. *)
seizedFor(amount, rate) == toShare((withBonus(amount) * rate) \div EXCHANGE_RATE_PRECISION)

(* What a liquidation takes from a position: {} where the code reverts.    *)
(* `maxBorrowPart` limits tokens, whatever its name says.                  *)
liquidationCut(part, share, total, rate, maxBorrowPart, minBonus) ==
  LET inAsset    == collateralInAsset(share, rate)
      owed       == ToElastic(total, part, TRUE)
      closable   == Least(computeClosingFactor(part, inAsset, total), owed)
      amount     == Least(closable, maxBorrowPart)
      partTaken  == IF amount = owed THEN part ELSE ToBase(total, amount, FALSE)
      uncovered  == inAsset < withBonus(amount)
      shareTaken == IF uncovered THEN share
                    ELSE seizedFor(amount, rate)
  IN  IF /\ closable <= inAsset              \* else BadDebt
         /\ partTaken > 0                    \* else Solvent
         /\ IF uncovered
            THEN /\ inAsset > owed           \* else BadDebt
                 /\ minBonus > 0
                 /\ ((inAsset - amount) * FEE_PRECISION) \div amount >= minBonus
            ELSE /\ withBonus(owed) <= inAsset
                 /\ shareTaken <= share
      THEN {[amount |-> amount, part |-> partTaken, share |-> shareTaken]}
      ELSE {}

(* What the liquidator has to return for `share` of collateral. *)
minReturned(share, rate) ==
  LET receivable == (toAmount(share, FALSE) * EXCHANGE_RATE_PRECISION) \div rate
  IN  receivable - feeOf(receivable, maxLiquidationSlippage)

=============================================================================
