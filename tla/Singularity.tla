---------------------------- MODULE Singularity -----------------------------
(***************************************************************************)
(* One Singularity market: lenders put an asset in, users borrow it        *)
(* against collateral, and interest, opening fees and liquidation surplus  *)
(* belong to whoever holds fractions of the pool.  One action per external *)
(* entry point (Singularity, SGLBorrow, SGLCollateral, SGLLeverage,        *)
(* SGLLiquidation), except that a liquidation is two: the contract that    *)
(* gets the collateral runs between them, and may call the functions of    *)
(* the market that do not go through execute, which is nonReentrant.       *)
(*                                                                         *)
(* As in BigBang, reverts are guards and callers act for themselves.  What *)
(* setMarketConfig and setSingularityConfig set is constant.               *)
(***************************************************************************)
EXTENDS MarketMath, Sums

CONSTANTS
  Users, Penrose,
  LendShares, RemoveFractions,       \* what users pass to addAsset and removeAsset
  BorrowAmounts, RepayParts,
  AddAmounts, AddShares,             \* to addCollateral
  RemoveShares,                      \* to removeCollateral and sellCollateral
  LeverageAmounts, SwapOutputs,      \* leverage inputs and what a swap returns
  MaxBorrowParts, MinBonuses,        \* what liquidators pass
  AssetDonations, CollateralDonations, \* shares sent to the market by transfer
  ExchangeRates,                     \* what the oracle may answer
  Pausable,                          \* pause options that are flipped
  borrowOpeningFee, protocolFee,     \* of FEE_PRECISION
  minLendAmount, minBorrowAmount, minCollateralAmount, totalBorrowCap,
  MinFractions,                      \* 1000: a pool is empty or has that many
  INTEREST_PRECISION,                \* 1e18
  UTILIZATION_PRECISION,             \* 1e18, which is full utilization too
  minimumTargetUtilization, maximumTargetUtilization,
  minimumInterestPerSecond, maximumInterestPerSecond, startingInterestPerSecond,
  interestElasticity,
  MaxElapsed,                        \* bound: time units between accruals
  MaxDebt,                           \* bound: debt that time is let pass with
  MaxAssets, MaxCollateral           \* bounds: shares in the market

ASSUME SingularityAssumption ==
  /\ IsFiniteSet(Users) /\ Penrose \notin Users
  /\ LendShares \subseteq Nat /\ RemoveFractions \subseteq Nat
  /\ BorrowAmounts \subseteq Nat /\ RepayParts \subseteq Nat
  /\ AddAmounts \subseteq Nat /\ AddShares \subseteq Nat /\ RemoveShares \subseteq Nat
  /\ LeverageAmounts \subseteq Nat /\ SwapOutputs \subseteq Nat
  /\ MaxBorrowParts \subseteq Nat /\ MinBonuses \subseteq Nat
  /\ AssetDonations \subseteq Nat /\ CollateralDonations \subseteq Nat
  /\ ExchangeRates \subseteq Nat \ {0}
  /\ borrowOpeningFee \in 0..FEE_PRECISION /\ protocolFee \in 0..FEE_PRECISION
  /\ minLendAmount \in Nat /\ minBorrowAmount \in Nat /\ minCollateralAmount \in Nat
  /\ totalBorrowCap \in Nat /\ MinFractions \in Nat \ {0}
  /\ INTEREST_PRECISION \in Nat \ {0} /\ UTILIZATION_PRECISION \in Nat \ {0}
  /\ minimumTargetUtilization \in Nat
  /\ maximumTargetUtilization \in 0..(UTILIZATION_PRECISION - 1)
  /\ minimumInterestPerSecond \in Nat /\ maximumInterestPerSecond \in Nat
  /\ startingInterestPerSecond \in minimumInterestPerSecond..maximumInterestPerSecond
  /\ interestElasticity \in Nat \ {0}
  /\ MaxElapsed \in Nat /\ MaxDebt \in Nat /\ MaxAssets \in Nat /\ MaxCollateral \in Nat

PauseType == {"AddAsset", "RemoveAsset", "Borrow", "Repay", "AddCollateral",
              "RemoveCollateral", "Liquidation", "LeverageBuy", "LeverageSell"}

Holders == Users \cup {Penrose}

VARIABLES
  totalAsset,            \* elastic YieldBox shares of the asset, base fractions
  balanceOf,             \* fractions
  feesEarnedFraction,    \* fractions of Penrose not in balanceOf yet
  assetBalance,          \* YieldBox asset shares the market holds
  totalBorrow,           \* debt: elastic tokens against base parts
  userBorrowPart,
  userCollateralShare,
  totalCollateralShare,
  collateralBalance,     \* YieldBox collateral shares the market holds
  exchangeRate,          \* the cached rate
  interestPerSecond,
  elapsed,               \* block.timestamp - accrueInfo.lastAccrued
  pauseOptions,
  receiver               \* the liquidation whose receiver runs, if one does

assetVars      == <<totalAsset, balanceOf, feesEarnedFraction, assetBalance>>
debtVars       == <<totalBorrow, userBorrowPart>>
collateralVars == <<userCollateralShare, totalCollateralShare, collateralBalance>>
rateVars       == <<interestPerSecond, elapsed>>
vars == <<assetVars, debtVars, collateralVars, rateVars, exchangeRate, pauseOptions, receiver>>

TypeOK ==
  /\ totalAsset \in RebaseType
  /\ balanceOf \in [Holders -> Nat]
  /\ feesEarnedFraction \in Nat
  /\ assetBalance \in Nat
  /\ totalBorrow \in RebaseType
  /\ userBorrowPart \in [Users -> Nat]
  /\ userCollateralShare \in [Users -> Nat]
  /\ totalCollateralShare \in Nat
  /\ collateralBalance \in Nat
  /\ exchangeRate \in ExchangeRates
  /\ interestPerSecond \in minimumInterestPerSecond..maximumInterestPerSecond
  /\ elapsed \in 0..MaxElapsed
  /\ pauseOptions \in [PauseType -> BOOLEAN]
  /\ receiver \subseteq [amount : Nat, least : Nat, reward : Nat]

Init ==
  /\ totalAsset = EmptyRebase
  /\ balanceOf = [h \in Holders |-> 0]
  /\ feesEarnedFraction = 0
  /\ assetBalance = 0
  /\ totalBorrow = EmptyRebase
  /\ userBorrowPart = [u \in Users |-> 0]
  /\ userCollateralShare = [u \in Users |-> 0]
  /\ totalCollateralShare = 0
  /\ collateralBalance = 0
  /\ exchangeRate \in ExchangeRates
  /\ interestPerSecond = startingInterestPerSecond
  /\ elapsed = 0
  /\ pauseOptions = [t \in PauseType |-> FALSE]
  /\ receiver = {}

\* execute is not entered a second time.
NotEntered == receiver = {}

-----------------------------------------------------------------------------
(* Accrual (SGLInterestHelper).  Without time nothing is charged and the   *)
(* rate stays; without debt nothing is charged and the rate starts again.  *)

fullAssetAmount(asset, debt) == toAmount(asset.elastic, FALSE) + debt.elastic

Charges == elapsed > 0 /\ totalBorrow.base > 0

extraAmount ==
  IF Charges
  THEN (totalBorrow.elastic * interestPerSecond * elapsed) \div INTEREST_PRECISION
  ELSE 0

accruedBorrow == Add(totalBorrow, extraAmount, 0)

(* Fractions for a fee paid to a pool of which they will be part: fee is   *)
(* a part of full already.                                                 *)
feeFraction(fee, base, full) == IF fee = 0 THEN 0 ELSE (fee * base) \div (full - fee)

accruedFraction ==
  IF Charges
  THEN feeFraction(feeOf(extraAmount, protocolFee), totalAsset.base,
                   fullAssetAmount(totalAsset, accruedBorrow))
  ELSE 0

accruedAsset == Add(totalAsset, 0, accruedFraction)

utilization ==
  LET debt == accruedBorrow
      full == fullAssetAmount(totalAsset, debt)
  IN  IF full = 0 THEN 0 ELSE (debt.elastic * UTILIZATION_PRECISION) \div full

Most(a, b) == IF a >= b THEN a ELSE b

(* The elasticity, weighted by how far utilization is off its target.      *)
scale(distance, target) ==
  LET factor == (distance * UTILIZATION_PRECISION) \div target
  IN  interestElasticity + factor * factor * elapsed

lowered(use) ==
  Most(minimumInterestPerSecond,
       (interestPerSecond * interestElasticity)
         \div scale(minimumTargetUtilization - use, minimumTargetUtilization))

(* WRONG, for TLC to refute: the maximum forgotten. *)
raisedUnbounded(use) ==
  (interestPerSecond * scale(use - maximumTargetUtilization,
                             UTILIZATION_PRECISION - maximumTargetUtilization))
    \div interestElasticity

raised(use) ==
  Least(maximumInterestPerSecond,
        (interestPerSecond * scale(use - maximumTargetUtilization,
                                   UTILIZATION_PRECISION - maximumTargetUtilization))
          \div interestElasticity)

accruedRate ==
  LET use == utilization
  IN  IF elapsed = 0 THEN interestPerSecond
      ELSE IF totalBorrow.base = 0 THEN startingInterestPerSecond
      ELSE IF use < minimumTargetUtilization THEN lowered(use)
      ELSE IF use > maximumTargetUtilization THEN raised(use)
      ELSE interestPerSecond

(* What an accrual does besides the totals, which reverts when they do not *)
(* fit.                                                                    *)
Accrues ==
  /\ Fits(accruedBorrow) /\ Fits(accruedAsset)
  /\ interestPerSecond' = accruedRate
  /\ elapsed' = 0

AccruesFees == feesEarnedFraction' = feesEarnedFraction + accruedFraction

-----------------------------------------------------------------------------
(* Lending.  These are not guarded against re-entrance. *)

(* All shares of the pool, lent ones included. *)
allShare(asset, debt) == asset.elastic + toShare(debt.elastic)

(* WRONG: the debt is left out of what fractions are worth. *)
fractionOfIdle(share) ==
  IF accruedAsset.elastic = 0 THEN share
  ELSE (share * accruedAsset.base) \div accruedAsset.elastic

fractionFor(share) ==
  LET all == allShare(accruedAsset, accruedBorrow)
  IN  IF all = 0 THEN share ELSE (share * accruedAsset.base) \div all

(* Where shares come from: those the market has and counted nowhere, or    *)
(* the caller's.                                                           *)
TakesAsset(share, skim) ==
  IF skim THEN /\ share <= assetBalance - totalAsset.elastic
               /\ UNCHANGED assetBalance
          ELSE /\ assetBalance + share <= MaxAssets
               /\ assetBalance' = assetBalance + share

(* Too few fractions for a pool: the call ends well and takes nothing.     *)
addAsset(to, share, skim) ==
  LET fraction == fractionFor(share)
      after    == Add(accruedAsset, share, fraction)
  IN  /\ ~pauseOptions["AddAsset"]
      /\ toAmount(share, FALSE) > minLendAmount
      /\ Accrues /\ AccruesFees
      /\ totalBorrow' = accruedBorrow
      /\ IF after.base < MinFractions
         THEN /\ totalAsset' = accruedAsset
              /\ UNCHANGED <<balanceOf, assetBalance>>
         ELSE /\ Fits(after)
              /\ totalAsset' = after
              /\ balanceOf' = [balanceOf EXCEPT ![to] = @ + fraction]
              /\ TakesAsset(share, skim)
      /\ UNCHANGED <<userBorrowPart, collateralVars, exchangeRate, pauseOptions, receiver>>

shareOf(fraction, asset, debt) == (fraction * allShare(asset, debt)) \div asset.base

(* _removeAsset; balance is balanceOf when it is called.  An empty pool    *)
(* has nothing to remove, and the call ends well.                          *)
Removes(from, fraction, balance, asset, debt) ==
  IF asset.base = 0
  THEN totalAsset' = asset /\ balanceOf' = balance /\ UNCHANGED assetBalance
  ELSE LET share == shareOf(fraction, asset, debt)
           after == Sub(asset, share, fraction)
       IN  /\ after.base >= MinFractions
           /\ fraction <= balance[from]
           /\ after.elastic >= 0
           /\ totalAsset' = after
           /\ balanceOf' = [balance EXCEPT ![from] = @ - fraction]
           /\ assetBalance' = assetBalance - share

removeAsset(from, fraction) ==
  /\ ~pauseOptions["RemoveAsset"]
  /\ Accrues /\ AccruesFees
  /\ Removes(from, fraction, balanceOf, accruedAsset, accruedBorrow)
  /\ totalBorrow' = accruedBorrow
  /\ UNCHANGED <<userBorrowPart, collateralVars, exchangeRate, pauseOptions, receiver>>

(* Fractions are tokens: they may be sent, to Penrose too. *)
transfer(from, to, amount) ==
  /\ amount <= balanceOf[from]
  /\ from # to
  /\ balanceOf' = [balanceOf EXCEPT ![from] = @ - amount, ![to] = @ + amount]
  /\ UNCHANGED <<totalAsset, feesEarnedFraction, assetBalance, debtVars, collateralVars,
                 rateVars, exchangeRate, pauseOptions, receiver>>

-----------------------------------------------------------------------------
(* Collateral. *)

addCollateral(to, amount, share, skim) ==
  LET credited == IF share = 0 THEN toShare(amount) ELSE share
      checked  == IF amount = 0 THEN toAmount(credited, FALSE) ELSE amount
  IN  /\ NotEntered
      /\ ~pauseOptions["AddCollateral"]
      /\ checked > minCollateralAmount
      /\ IF skim THEN /\ credited <= collateralBalance - totalCollateralShare
                      /\ UNCHANGED collateralBalance
                 ELSE /\ collateralBalance + credited <= MaxCollateral
                      /\ collateralBalance' = collateralBalance + credited
      /\ userCollateralShare' = [userCollateralShare EXCEPT ![to] = @ + credited]
      /\ totalCollateralShare' = totalCollateralShare + credited
      /\ UNCHANGED <<assetVars, debtVars, rateVars, exchangeRate, pauseOptions, receiver>>

(* WRONG: the total of the collateral left as it is. *)
RemovesCollateralUncounted(from, share) ==
  /\ share <= userCollateralShare[from]
  /\ userCollateralShare' = [userCollateralShare EXCEPT ![from] = @ - share]
  /\ collateralBalance' = collateralBalance - share
  /\ UNCHANGED totalCollateralShare

RemovesCollateral(from, share) ==
  /\ share <= userCollateralShare[from]
  /\ userCollateralShare' = [userCollateralShare EXCEPT ![from] = @ - share]
  /\ totalCollateralShare' = totalCollateralShare - share
  /\ collateralBalance' = collateralBalance - share

(* WRONG: the check before the body. *)
SolventBefore(from, rate) ==
  /\ Accrues /\ AccruesFees
  /\ exchangeRate' = rate
  /\ isSolvent(userBorrowPart[from], userCollateralShare[from], accruedBorrow, rate, FALSE)

(* The modifier solvent: the rate of the oracle and an accrual before, the *)
(* check after the body.                                                   *)
Solvent(from, rate) ==
  /\ Accrues /\ AccruesFees
  /\ exchangeRate' = rate
  /\ isSolvent(userBorrowPart'[from], userCollateralShare'[from], totalBorrow', rate, FALSE)

removeCollateral(from, share, rate) ==
  /\ NotEntered
  /\ ~pauseOptions["RemoveCollateral"]
  /\ RemovesCollateral(from, share)
  /\ totalBorrow' = accruedBorrow
  /\ totalAsset' = accruedAsset
  /\ UNCHANGED <<userBorrowPart, balanceOf, assetBalance, pauseOptions, receiver>>
  /\ Solvent(from, rate)

-----------------------------------------------------------------------------
(* Borrowing and repaying. *)

(* The opening fee is owed by the borrower; Penrose gets fractions for it  *)
(* at what they are worth before it.                                       *)
openingFraction(fee) ==
  IF fee = 0 THEN 0
  ELSE (fee * accruedAsset.base) \div fullAssetAmount(accruedAsset, accruedBorrow)

(* WRONG: rounded in the borrower's favour. *)
borrowPartDown(amount) == ToBase(accruedBorrow, amount, FALSE)

(* The parts for `amount` of new debt round up. *)
borrowPart(amount) == ToBase(accruedBorrow, amount, TRUE)

(* _borrow: the asset leaves the pool, the debt takes its place. *)
Borrows(from, amount) ==
  LET fee   == feeOf(amount, borrowOpeningFee)
      part  == borrowPart(amount + fee)
      debt  == Add(accruedBorrow, amount + fee, part)
      asset == [elastic |-> accruedAsset.elastic - toShare(amount),
                base    |-> accruedAsset.base + openingFraction(fee)]
  IN  /\ accruedAsset.base >= MinFractions
      /\ asset.elastic >= 0
      /\ Fits(asset) /\ Fits(debt)
      /\ totalBorrowCap > 0 => debt.elastic <= totalBorrowCap
      /\ totalBorrow' = debt
      /\ totalAsset' = asset
      /\ userBorrowPart' = [userBorrowPart EXCEPT ![from] = @ + part]
      /\ balanceOf' = [balanceOf EXCEPT ![Penrose] = @ + openingFraction(fee)]
      /\ assetBalance' = assetBalance - toShare(amount)

borrow(from, amount, rate) ==
  /\ NotEntered
  /\ ~pauseOptions["Borrow"]
  /\ amount > minBorrowAmount
  /\ Borrows(from, amount)
  /\ UNCHANGED <<collateralVars, pauseOptions, receiver>>
  /\ Solvent(from, rate)

(* WRONG: skimmed shares taken from those lenders own. *)
RepaysSkimmingAll(to, part, skim) ==
  LET amount == ToElastic(accruedBorrow, part, TRUE)
  IN  /\ part > 0
      /\ amount <= accruedBorrow.elastic
      /\ totalBorrow' = Sub(accruedBorrow, amount, part)
      /\ userBorrowPart' = [userBorrowPart EXCEPT ![to] = @ - part]
      /\ totalAsset' = Add(accruedAsset, toShare(amount), 0)
      /\ IF skim THEN toShare(amount) <= assetBalance /\ UNCHANGED assetBalance
                 ELSE assetBalance' = assetBalance + toShare(amount)

(* _repay: the tokens for part round up and go back to the pool. *)
Repays(to, part, skim) ==
  LET amount == ToElastic(accruedBorrow, part, TRUE)
      asset  == Add(accruedAsset, toShare(amount), 0)
  IN  /\ part > 0
      /\ amount <= accruedBorrow.elastic
      /\ Fits(asset)
      /\ totalBorrow' = Sub(accruedBorrow, amount, part)
      /\ userBorrowPart' = [userBorrowPart EXCEPT ![to] = @ - part]
      /\ totalAsset' = asset
      /\ TakesAsset(toShare(amount), skim)

repay(to, part, skim, rate) ==
  /\ NotEntered
  /\ ~pauseOptions["Repay"]
  /\ Accrues /\ AccruesFees
  /\ Repays(to, Least(part, userBorrowPart[to]), skim)
  /\ exchangeRate' = rate
  /\ UNCHANGED <<balanceOf, collateralVars, pauseOptions, receiver>>

-----------------------------------------------------------------------------
(* Leverage: the executor, which the owner sets, swaps outside the market  *)
(* and returns `out`; what a sale leaves after the repayment is the user's.*)

buyCollateral(from, amount, out, rate) ==
  LET share == toShare(out)
  IN  /\ NotEntered
      /\ ~pauseOptions["LeverageBuy"]
      /\ share > 0
      /\ collateralBalance + share <= MaxCollateral
      /\ Borrows(from, amount)
      /\ userCollateralShare' = [userCollateralShare EXCEPT ![from] = @ + share]
      /\ totalCollateralShare' = totalCollateralShare + share
      /\ collateralBalance' = collateralBalance + share
      /\ UNCHANGED <<pauseOptions, receiver>>
      /\ Solvent(from, rate)

sellCollateral(from, share, out, rate) ==
  LET partOwed == userBorrowPart[from]
      owed     == ToElastic(accruedBorrow, partOwed, TRUE)
      part     == IF toShare(owed) <= toShare(out) THEN partOwed
                  ELSE Least(ToBase(accruedBorrow, out, FALSE), partOwed)
  IN  /\ NotEntered
      /\ ~pauseOptions["LeverageSell"]
      /\ out > 0
      /\ RemovesCollateral(from, share)
      /\ Repays(from, part, FALSE)
      /\ UNCHANGED <<balanceOf, pauseOptions, receiver>>
      /\ Solvent(from, rate)

-----------------------------------------------------------------------------
(* Liquidation. *)

(* Seized collateral leaves YieldBox by whole tokens. *)
SendsCollateral(share) ==
  collateralBalance' = collateralBalance - toShare(toAmount(share, FALSE))

(* What a receiver has to return; else all it and liquidate did is undone. *)
Suffices(returned, call) ==
  /\ returned > 0 /\ returned >= call.least
  /\ toShare(returned) >= toShare(call.amount)

(* One user of a liquidate call, up to the call of the receiver: the debt  *)
(* and the collateral are gone, the repayment has not come.                *)
liquidate(user, maxBorrowPart, minBonus, rate) ==
  LET part  == userBorrowPart[user]
      share == userCollateralShare[user]
  IN  /\ NotEntered
      /\ ~pauseOptions["Liquidation"]
      /\ Accrues /\ AccruesFees
      /\ ~isSolvent(part, share, accruedBorrow, rate, TRUE)
      /\ closingDenominator # 0
      /\ \E cut \in liquidationCut(part, share, accruedBorrow, rate, maxBorrowPart, minBonus) :
           /\ cut.amount <= accruedBorrow.elastic /\ cut.part <= accruedBorrow.base
           /\ totalBorrow' = Sub(accruedBorrow, cut.amount, cut.part)
           /\ userBorrowPart' = [userBorrowPart EXCEPT ![user] = @ - cut.part]
           /\ userCollateralShare' = [userCollateralShare EXCEPT ![user] = @ - cut.share]
           /\ totalCollateralShare' = IF totalCollateralShare > cut.share
                                      THEN totalCollateralShare - cut.share ELSE 0
           /\ SendsCollateral(cut.share)
           /\ LET call == [amount |-> cut.amount,
                           least  |-> minReturned(cut.share, rate),
                           reward |-> getCallerReward(part, share, accruedBorrow, rate)]
              IN  /\ \E returned \in SwapOutputs : Suffices(returned, call)
                  /\ receiver' = {call}
      /\ totalAsset' = accruedAsset
      /\ exchangeRate' = rate
      /\ UNCHANGED <<balanceOf, assetBalance, pauseOptions>>

(* Fractions for the protocol's part of the surplus. *)
surplusFraction(feeShare, asset) ==
  IF feeShare = 0 THEN 0
  ELSE (toAmount(feeShare, FALSE) * asset.base) \div fullAssetAmount(asset, totalBorrow)

(* The receiver has returned enough: the debt is made good and what is     *)
(* left is split.  Totals are read again, as they are now.                 *)
onCollateralReceiver(returned) ==
  \E call \in receiver :
    LET split == extractLiquidationFees(toShare(returned), toShare(call.amount), call.reward)
        asset == Add(totalAsset, toShare(call.amount), 0)
        fraction == surplusFraction(split.feeShare, asset)
        after == Add(asset, split.feeShare, fraction)
    IN  /\ Suffices(returned, call)
        /\ Fits(after)
        /\ totalAsset' = after
        /\ balanceOf' = [balanceOf EXCEPT ![Penrose] = @ + fraction]
        /\ assetBalance' = assetBalance + toShare(call.amount) + split.feeShare
        /\ receiver' = {}
        /\ UNCHANGED <<feesEarnedFraction, debtVars, collateralVars, rateVars,
                       exchangeRate, pauseOptions>>

(* The debt of a position its collateral does not cover is paid by a       *)
(* whitelisted account, and the collateral leaves.                         *)
liquidateBadDebt(user, rate) ==
  LET part     == userBorrowPart[user]
      share    == userCollateralShare[user]
      owed     == ToElastic(accruedBorrow, part, FALSE)
      required == toShare(((owed + feeOf(owed, liquidationMultiplier)) * rate)
                             \div EXCHANGE_RATE_PRECISION)
      amount   == ToElastic(accruedBorrow, part, TRUE)
      asset    == Add(accruedAsset, toShare(amount), 0)
  IN  /\ NotEntered
      /\ Accrues /\ AccruesFees
      /\ required >= share
      /\ amount <= accruedBorrow.elastic
      /\ Fits(asset)
      /\ totalBorrow' = Sub(accruedBorrow, amount, part)
      /\ userBorrowPart' = [userBorrowPart EXCEPT ![user] = 0]
      /\ userCollateralShare' = [userCollateralShare EXCEPT ![user] = 0]
      /\ totalCollateralShare' = totalCollateralShare - share
      /\ SendsCollateral(share)
      /\ totalAsset' = asset
      /\ assetBalance' = assetBalance + toShare(amount)
      /\ exchangeRate' = rate
      /\ UNCHANGED <<balanceOf, pauseOptions, receiver>>

-----------------------------------------------------------------------------
(* Interest, fees, pauses and the environment. *)

accrueOnly ==
  /\ Accrues /\ AccruesFees
  /\ totalBorrow' = accruedBorrow
  /\ totalAsset' = accruedAsset
  /\ UNCHANGED <<balanceOf, assetBalance, userBorrowPart, collateralVars, exchangeRate, receiver>>

accrue ==
  /\ ~pauseOptions["AddCollateral"] /\ ~pauseOptions["RemoveCollateral"]
  /\ accrueOnly
  /\ UNCHANGED pauseOptions

updateExchangeRate(rate) ==
  /\ exchangeRate' = rate
  /\ UNCHANGED <<assetVars, debtVars, collateralVars, rateVars, pauseOptions, receiver>>

(* WRONG: the fractions moved to Penrose are earned once more. *)
WithdrawsEarnedTwice ==
  LET earned  == feesEarnedFraction + accruedFraction
      balance == [balanceOf EXCEPT ![Penrose] = @ + earned]
  IN  /\ feesEarnedFraction > 0
      /\ Accrues /\ AccruesFees
      /\ Removes(Penrose, balance[Penrose], balance, accruedAsset, accruedBorrow)
      /\ totalBorrow' = accruedBorrow

(* The fractions Penrose has earned since the last time become its, and it *)
(* takes all that are.                                                     *)
WithdrawsEarned ==
  LET earned  == feesEarnedFraction + accruedFraction
      balance == [balanceOf EXCEPT ![Penrose] = @ + earned]
  IN  /\ feesEarnedFraction > 0
      /\ Accrues
      /\ feesEarnedFraction' = 0
      /\ Removes(Penrose, balance[Penrose], balance, accruedAsset, accruedBorrow)
      /\ totalBorrow' = accruedBorrow

(* It has earned none, and nothing is accrued before it takes the others.  *)
WithdrawsHeld ==
  /\ feesEarnedFraction = 0
  /\ Removes(Penrose, balanceOf[Penrose], balanceOf, totalAsset, totalBorrow)
  /\ UNCHANGED <<totalBorrow, feesEarnedFraction, rateVars>>

refreshPenroseFees ==
  /\ NotEntered
  /\ WithdrawsEarned \/ WithdrawsHeld
  /\ UNCHANGED <<userBorrowPart, collateralVars, exchangeRate, pauseOptions, receiver>>

(* Pausing charges what is due; unpausing may waive what came due since,   *)
(* except for the two options that stop accrue.                            *)
updatePause(option, val, resetAccrueTimestamp) ==
  /\ NotEntered
  /\ pauseOptions[option] # val
  /\ pauseOptions' = [pauseOptions EXCEPT ![option] = val]
  /\ IF val
     THEN accrueOnly
     ELSE /\ elapsed' = IF /\ resetAccrueTimestamp
                           /\ option \notin {"AddCollateral", "RemoveCollateral"}
                        THEN 0 ELSE elapsed
          /\ UNCHANGED <<assetVars, debtVars, collateralVars, interestPerSecond,
                         exchangeRate, receiver>>

(* Anybody may send the market shares of YieldBox. *)
donateCollateral(share) ==
  /\ collateralBalance + share <= MaxCollateral
  /\ collateralBalance' = collateralBalance + share
  /\ UNCHANGED <<assetVars, debtVars, userCollateralShare, totalCollateralShare,
                 rateVars, exchangeRate, pauseOptions, receiver>>

donateAsset(share) ==
  /\ assetBalance + share <= MaxAssets
  /\ assetBalance' = assetBalance + share
  /\ UNCHANGED <<totalAsset, balanceOf, feesEarnedFraction, debtVars, collateralVars,
                 rateVars, exchangeRate, pauseOptions, receiver>>

Tick ==
  /\ NotEntered
  /\ elapsed < MaxElapsed /\ totalBorrow.elastic <= MaxDebt
  /\ elapsed' = elapsed + 1
  /\ UNCHANGED <<assetVars, debtVars, collateralVars, interestPerSecond, exchangeRate,
                 pauseOptions, receiver>>

-----------------------------------------------------------------------------

LendingCall(u) ==
  \/ \E share \in LendShares, skim \in BOOLEAN : addAsset(u, share, skim)
  \/ \E fraction \in RemoveFractions : removeAsset(u, fraction)
  \/ \E to \in Holders, amount \in RemoveFractions : transfer(u, to, amount)

CollateralCall(u, rate) ==
  \/ \E amount \in AddAmounts, share \in AddShares, skim \in BOOLEAN :
       addCollateral(u, amount, share, skim)
  \/ \E share \in RemoveShares : removeCollateral(u, share, rate)

DebtCall(u, rate) ==
  \/ \E amount \in BorrowAmounts : borrow(u, amount, rate)
  \/ \E part \in RepayParts, skim \in BOOLEAN : repay(u, part, skim, rate)

LeverageCall(u, rate) ==
  \/ \E amount \in LeverageAmounts, out \in SwapOutputs : buyCollateral(u, amount, out, rate)
  \/ \E share \in RemoveShares, out \in SwapOutputs : sellCollateral(u, share, out, rate)

LiquidationCall(u, rate) ==
  \/ \E limit \in MaxBorrowParts, bonus \in MinBonuses : liquidate(u, limit, bonus, rate)
  \/ liquidateBadDebt(u, rate)

UserCall ==
  \E u \in Users :
    \/ LendingCall(u)
    \/ \E rate \in ExchangeRates :
         \/ CollateralCall(u, rate)
         \/ DebtCall(u, rate)
         \/ LeverageCall(u, rate)
         \/ LiquidationCall(u, rate)

OwnerCall ==
  \/ refreshPenroseFees
  \/ \E option \in Pausable, val \in BOOLEAN, reset \in BOOLEAN :
       updatePause(option, val, reset)

Environment ==
  \/ \E returned \in SwapOutputs : onCollateralReceiver(returned)
  \/ accrue
  \/ \E rate \in ExchangeRates : updateExchangeRate(rate)
  \/ \E share \in CollateralDonations : donateCollateral(share)
  \/ \E share \in AssetDonations : donateAsset(share)
  \/ Tick

Next == UserCall \/ OwnerCall \/ Environment

Spec == Init /\ [][Next]_vars

-----------------------------------------------------------------------------
(* Properties. *)

(* Every fraction of the pool is somebody's: those counted in the total    *)
(* are the holders' and those Penrose has earned and not been given, after *)
(* interest, opening fees, surplus, transfers and withdrawals of fees, and *)
(* whatever is lent while the receiver of a liquidation runs.              *)
FractionsSum == totalAsset.base = SumOver(balanceOf) + feesEarnedFraction

(* The debt and the collateral of the market are the sums of its users'.   *)
PositionsSum ==
  /\ totalBorrow.base = SumOver(userBorrowPart)
  /\ totalCollateralShare = SumOver(userCollateralShare)

(* The market has in YieldBox what it counts as the pool's and the users': *)
(* no skim takes shares that are somebody's.                               *)
Custody ==
  /\ totalAsset.elastic <= assetBalance
  /\ totalCollateralShare <= collateralBalance

(* What the fractions are worth together, in shares: the pool, the debt,   *)
(* and what the receiver that runs has to make good.                       *)
due == IF receiver = {} THEN 0 ELSE toShare((CHOOSE call \in receiver : TRUE).amount)

worth == allShare(totalAsset, totalBorrow) + due

(* What one user or Penrose does never costs the others: the fractions     *)
(* there were before a call are worth what they were, up to less than one  *)
(* token for all of them, which the fees of the call may cost them when    *)
(* the pool holds a part of a token.  The calls a receiver makes while it  *)
(* runs are left out: a debt is gone and its repayment not there, and who  *)
(* lends then lends at a lower price.                                      *)
LendersNeverLose ==
  [][ (totalAsset.base > 0 /\ (receiver = {} \/ receiver' = {}))
        => (worth - SharesPerAmount) * totalAsset'.base < worth' * totalAsset.base ]_vars

(* Without time passing, no call makes a part of the debt more expensive:  *)
(* what one user borrows, repays or has liquidated never adds to the debt  *)
(* of another, the fee and the rounding of his own loan included.          *)
DebtPerPartGrowsOnlyWithTime ==
  [][ (elapsed = 0 /\ totalBorrow.base > 0 /\ totalBorrow'.base > 0)
        => totalBorrow'.elastic * totalBorrow.base
             <= totalBorrow.elastic * totalBorrow'.base ]_vars

(* A solvent user stays solvent unless the oracle moves or interest is     *)
(* charged: nobody, the user included, can push a position over the limit. *)
SolventAt(u) ==
  isSolvent(userBorrowPart[u], userCollateralShare[u], totalBorrow, exchangeRate, FALSE)

OnlyPriceOrInterestEndangers ==
  [][ (exchangeRate' = exchangeRate /\ elapsed' >= elapsed)
        => \A u \in Users : SolventAt(u) => SolventAt(u)' ]_vars

=============================================================================
