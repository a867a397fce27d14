------------------------------ MODULE BigBang ------------------------------
(***************************************************************************)
(* One BigBang market: users lock collateral in YieldBox and borrow USDO,  *)
(* which the market mints for them and burns when they repay or are        *)
(* liquidated.  One action per external entry point (BBCollateral,         *)
(* BBBorrow, BBLeverage, BBLiquidation and the owner functions of BigBang) *)
(* plus the environment: time, the oracle and plain token transfers.       *)
(*                                                                         *)
(* A call that reverts changes nothing, so reverts are guards, and a       *)
(* revert for a reason outside this module (an approval, Penrose or USDO   *)
(* paused, an ETH market that refuses to accrue) is a step not taken.      *)
(* BigBang.execute is nonReentrant and delegatecalls its modules one after *)
(* the other: a batch is a sequence of these actions, and a failing call   *)
(* of it is one left out.  Callers act on their own positions here.        *)
(***************************************************************************)
EXTENDS MarketMath, Sums

CONSTANTS
  Users,
  BorrowAmounts, RepayParts,         \* what users pass to borrow and repay
  AddAmounts, AddShares,             \* what they pass to addCollateral
  RemoveShares,                      \* and to removeCollateral and sellCollateral
  LeverageAmounts, SwapOutputs,      \* leverage inputs and what a swap returns
  MaxBorrowParts, MinBonuses,        \* what liquidators pass
  Donations,                         \* tokens sent to the market by transfer
  ExchangeRates, AssetPrices,        \* what the two oracles may answer
  DebtRates, DEBT_PRECISION,         \* what the debt rate helper may answer
  Pausable,                          \* pause options a conservator flips singly
  minBorrowAmount, minCollateralAmount, totalBorrowCap,
  OutsideUsdo,                       \* USDO other markets minted
  MaxElapsed,                        \* bound: time units between accruals
  MaxCollateral                      \* bound: collateral shares in the market

ASSUME MarketAssumption ==
  /\ IsFiniteSet(Users)
  /\ BorrowAmounts \subseteq Nat /\ RepayParts \subseteq Nat
  /\ AddAmounts \subseteq Nat /\ AddShares \subseteq Nat /\ RemoveShares \subseteq Nat
  /\ LeverageAmounts \subseteq Nat /\ SwapOutputs \subseteq Nat
  /\ MaxBorrowParts \subseteq Nat /\ MinBonuses \subseteq Nat
  /\ Donations \subseteq Nat
  /\ ExchangeRates \subseteq Nat \ {0} /\ AssetPrices \subseteq Nat
  /\ DebtRates \subseteq Nat /\ DEBT_PRECISION \in Nat \ {0}
  /\ minBorrowAmount \in Nat /\ minCollateralAmount \in Nat
  /\ totalBorrowCap \in Nat /\ OutsideUsdo \in Nat
  /\ MaxElapsed \in Nat /\ MaxCollateral \in Nat

PauseType == {"Borrow", "Repay", "AddCollateral", "RemoveCollateral",
              "Liquidation", "LeverageBuy", "LeverageSell"}

VARIABLES
  totalBorrow,           \* debt: elastic tokens against base parts
  openInterestDebt,      \* interest charged and not yet minted
  userBorrowPart,
  userCollateralShare,
  totalCollateralShare,
  collateralBalance,     \* YieldBox collateral shares the market holds
  usdoBalance,           \* USDO tokens the market itself holds (fees)
  usdoSupply,            \* USDO tokens in existence
  exchangeRate,          \* the cached rate
  elapsed,               \* block.timestamp - accrueInfo.lastAccrued
  pauseOptions

debtVars       == <<totalBorrow, openInterestDebt, userBorrowPart>>
collateralVars == <<userCollateralShare, totalCollateralShare, collateralBalance>>
usdoVars       == <<usdoBalance, usdoSupply>>
vars           == <<debtVars, collateralVars, usdoVars, exchangeRate, elapsed, pauseOptions>>

TypeOK ==
  /\ totalBorrow \in RebaseType
  /\ openInterestDebt \in Nat
  /\ userBorrowPart \in [Users -> Nat]
  /\ userCollateralShare \in [Users -> Nat]
  /\ totalCollateralShare \in Nat
  /\ collateralBalance \in Nat
  /\ usdoBalance \in Nat
  /\ usdoSupply \in Nat
  /\ exchangeRate \in ExchangeRates
  /\ elapsed \in 0..MaxElapsed
  /\ pauseOptions \in [PauseType -> BOOLEAN]

(* init reads the oracle once; Penrose deploys the market unpaused.         *)
(* lastAccrued starts at zero, but the time before the first accrual is    *)
(* charged on a debt of nothing, and elapsed leaves it out.                *)
Init ==
  /\ totalBorrow = EmptyRebase
  /\ openInterestDebt = 0
  /\ userBorrowPart = [u \in Users |-> 0]
  /\ userCollateralShare = [u \in Users |-> 0]
  /\ totalCollateralShare = 0
  /\ collateralBalance = 0
  /\ usdoBalance = 0
  /\ usdoSupply = OutsideUsdo
  /\ exchangeRate \in ExchangeRates
  /\ elapsed = 0
  /\ pauseOptions = [t \in PauseType |-> FALSE]

-----------------------------------------------------------------------------
(* Accrual, the oracle and USDO. *)

(* WRONG, for TLC to refute: the cap forgotten. *)
uncappedInterest(debtRate) == (totalBorrow.elastic * debtRate * elapsed) \div DEBT_PRECISION

(* The interest a call charges first, when the rate helper answers         *)
(* debtRate; capped so that elastic stays a uint128.                       *)
interest(debtRate) ==
  IF elapsed = 0 THEN 0
  ELSE Least((totalBorrow.elastic * debtRate * elapsed) \div DEBT_PRECISION,
             UINT128_MAX - totalBorrow.elastic)

accrued(debtRate) == Add(totalBorrow, interest(debtRate), 0)

(* The part of _accrue that every call makes besides the debt total. *)
Accrues(debtRate) ==
  /\ openInterestDebt' = openInterestDebt + interest(debtRate)
  /\ elapsed' = 0

(* updateExchangeRate caches the rate the oracle answers and reverts when  *)
(* it answers none; _tryUpdateExchangeRate then goes on with the cached    *)
(* one, which is a rate the oracle may answer again.                       *)
UpdatesRate(rate) == exchangeRate' = rate

(* USDO held by anyone but the market: what can be paid to it. *)
circulating == usdoSupply - usdoBalance

-----------------------------------------------------------------------------
(* Collateral. *)

(* WRONG: shares already credited to users claimed once more. *)
skimmableTwice == collateralBalance

(* The shares the market holds and has not credited to anybody. *)
skimmable == collateralBalance - totalCollateralShare

(* Callers give shares or an amount; given both, the minimum is checked on *)
(* the amount and the shares are what is credited.  Not skimming takes the *)
(* shares from the caller's YieldBox balance.                              *)
addCollateral(to, amount, share, skim) ==
  LET credited == IF share = 0 THEN toShare(amount) ELSE share
      checked  == IF amount = 0 THEN toAmount(credited, FALSE) ELSE amount
  IN  /\ ~pauseOptions["AddCollateral"]
      /\ checked > minCollateralAmount
      /\ IF skim THEN /\ credited <= skimmable
                      /\ UNCHANGED collateralBalance
                 ELSE /\ collateralBalance + credited <= MaxCollateral
                      /\ collateralBalance' = collateralBalance + credited
      /\ userCollateralShare' = [userCollateralShare EXCEPT ![to] = @ + credited]
      /\ totalCollateralShare' = totalCollateralShare + credited
      /\ UNCHANGED <<debtVars, usdoVars, exchangeRate, elapsed, pauseOptions>>

(* WRONG: the position checked before the collateral leaves it. *)
removeCollateralCheckedFirst(from, share, rate, debtRate) ==
  /\ ~pauseOptions["RemoveCollateral"]
  /\ share <= userCollateralShare[from]
  /\ isSolvent(userBorrowPart[from], userCollateralShare[from], accrued(debtRate), rate, FALSE)
  /\ totalBorrow' = accrued(debtRate)
  /\ userCollateralShare' = [userCollateralShare EXCEPT ![from] = @ - share]
  /\ totalCollateralShare' = totalCollateralShare - share
  /\ collateralBalance' = collateralBalance - share
  /\ Accrues(debtRate)
  /\ UpdatesRate(rate)
  /\ UNCHANGED <<userBorrowPart, usdoVars, pauseOptions>>

removeCollateral(from, share, rate, debtRate) ==
  /\ ~pauseOptions["RemoveCollateral"]
  /\ share <= userCollateralShare[from]
  /\ isSolvent(userBorrowPart[from], userCollateralShare[from] - share,
               accrued(debtRate), rate, FALSE)
  /\ totalBorrow' = accrued(debtRate)
  /\ userCollateralShare' = [userCollateralShare EXCEPT ![from] = @ - share]
  /\ totalCollateralShare' = totalCollateralShare - share
  /\ collateralBalance' = collateralBalance - share
  /\ Accrues(debtRate)
  /\ UpdatesRate(rate)
  /\ UNCHANGED <<userBorrowPart, usdoVars, pauseOptions>>

-----------------------------------------------------------------------------
(* Borrowing and repaying. *)

(* WRONG: rounded in the borrower's favour. *)
borrowPartDown(total, amount) == ToBase(total, amount, FALSE)

(* WRONG: parts taken for tokens. *)
borrowPartAsElastic(total, amount) == ToElastic(total, amount, TRUE)

(* The parts for `amount` of new debt round up. *)
borrowPart(total, amount) == ToBase(total, amount, TRUE)

(* WRONG: the borrower's entry grows without the parts of the fee. *)
BorrowsWithoutFee(from, amount, fee, debtRate) ==
  /\ Fits(Add(accrued(debtRate), amount + fee, borrowPart(accrued(debtRate), amount + fee)))
  /\ totalBorrow' = Add(accrued(debtRate), amount + fee,
                        borrowPart(accrued(debtRate), amount + fee))
  /\ userBorrowPart' = [userBorrowPart EXCEPT ![from] = @ + borrowPart(accrued(debtRate), amount)]
  /\ usdoSupply' = usdoSupply + amount
  /\ Accrues(debtRate)

(* _borrow: the fee is owed but only `amount` is minted. *)
Borrows(from, amount, fee, debtRate) ==
  LET total == accrued(debtRate)
      part  == borrowPart(total, amount + fee)
      after == Add(total, amount + fee, part)
  IN  /\ Fits(after)
      /\ totalBorrowCap > 0 => after.elastic <= totalBorrowCap
      /\ totalBorrow' = after
      /\ userBorrowPart' = [userBorrowPart EXCEPT ![from] = @ + part]
      /\ usdoSupply' = usdoSupply + amount
      /\ Accrues(debtRate)

borrow(from, amount, price, rate, debtRate) ==
  /\ ~pauseOptions["Borrow"]
  /\ amount > minBorrowAmount
  /\ Borrows(from, amount, computeVariableOpeningFee(amount, price), debtRate)
  /\ isSolvent(userBorrowPart'[from], userCollateralShare[from], totalBorrow', rate, FALSE)
  /\ UpdatesRate(rate)
  /\ UNCHANGED <<collateralVars, usdoBalance, pauseOptions>>

(* WRONG: YieldBox shares taken for tokens. *)
burnedShares(amount) == toAmount(amount, FALSE)

(* What is burned of a repayment that moved through YieldBox as shares. *)
burnedFor(amount) == toAmount(toShare(amount), FALSE)

(* _repay: the tokens for `part` round up, move through YieldBox and the   *)
(* market burns what it withdraws.                                         *)
Repays(to, part, debtRate) ==
  LET total  == accrued(debtRate)
      amount == ToElastic(total, part, TRUE)
  IN  /\ part > 0
      /\ amount <= total.elastic
      /\ burnedFor(amount) <= circulating
      /\ totalBorrow' = Sub(total, amount, part)
      /\ userBorrowPart' = [userBorrowPart EXCEPT ![to] = @ - part]
      /\ usdoSupply' = usdoSupply - burnedFor(amount)
      /\ Accrues(debtRate)

repay(to, part, rate, debtRate) ==
  /\ ~pauseOptions["Repay"]
  /\ Repays(to, Least(part, userBorrowPart[to]), debtRate)
  /\ UpdatesRate(rate)
  /\ UNCHANGED <<collateralVars, usdoBalance, pauseOptions>>

-----------------------------------------------------------------------------
(* Leverage: the executor swaps outside the market and returns `out`. *)

buyCollateral(from, amount, out, price, rate, debtRate) ==
  LET share == toShare(out)
  IN  /\ ~pauseOptions["LeverageBuy"]
      /\ share > 0
      /\ collateralBalance + share <= MaxCollateral
      /\ Borrows(from, amount, computeVariableOpeningFee(amount, price), debtRate)
      /\ userCollateralShare' = [userCollateralShare EXCEPT ![from] = @ + share]
      /\ totalCollateralShare' = totalCollateralShare + share
      /\ collateralBalance' = collateralBalance + share
      /\ isSolvent(userBorrowPart'[from], userCollateralShare'[from], totalBorrow', rate, FALSE)
      /\ UpdatesRate(rate)
      /\ UNCHANGED <<usdoBalance, pauseOptions>>

sellCollateral(from, share, out, rate, debtRate) ==
  LET total    == accrued(debtRate)
      partOwed == userBorrowPart[from]
      owed     == ToElastic(total, partOwed, TRUE)
      part     == IF toShare(owed) <= toShare(out) THEN partOwed
                  ELSE Least(ToBase(total, out, FALSE), partOwed)
  IN  /\ ~pauseOptions["LeverageSell"]
      /\ out > 0
      /\ share <= userCollateralShare[from]
      /\ userCollateralShare' = [userCollateralShare EXCEPT ![from] = @ - share]
      /\ totalCollateralShare' = totalCollateralShare - share
      /\ collateralBalance' = collateralBalance - share
      /\ Repays(from, part, debtRate)
      /\ isSolvent(userBorrowPart'[from], userCollateralShare'[from], totalBorrow', rate, FALSE)
      /\ UpdatesRate(rate)
      /\ UNCHANGED <<usdoBalance, pauseOptions>>

-----------------------------------------------------------------------------
(* Liquidation. *)

(* WRONG: the dust rounded up to a token that is not the user's. *)
SendsRoundedUp(share) ==
  collateralBalance' = collateralBalance - toShare(toAmount(share, TRUE))

(* Seized collateral leaves YieldBox by whole tokens: the dust of a share  *)
(* that is less than one token stays behind in the market.                 *)
SendsCollateral(share) ==
  collateralBalance' = collateralBalance - toShare(toAmount(share, FALSE))

(* One user of a `liquidate` call; a call for several users is a sequence  *)
(* of these at the same rate, and skips the users who are solvent.         *)
liquidate(user, maxBorrowPart, minBonus, returned, rate, debtRate) ==
  LET total == accrued(debtRate)
      part  == userBorrowPart[user]
      share == userCollateralShare[user]
  IN  /\ ~pauseOptions["Liquidation"]
      /\ ~isSolvent(part, share, total, rate, TRUE)
      /\ closingDenominator # 0
      /\ \E cut \in liquidationCut(part, share, total, rate, maxBorrowPart, minBonus) :
           LET split == extractLiquidationFees(toShare(returned), toShare(cut.amount),
                                               getCallerReward(part, share, total, rate))
           IN  /\ cut.amount <= total.elastic /\ cut.part <= total.base
               /\ returned > 0 /\ returned <= circulating
               /\ returned >= minReturned(cut.share, rate)
               /\ toShare(returned) >= toShare(cut.amount)
               /\ totalBorrow' = Sub(total, cut.amount, cut.part)
               /\ userBorrowPart' = [userBorrowPart EXCEPT ![user] = @ - cut.part]
               /\ userCollateralShare' = [userCollateralShare EXCEPT ![user] = @ - cut.share]
               /\ totalCollateralShare' = IF totalCollateralShare > cut.share
                                          THEN totalCollateralShare - cut.share ELSE 0
               /\ SendsCollateral(cut.share)
               /\ usdoBalance' = usdoBalance + returned - cut.amount
                                   - toAmount(split.callerShare, TRUE)
               /\ usdoSupply' = usdoSupply - cut.amount
      /\ Accrues(debtRate)
      /\ UpdatesRate(rate)
      /\ UNCHANGED pauseOptions

(* The owner's way out when the collateral no longer covers the debt: the  *)
(* debt is burned from a whitelisted account and the collateral leaves,    *)
(* swapped or not.  It ignores the pause options.                          *)
liquidateBadDebt(user, rate, debtRate) ==
  LET total    == accrued(debtRate)
      part     == userBorrowPart[user]
      share    == userCollateralShare[user]
      owed     == ToElastic(total, part, FALSE)
      required == toShare(((owed + feeOf(owed, liquidationMultiplier)) * rate)
                             \div EXCHANGE_RATE_PRECISION)
      amount   == ToElastic(total, part, TRUE)
  IN  /\ required >= share
      /\ amount <= total.elastic
      /\ amount <= circulating
      /\ totalBorrow' = Sub(total, amount, part)
      /\ userBorrowPart' = [userBorrowPart EXCEPT ![user] = 0]
      /\ userCollateralShare' = [userCollateralShare EXCEPT ![user] = 0]
      /\ totalCollateralShare' = totalCollateralShare - share
      /\ SendsCollateral(share)
      /\ usdoSupply' = usdoSupply - amount
      /\ Accrues(debtRate)
      /\ UpdatesRate(rate)
      /\ UNCHANGED <<usdoBalance, pauseOptions>>

-----------------------------------------------------------------------------
(* Interest, fees, pauses and the environment. *)

(* The public accrue is the one accrual that looks at the pause options.   *)
accrue(debtRate) ==
  /\ ~pauseOptions["AddCollateral"] /\ ~pauseOptions["RemoveCollateral"]
  /\ totalBorrow' = accrued(debtRate)
  /\ Accrues(debtRate)
  /\ UNCHANGED <<userBorrowPart, collateralVars, usdoVars, exchangeRate, pauseOptions>>

updateExchangeRate(rate) ==
  /\ UpdatesRate(rate)
  /\ UNCHANGED <<debtVars, collateralVars, usdoVars, elapsed, pauseOptions>>

(* WRONG: the open interest minted and not consumed. *)
mintAndKeepOpenInterestDebt ==
  /\ openInterestDebt > 0
  /\ usdoSupply' = usdoSupply + openInterestDebt
  /\ UNCHANGED <<debtVars, collateralVars, usdoBalance, exchangeRate, elapsed, pauseOptions>>

(* Penrose consumes the open interest and mints it in the same call. *)
mintOpenInterestDebt ==
  /\ openInterestDebt' = 0
  /\ usdoSupply' = usdoSupply + openInterestDebt
  /\ UNCHANGED <<totalBorrow, userBorrowPart, collateralVars, usdoBalance,
                 exchangeRate, elapsed, pauseOptions>>

(* Penrose collects the USDO the market holds. *)
refreshPenroseFees ==
  /\ toShare(usdoBalance) > 0
  /\ usdoBalance' = usdoBalance - toAmount(toShare(usdoBalance), TRUE)
  /\ UNCHANGED <<debtVars, collateralVars, usdoSupply, exchangeRate, elapsed, pauseOptions>>

updatePause(option, val) ==
  /\ pauseOptions[option] # val
  /\ pauseOptions' = [pauseOptions EXCEPT ![option] = val]
  /\ UNCHANGED <<debtVars, collateralVars, usdoVars, exchangeRate, elapsed>>

updatePauseAll(val) ==
  /\ pauseOptions' = [t \in PauseType |-> val]
  /\ UNCHANGED <<debtVars, collateralVars, usdoVars, exchangeRate, elapsed>>

(* Anybody may send the market YieldBox shares or USDO. *)
donateCollateral(share) ==
  /\ collateralBalance + share <= MaxCollateral
  /\ collateralBalance' = collateralBalance + share
  /\ UNCHANGED <<debtVars, userCollateralShare, totalCollateralShare, usdoVars,
                 exchangeRate, elapsed, pauseOptions>>

donateUsdo(amount) ==
  /\ amount <= circulating
  /\ usdoBalance' = usdoBalance + amount
  /\ UNCHANGED <<debtVars, collateralVars, usdoSupply, exchangeRate, elapsed, pauseOptions>>

Tick ==
  /\ elapsed < MaxElapsed
  /\ elapsed' = elapsed + 1
  /\ UNCHANGED <<debtVars, collateralVars, usdoVars, exchangeRate, pauseOptions>>

-----------------------------------------------------------------------------

CollateralCall(u, rate, debtRate) ==
  \/ \E amount \in AddAmounts, share \in AddShares, skim \in BOOLEAN :
       addCollateral(u, amount, share, skim)
  \/ \E share \in RemoveShares : removeCollateral(u, share, rate, debtRate)

DebtCall(u, rate, debtRate) ==
  \/ \E amount \in BorrowAmounts, price \in AssetPrices :
       borrow(u, amount, price, rate, debtRate)
  \/ \E part \in RepayParts : repay(u, part, rate, debtRate)

LeverageCall(u, rate, debtRate) ==
  \/ \E amount \in LeverageAmounts, out \in SwapOutputs, price \in AssetPrices :
       buyCollateral(u, amount, out, price, rate, debtRate)
  \/ \E share \in RemoveShares, out \in SwapOutputs :
       sellCollateral(u, share, out, rate, debtRate)

LiquidationCall(u, rate, debtRate) ==
  \/ \E limit \in MaxBorrowParts, bonus \in MinBonuses, returned \in SwapOutputs :
       liquidate(u, limit, bonus, returned, rate, debtRate)
  \/ liquidateBadDebt(u, rate, debtRate)

UserCall ==
  \E u \in Users, rate \in ExchangeRates, debtRate \in DebtRates :
    \/ CollateralCall(u, rate, debtRate)
    \/ DebtCall(u, rate, debtRate)
    \/ LeverageCall(u, rate, debtRate)
    \/ LiquidationCall(u, rate, debtRate)

OwnerCall ==
  \/ mintOpenInterestDebt
  \/ refreshPenroseFees
  \/ \E option \in Pausable, val \in BOOLEAN : updatePause(option, val)
  \/ \E val \in {TRUE, FALSE} : Pausable # {} /\ updatePauseAll(val)

Environment ==
  \/ \E debtRate \in DebtRates : accrue(debtRate)
  \/ \E rate \in ExchangeRates : updateExchangeRate(rate)
  \/ \E share \in Donations : donateCollateral(share)
  \/ \E amount \in Donations : donateUsdo(amount)
  \/ Tick

Next == UserCall \/ OwnerCall \/ Environment

Spec == Init /\ [][Next]_vars

-----------------------------------------------------------------------------
(* Properties. *)

(* The base of the debt total is the sum of the parts of all users: every  *)
(* rounding in borrow, repay, sellCollateral and the two liquidations      *)
(* moves the total and the user's entry by the same number of parts.       *)
BorrowPartsSum == totalBorrow.base = SumOver(userBorrowPart)

(* The cached collateral total is the sum of the users' shares, and the    *)
(* market holds at least that many in YieldBox: skims, donations and the   *)
(* dust liquidations leave behind never credit a share twice.              *)
CollateralCustody ==
  /\ totalCollateralShare = SumOver(userCollateralShare)
  /\ totalCollateralShare <= collateralBalance

(* No part is ever worth less than a token, so no debt is without parts    *)
(* and no parts are without debt, and whatever order users repay in, the   *)
(* rounded-up tokens of a repayment never exceed what is owed in total.    *)
DebtsRepayable ==
  /\ Covered(totalBorrow)
  /\ \A u \in Users : ToElastic(totalBorrow, userBorrowPart[u], TRUE) <= totalBorrow.elastic

(* Every USDO the market minted, and every USDO Penrose may still mint     *)
(* against its interest, is owed to it by a borrower.                      *)
SupplyBacked == usdoSupply + openInterestDebt <= totalBorrow.elastic + OutsideUsdo

(* Without time passing, no call makes a part of the debt more expensive:  *)
(* what one user borrows, repays or has liquidated never adds to the debt  *)
(* of another.                                                             *)
DebtPerPartGrowsOnlyWithTime ==
  [][ (elapsed = 0 /\ totalBorrow.base > 0 /\ totalBorrow'.base > 0)
        => totalBorrow'.elastic * totalBorrow.base
             <= totalBorrow.elastic * totalBorrow'.base ]_vars

(* A solvent user stays solvent unless the oracle moves or interest is     *)
(* charged: nobody, the user included, can push a position over the limit. *)
SolventAt(u) ==
  isSolvent(userBorrowPart[u], userCollateralShare[u], totalBorrow, exchangeRate, FALSE)

OnlyPriceOrInterestEndangers ==
  [][ (exchangeRate' = exchangeRate /\ elapsed' >= elapsed)
        => \A u \in Users : SolventAt(u) => SolventAt(u)' ]_vars

(* The fees a market keeps leave it only when Penrose collects them: the   *)
(* caller's reward, withdrawn by shares and rounded up to tokens, is paid  *)
(* from the liquidation's own surplus.                                     *)
FeesLeaveOnlyToPenrose ==
  [][ usdoBalance' < usdoBalance => UNCHANGED <<debtVars, collateralVars, usdoSupply>> ]_vars

(* A liquidation takes from its user collateral worth at most the debt it  *)
(* repays plus the liquidation bonus.                                      *)
LiquidationSeizesAtMostBonus ==
  [][ \A u \in Users :
        LET seized == userCollateralShare[u] - userCollateralShare'[u]
            repaid == usdoSupply - usdoSupply'
            isLiquidated ==
              \E limit \in MaxBorrowParts, bonus \in MinBonuses,
                 returned \in SwapOutputs, debtRate \in DebtRates :
                liquidate(u, limit, bonus, returned, exchangeRate', debtRate)
        IN  (seized > 0 /\ isLiquidated)
              => collateralInAsset(seized, exchangeRate')
                   <= repaid + feeOf(repaid, liquidationBonusAmount)
    ]_vars

(* Liquidation leaves nobody with debt and no collateral: such a debt only *)
(* liquidateBadDebt could still clear.                                     *)
NoBareDebt ==
  \A u \in Users : userBorrowPart[u] > 0 => userCollateralShare[u] > 0

(* Minting the open interest leaves the supply equal to the debt. *)
SupplyFullyMinted ==
  [][ (openInterestDebt > 0 /\ mintOpenInterestDebt)
        => usdoSupply' = totalBorrow.elastic + OutsideUsdo ]_vars

-----------------------------------------------------------------------------
(* The market keeps the promise of DebtLedger: parts, users, collateral    *)
(* and every rounding it does are invisible in what is owed and minted.    *)
Ledger == INSTANCE DebtLedger WITH
  Amounts       <- 0..UINT128_MAX,
  InitialSupply <- OutsideUsdo,
  debt          <- totalBorrow.elastic,
  supply        <- usdoSupply,
  owed          <- openInterestDebt

ImplementsLedger == Ledger!Spec

=============================================================================
