---------------------------- MODULE MarketTasks -----------------------------
(***************************************************************************)
(* The owner of a BigBang market at work: the tasks of tasks/exec, which   *)
(* take answers to prompts or parameters, encode a call and send it        *)
(* through Penrose.executeMarketFn with forceSuccess, and calls he sends   *)
(* by hand.  Meanwhile its users borrow and repay, and Penrose's main      *)
(* asset may become the market's collateral or cease to be it.             *)
(*                                                                         *)
(* A task throws when its call cannot be encoded or is reverted; each      *)
(* waits for its transaction.  Amounts of time between transactions are    *)
(* positive, so each one that accrues charges.                             *)
(***************************************************************************)
EXTENDS MarketConfig

CONSTANTS
    InitValues,     \* what init may be called with, by argument
    Entered,        \* values the owner enters
    Touched,        \* the settings of setMarketConfig he changes by hand
    Prompted,       \* the prompts of its task he answers
    DebtRates,      \* debt rates he enters
    Starts,         \* prices he enters
    Addresses,      \* addresses of contracts, as numbers
    PauseTypes,
    Prices,         \* of the stable
    EthDebt,        \* the ETH market's debt
    DEBT_PRECISION, \* 1e18
    MaxDebt,        \* bound: this market's debt
    MaxChanges      \* bound: tasks and calls that went through

MarketPrompts == {"oracle", "oracleData", "conservator", "protocolFee",
                  "liquidationBonusAmount", "minLiquidatorReward", "maxLiquidatorReward",
                  "totalBorrowCap", "collateralizationRate", "liquidationCollateralizationRate"}

TasksAssumption ==
    /\ InitValues \subseteq [InitArgs -> Nat]
    /\ Entered \subseteq Nat /\ DebtRates \subseteq Nat /\ Starts \subseteq Nat
    /\ Touched \subseteq MarketFields /\ Prompted \subseteq MarketPrompts
    /\ \A a \in Addresses : a \in Nat /\ a > FEE_PRECISION
    /\ Prices \subseteq Nat /\ EthDebt \in Nat /\ DEBT_PRECISION \in Nat \ {0}
    /\ MaxDebt \in Nat /\ MaxChanges \in Nat

VARIABLES
    config,         \* the settings
    isMainMarket,   \* whether the market takes its rate from Penrose
    isMainAsset,    \* whether its collateral is Penrose's main asset
    pauseOptions,   \* what is paused
    debt,
    outcome,        \* of the last task: "done" or "thrown"
    changes

vars == <<config, isMainMarket, isMainAsset, pauseOptions, debt, outcome, changes>>

Init ==
    /\ isMainAsset \in BOOLEAN /\ isMainMarket = isMainAsset
    /\ config \in {init(a, isMainAsset) :
                      a \in {b \in InitValues : AcceptsInit(b, isMainAsset)}}
    /\ pauseOptions = {} /\ debt = 0
    /\ outcome = "done" /\ changes = 0

----------------------------------------------------------------------------
(***************************************************************************)
(* Calls through Penrose.                                                  *)
(***************************************************************************)
Throw == outcome' = "thrown" /\ UNCHANGED <<config, isMainMarket, pauseOptions, changes>>

\* executeMarketFn: the market accepts the call, or all of it is undone.
executeMarketFn(accepts, after, paused, main) ==
    IF accepts
    THEN /\ changes < MaxChanges /\ changes' = changes + 1
         /\ config' = after /\ pauseOptions' = paused /\ isMainMarket' = main
         /\ outcome' = "done"
    ELSE Throw
Sets(accepts, after) == executeMarketFn(accepts, after, pauseOptions, isMainMarket)
environment == <<isMainAsset, debt>>

\* getDebtRate reverts on the difference of crossed rates.
CanAccrueAs(main) ==
    \/ main \/ debt = 0
    \/ debt >= (EthDebt * config.debtRateAgainstEthMarket) \div DEBT_PRECISION
    \/ config.minDebtRate <= config.maxDebtRate
CanAccrue == CanAccrueAs(isMainMarket)

----------------------------------------------------------------------------
(***************************************************************************)
(* The tasks.                                                              *)
(***************************************************************************)
setMarketConfig(a) ==
    /\ Sets(AcceptsMarketConfig(config, a), Updated(config, a))
    /\ UNCHANGED environment

\* The task passes its answers in an order of its own: conservator and a zero
\* come where the fee and the bonus are expected, and the rest moves on by two.
setMarketConfig__task(p) ==
    setMarketConfig([oracle |-> p.oracle, oracleData |-> p.oracleData,
                     protocolFee |-> p.conservator, liquidationBonusAmount |-> 0,
                     minLiquidatorReward |-> p.protocolFee,
                     maxLiquidatorReward |-> p.liquidationBonusAmount,
                     totalBorrowCap |-> p.minLiquidatorReward,
                     collateralizationRate |-> p.maxLiquidatorReward,
                     liquidationCollateralizationRate |-> p.totalBorrowCap,
                     minBorrowAmount |-> p.collateralizationRate,
                     minCollateralAmount |-> p.liquidationCollateralizationRate])

\* The cap is the ninth argument; the cap's own place is the seventh.
setBorrowCap(cap) ==
    setMarketConfig([[f \in MarketFields |-> 0]
                        EXCEPT !.liquidationCollateralizationRate = cap])

\* The accrual in it comes after the flag and before the rates.
setBigBangConfig(min, max, againstEth, multiplier) ==
    /\ executeMarketFn(/\ AcceptsMultiplier(multiplier)
                       /\ ~isMainAsset => CanAccrueAs(FALSE) /\ AcceptsDebtRates(config, min, max),
           [config EXCEPT !.liquidationMultiplier = Or(multiplier, @),
                          !.minDebtRate = IF isMainAsset THEN @ ELSE Or(min, @),
                          !.maxDebtRate = IF isMainAsset THEN @ ELSE Or(max, @),
                          !.debtRateAgainstEthMarket =
                              IF isMainAsset THEN @ ELSE Or(againstEth, @)],
           pauseOptions, isMainAsset)
    /\ UNCHANGED environment

setMinAndMaxMintRange__task(start, end) ==
    /\ Sets(AcceptsMintRange(start, end), setMinAndMaxMintRange(config, start, end))
    /\ UNCHANGED environment

setMinAndMaxMintFee__task(min, max) ==
    /\ Sets(AcceptsMintFee(min, max), setMinAndMaxMintFee(config, min, max))
    /\ UNCHANGED environment

setAssetOracle__task(oracle, data) ==
    Sets(TRUE, setAssetOracle(config, oracle, data)) /\ UNCHANGED environment

setLeverageExecutor__task(executor) ==
    Sets(TRUE, setLeverageExecutor(config, executor)) /\ UNCHANGED environment

setLiquidationMaxSlippageByHand(val) ==
    /\ Sets(AcceptsSlippage(val), setLiquidationMaxSlippage(config, val))
    /\ UNCHANGED environment

updatePause(type, val) ==
    /\ executeMarketFn(val # (type \in pauseOptions), config,
           IF val THEN pauseOptions \cup {type} ELSE pauseOptions \ {type}, isMainMarket)
    /\ UNCHANGED environment

\* The status is a string of the command line, and any string is encoded as
\* TRUE.
marketUpdatePause__task(type, status) == updatePause(type, TRUE)

\* The interface it encodes the call with is not valid JSON.
marketRescueEth__task == Throw /\ UNCHANGED environment

----------------------------------------------------------------------------
(***************************************************************************)
(* Users and Penrose.                                                      *)
(***************************************************************************)
\* Borrowing and repaying accrue first.
UserMoves(newDebt) ==
    /\ CanAccrue
    /\ debt' = newDebt
    /\ UNCHANGED <<config, isMainMarket, isMainAsset, pauseOptions, outcome, changes>>
borrow == debt < MaxDebt /\ UserMoves(debt + 1)
repay == debt > 0 /\ UserMoves(debt - 1)

(* Penrose.setMainTokens *)
setMainTokens ==
    /\ isMainAsset' = ~isMainAsset
    /\ UNCHANGED <<config, isMainMarket, pauseOptions, debt, outcome, changes>>

\* Values for at most two of the places, zero for the others.
Few(places, touched, V) ==
    {[f \in places |-> IF f = g THEN v ELSE IF f = h THEN w ELSE 0] :
        g \in touched, h \in touched, v \in V, w \in V}

Task ==
    \/ \E a \in Few(MarketFields, Touched, Entered) : setMarketConfig(a)
    \/ \E p \in Few(MarketPrompts, Prompted, Entered) : setMarketConfig__task(p)
    \/ \E a \in Addresses : setMarketConfig__task(
           [f \in MarketPrompts |-> IF f = "conservator" THEN a ELSE 0])
    \/ \E cap \in Entered : setBorrowCap(cap)
    \/ \E min, max, againstEth \in DebtRates \cup {0}, multiplier \in Entered \cup {0} :
           setBigBangConfig(min, max, againstEth, multiplier)
    \/ \E start, end \in Starts : setMinAndMaxMintRange__task(start, end)
    \/ \E min, max \in Entered : setMinAndMaxMintFee__task(min, max)
    \/ \E o, d \in Addresses \cup {0} : setAssetOracle__task(o, d)
    \/ \E e \in Addresses : setLeverageExecutor__task(e)
    \/ \E val \in Entered : setLiquidationMaxSlippageByHand(val)
    \/ \E t \in PauseTypes, val \in BOOLEAN : updatePause(t, val)
    \/ \E t \in PauseTypes, s \in {"true", "false"} : marketUpdatePause__task(t, s)
    \/ marketRescueEth__task

Next == Task \/ borrow \/ repay \/ setMainTokens

Spec == Init /\ [][Next]_vars

----------------------------------------------------------------------------
(***************************************************************************)
(* Properties.                                                             *)
(***************************************************************************)
Math == INSTANCE MarketMath WITH
    UINT128_MAX <- MaxDebt,
    EXCHANGE_RATE_PRECISION <- DEBT_PRECISION,
    SharesPerAmount <- 1,
    collateralizationRate <- config.collateralizationRate,
    liquidationCollateralizationRate <- config.liquidationCollateralizationRate,
    liquidationMultiplier <- config.liquidationMultiplier,
    liquidationBonusAmount <- config.liquidationBonusAmount,
    minLiquidatorReward <- config.minLiquidatorReward,
    maxLiquidatorReward <- config.maxLiquidatorReward,
    maxLiquidationSlippage <- config.maxLiquidationSlippage,
    minMintFee <- config.minMintFee, maxMintFee <- config.maxMintFee,
    minMintFeeStart <- config.minMintFeeStart, maxMintFeeStart <- config.maxMintFeeStart

\* The settings, flags and the debt have the values calls can give them; a
\* protocol fee stays a fraction although a task fills it from an address.
TypeOK ==
    /\ config \in [Fields -> Nat] /\ config.protocolFee <= FEE_PRECISION
    /\ isMainMarket \in BOOLEAN /\ isMainAsset \in BOOLEAN
    /\ pauseOptions \subseteq PauseTypes
    /\ debt \in 0 .. MaxDebt
    /\ outcome \in {"done", "thrown"} /\ changes \in 0 .. MaxChanges

\* What the model of the market assumes of its parameters holds after any
\* sequence of tasks and calls, also of those that set two bounds at once, each
\* checked against the other: no liquidation and no opening fee underflows.
MeetsMarketAssumptions == Math!RateAssumption /\ Math!MintFeeAssumption

\* At every price the opening fee lies between the fees the owner set last,
\* although the fees and the prices are set by different tasks.
OpeningFeeBetweenBounds ==
    \A price \in Prices :
        Math!openingFeeRate(price) \in config.minMintFee .. config.maxMintFee

\* Debt rates that are both set are never crossed, whichever is set first.  That
\* the upper one is within MAX_DEBT_RATE does not hold: init leaves it unchecked
\* when the lower one is zero, and the lower one may be set later.
DebtRatesOrdered ==
    config.minDebtRate # 0 /\ config.maxDebtRate # 0 =>
        config.minDebtRate < config.maxDebtRate

\* What the code says and TLC refutes: init rejects debt rates that are crossed,
\* and an accrual cannot fail on them.
AlwaysAccrues == CanAccrue
=============================================================================
