---------------------------- MODULE MarketConfig ----------------------------
(***************************************************************************)
(* The settings of a BigBang market: what init and the owner's setters     *)
(* accept and what they leave.  A setting is a field of a record, named as *)
(* in Market.sol and BBStorage.sol; an oracle, its data and an executor    *)
(* are numbers, zero for none.                                             *)
(***************************************************************************)
EXTENDS Integers, FiniteSets

CONSTANTS
    FEE_PRECISION,          \* 1e5
    MAX_DEBT_RATE,          \* 1e18
    Defaults                \* what init sets besides its arguments

MarketFields == {"oracle", "oracleData", "protocolFee", "liquidationBonusAmount",
                 "minLiquidatorReward", "maxLiquidatorReward", "totalBorrowCap",
                 "collateralizationRate", "liquidationCollateralizationRate",
                 "minBorrowAmount", "minCollateralAmount"}
DebtFields == {"minDebtRate", "maxDebtRate", "debtRateAgainstEthMarket"}
FeeFields == {"minMintFee", "maxMintFee", "minMintFeeStart", "maxMintFeeStart"}
OtherFields == {"liquidationMultiplier", "maxLiquidationSlippage", "assetOracle",
                "assetOracleData", "leverageExecutor"}
Fields == MarketFields \cup DebtFields \cup FeeFields \cup OtherFields

\* What init sets is itself within the bounds the setters check.
DefaultsWithinBounds ==
    /\ \A f \in {"protocolFee", "liquidationBonusAmount", "maxLiquidatorReward",
                 "liquidationCollateralizationRate", "liquidationMultiplier",
                 "maxLiquidationSlippage"} : Defaults[f] <= FEE_PRECISION
    /\ Defaults.minLiquidatorReward <= Defaults.maxLiquidatorReward
    /\ Defaults.minMintFee <= Defaults.maxMintFee
    /\ Defaults.maxMintFeeStart < Defaults.minMintFeeStart

ConfigAssumption ==
    /\ FEE_PRECISION \in Nat \ {0}
    /\ MAX_DEBT_RATE \in Nat
    /\ Defaults \in [Fields -> Nat] /\ DefaultsWithinBounds

\* "values are updated only if > 0"
Or(new, old) == IF new = 0 THEN old ELSE new
Updated(c, a) ==
    [f \in DOMAIN c |-> IF f \in DOMAIN a THEN Or(a[f], c[f]) ELSE c[f]]

----------------------------------------------------------------------------
(***************************************************************************)
(* init; zero rates of collateralization stand for the defaults, zero debt *)
(* rates are taken as they are.                                            *)
(***************************************************************************)
InitArgs == {"collateralizationRate", "liquidationCollateralizationRate"} \cup DebtFields

AcceptsInit(a, isMain) ==
    LET c == Updated(Defaults, a) IN
    /\ a.collateralizationRate <= FEE_PRECISION
    /\ a.liquidationCollateralizationRate <= FEE_PRECISION
    /\ c.collateralizationRate <= c.liquidationCollateralizationRate
    /\ ~isMain /\ a.minDebtRate # 0 /\ a.maxDebtRate # 0 =>
           a.minDebtRate < a.maxDebtRate /\ a.maxDebtRate <= MAX_DEBT_RATE

init(a, isMain) ==
    [f \in Fields |-> IF f \in DebtFields THEN IF isMain THEN 0 ELSE a[f]
                      ELSE Updated(Defaults, a)[f]]

----------------------------------------------------------------------------
(***************************************************************************)
(* The owner's setters.                                                    *)
(***************************************************************************)

\* WRONG: every check against the settings before the call.
AcceptsMarketConfigOfOld(c, a) ==
    /\ a.protocolFee <= FEE_PRECISION
    /\ a.liquidationBonusAmount < FEE_PRECISION
    /\ a.minLiquidatorReward > 0 =>
           a.minLiquidatorReward < FEE_PRECISION /\ a.minLiquidatorReward < c.maxLiquidatorReward
    /\ a.maxLiquidatorReward > 0 =>
           a.maxLiquidatorReward < FEE_PRECISION /\ a.maxLiquidatorReward > c.minLiquidatorReward
    /\ a.collateralizationRate > 0 =>
           a.collateralizationRate <= c.liquidationCollateralizationRate
    /\ a.liquidationCollateralizationRate > 0 =>
           /\ a.liquidationCollateralizationRate >= c.collateralizationRate
           /\ a.liquidationCollateralizationRate <= FEE_PRECISION

\* The checks of setMarketConfig, in its order: a bound is compared with the
\* other one as the call has left it so far.
AcceptsMarketConfig(c, a) ==
    /\ a.protocolFee <= FEE_PRECISION
    /\ a.liquidationBonusAmount < FEE_PRECISION
    /\ a.minLiquidatorReward > 0 =>
           a.minLiquidatorReward < FEE_PRECISION /\ a.minLiquidatorReward < c.maxLiquidatorReward
    /\ a.maxLiquidatorReward > 0 =>
           /\ a.maxLiquidatorReward < FEE_PRECISION
           /\ a.maxLiquidatorReward > Or(a.minLiquidatorReward, c.minLiquidatorReward)
    /\ a.collateralizationRate > 0 =>
           /\ a.collateralizationRate <= FEE_PRECISION
           /\ a.collateralizationRate <= c.liquidationCollateralizationRate
           /\ a.collateralizationRate * (FEE_PRECISION + c.liquidationMultiplier)
                 < FEE_PRECISION * FEE_PRECISION
    /\ a.liquidationCollateralizationRate > 0 =>
           /\ a.liquidationCollateralizationRate
                 >= Or(a.collateralizationRate, c.collateralizationRate)
           /\ a.liquidationCollateralizationRate <= FEE_PRECISION

\* The debt rates setBigBangConfig accepts.
AcceptsDebtRates(c, min, max) ==
    /\ min > 0 => min < c.maxDebtRate
    /\ max > 0 => max > Or(min, c.minDebtRate) /\ max <= MAX_DEBT_RATE

AcceptsMultiplier(multiplier) == multiplier < FEE_PRECISION
AcceptsMintRange(min, max) == max < min
AcceptsMintFee(min, max) == min < max
AcceptsSlippage(slippage) == slippage < FEE_PRECISION

setMinAndMaxMintRange(c, min, max) ==
    [c EXCEPT !.minMintFeeStart = min, !.maxMintFeeStart = max]
setMinAndMaxMintFee(c, min, max) == [c EXCEPT !.minMintFee = min, !.maxMintFee = max]
setLiquidationMaxSlippage(c, val) == [c EXCEPT !.maxLiquidationSlippage = val]
setLeverageExecutor(c, executor) == [c EXCEPT !.leverageExecutor = executor]
setAssetOracle(c, oracle, data) ==
    [c EXCEPT !.assetOracle = Or(oracle, @), !.assetOracleData = Or(data, @)]

=============================================================================
