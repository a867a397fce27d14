------------------------------ MODULE MCTasks -------------------------------
(***************************************************************************)
(* Tasks for TLC: settings of a market on a scale on which 20 is all, two  *)
(* tOFTs, the name of one in the name of the other, so that one term finds *)
(* both, and fees and interest of some per cent of what the flow borrows.  *)
(* No value here names a definition of an instance in Tasks: TLC's action  *)
(* coverage does not terminate on such a circle.                           *)
(***************************************************************************)
EXTENDS Tasks

\* What init sets (protocol fee 10%, rewards 88% and 92.5%, multiplier 12%, ...).
MCDefaults ==
    [oracle |-> 30, oracleData |-> 0, protocolFee |-> 2, liquidationBonusAmount |-> 1,
     minLiquidatorReward |-> 17, maxLiquidatorReward |-> 18, totalBorrowCap |-> 0,
     collateralizationRate |-> 15, liquidationCollateralizationRate |-> 16,
     minBorrowAmount |-> 1, minCollateralAmount |-> 1,
     minDebtRate |-> 0, maxDebtRate |-> 0, debtRateAgainstEthMarket |-> 0,
     minMintFee |-> 0, maxMintFee |-> 3, minMintFeeStart |-> 10, maxMintFeeStart |-> 8,
     liquidationMultiplier |-> 2, maxLiquidationSlippage |-> 0, assetOracle |-> 0,
     assetOracleData |-> 0, leverageExecutor |-> 30]

Args(cr, lcr, min, max, against) ==
    [collateralizationRate |-> cr, liquidationCollateralizationRate |-> lcr,
     minDebtRate |-> min, maxDebtRate |-> max, debtRateAgainstEthMarket |-> against]

\* The defaults, the deployed markets, and rates of which one is zero, the other
\* one above MAX_DEBT_RATE or not.
MCInitValues ==
    {Args(0, 0, 0, 0, 0), Args(16, 17, 2, 3, 4), Args(20, 20, 0, 9, 4), Args(16, 17, 2, 0, 4)}
MCTofts == {"TapiocaOFT", "TapiocaOFTm"}
MCMatches ==
    [t \in {"", "TapiocaOFT"} |->
        CASE t = "" -> MCTofts \cup {"WETHMock", "USDO", "TapOFT", "what it calls itself"}
          [] t = "TapiocaOFT" -> MCTofts]
\* A token of collateral covers a loan with its fee, and little interest.
MCWorth == [bb |-> 21, sgl |-> 3]
MCFees == {[bb |-> 0, sgl |-> 0], [bb |-> 1, sgl |-> 1]}
=============================================================================
