------------------------------- MODULE Tasks --------------------------------
(***************************************************************************)
(* The tasks of the scopes exec and test: those that set up a market       *)
(* (MarketTasks), that deploy strategies and register YieldBox assets      *)
(* (YbAssets), that fill the mock swapper (MockSwapper), and the flow      *)
(* through the markets of one chain (SameChainFlow).                       *)
(*                                                                         *)
(* The groups have no state in common, so a behaviour here is one of one   *)
(* group of tasks and the variables of the others rest.                    *)
(***************************************************************************)
EXTENDS Integers

CONSTANTS
    Groups,             \* those a behaviour may be of
    MaxCrashes          \* bound, of each of them

CONSTANTS               \* of MarketTasks
    FEE_PRECISION, MAX_DEBT_RATE, Defaults, InitValues, Entered, Touched, Prompted,
    DebtRates, Starts, Addresses, PauseTypes, Prices, EthDebt, DEBT_PRECISION,
    MaxDebt, MaxChanges

CONSTANTS               \* of YbAssets
    Tofts, Mocks, Specifics, Terms, Matches, SpecificTerms, Redeployable, Testnet,
    MaxRedeployed, MaxRegistrations

CONSTANTS               \* of MockSwapper
    MaxDeployed, MaxHasty

CONSTANTS               \* of SameChainFlow
    UINT128_MAX, Full, Some, MintLimit, Worth, Fees, Interest, MaxCharged, EntryPoints, MaxRuns

VARIABLES
    group,              \* the one the behaviour is of
    config, isMainMarket, isMainAsset, pauseOptions, debt, outcome, changes,
    tokens, released, specific, strats, holds, assets, task, ended, registrations, crashes,
    host, swapLedger, swapPool, flight, file, swapPc, chain, target, swapEnded, done,
    hasty, swapCrashes,
    ledger, fees, pool, pc, before, runs

Market == INSTANCE MarketTasks
Assets == INSTANCE YbAssets WITH
    MaxRuns <- MaxRegistrations, runs <- registrations
Swapper == INSTANCE MockSwapper WITH
    ledger <- swapLedger, pool <- swapPool, pc <- swapPc, ended <- swapEnded,
    crashes <- swapCrashes
Flow == INSTANCE SameChainFlow

ASSUME GroupsAssumption ==
    /\ Groups \subseteq {"market", "assets", "swapper", "flow"}
    /\ Market!ConfigAssumption /\ Market!TasksAssumption
    /\ Assets!AssetsAssumption
    /\ Swapper!SwapperAssumption
    /\ Flow!FlowAssumption

marketVars == <<config, isMainMarket, isMainAsset, pauseOptions, debt, outcome, changes>>
assetVars == <<tokens, released, specific, strats, holds, assets, task, ended,
               registrations, crashes>>
swapperVars == <<host, swapLedger, swapPool, flight, file, swapPc, chain, target,
                 swapEnded, done, hasty, swapCrashes>>
flowVars == <<ledger, fees, pool, pc, before, runs>>
vars == <<group, marketVars, assetVars, swapperVars, flowVars>>

Init ==
    /\ group \in Groups
    /\ Market!Init /\ Assets!Init /\ Swapper!Init /\ Flow!Init
    /\ group # "market" =>
           /\ ~isMainAsset
           /\ config = CHOOSE c \in {Market!init(a, FALSE) : a \in InitValues} : TRUE
    /\ group # "swapper" => host = "main"
    /\ group # "flow" => fees = CHOOSE f \in Fees : TRUE

Next ==
    /\ UNCHANGED group
    /\ \/ /\ group = "market" /\ Market!Next
          /\ UNCHANGED <<assetVars, swapperVars, flowVars>>
       \/ /\ group = "assets" /\ Assets!Next
          /\ UNCHANGED <<marketVars, swapperVars, flowVars>>
       \/ /\ group = "swapper" /\ Swapper!Next
          /\ UNCHANGED <<marketVars, assetVars, flowVars>>
       \/ /\ group = "flow" /\ Flow!Next
          /\ UNCHANGED <<marketVars, assetVars, swapperVars>>

(***************************************************************************)
(* Fairness: a task that runs takes its steps, what it sent is mined, and  *)
(* messages are delivered.  YieldBox is there one day.  The operator       *)
(* deploys the strategies tOFTs lack and registers those of one of them    *)
(* again and again, deploys a swapper while the file has none and fills it *)
(* while it is empty.  Nothing is promised of the others.                  *)
(***************************************************************************)
AssetFairness ==
    LET on == group = "assets" IN
        /\ WF_assetVars(on /\ Assets!Script)
        /\ SF_assetVars(/\ on /\ \E m \in Tofts : Assets!Stale(m)
                        /\ Assets!deployEmptyStrats(Assets!StratType.TOFT, Assets!USDO))
        /\ \A t \in Terms \ {""} : SF_assetVars(on /\ Assets!registerYbAssets({}, t))

SwapperFairness ==
    LET on == group = "swapper" IN
        /\ WF_swapperVars(on /\ Swapper!fillMockSwapper)
        /\ WF_swapperVars(on /\ Swapper!saveMockSwapper)
        /\ \A c \in Swapper!Chains : WF_swapperVars(on /\ Swapper!Mine(c))
        /\ WF_swapperVars(on /\ Swapper!Receive)
        /\ WF_swapperVars(on /\ Swapper!DeployYieldBox)
        /\ SF_swapperVars(on /\ file.swapper = 0 /\ Swapper!executeMockSwapper)
        /\ SF_swapperVars(/\ on /\ Swapper!Quiet /\ Swapper!Ready /\ ~Swapper!Filled
                          /\ Swapper!Start(host))

Spec == Init /\ [][Next]_vars /\ AssetFairness /\ SwapperFairness

----------------------------------------------------------------------------
(***************************************************************************)
(* Properties: those of the groups, each stated in its own module.         *)
(***************************************************************************)
\* The type invariant of each group's model.
TypeOK == Market!TypeOK /\ Assets!TypeOK /\ Swapper!TypeOK /\ Flow!TypeOK

\* Whatever bounds are set, one against the other and in whatever order, the
\* settings stay what the model of the market assumes of its parameters, the
\* opening fee stays between the fees, and debt rates that are set are ordered.
SettingsStayValid ==
    /\ Market!MeetsMarketAssumptions
    /\ Market!OpeningFeeBetweenBounds
    /\ Market!DebtRatesOrdered

\* A run of registerYbAssets that ends well registered what it showed the operator,
\* one asset for a token whose specific strategy he named.
DoneMeansRegistered == Assets!DoneMeansRegistered /\ Assets!SpecificReplacesEmpty

\* Tokens stay accounted for at every step a task may stop at: each tOFT of the
\* mock swapper is backed by an underlying, each token of the flow is somewhere,
\* and what it owes beyond the USDO it has and has lent is what it was charged.
TokensAccounted ==
    /\ Swapper!Backed
    /\ Flow!CollateralAccounted /\ Flow!UsdoAccounted

\* What the flow does not wait for are approvals and withdrawals, and a run of it
\* that ends well leaves the collateral of both its parts.
FlowWaits == Flow!WaitsForMarkets /\ Flow!DoneMeansCollateral

\* What the operator repeats gets done: a tOFT gets an asset with the strategy the
\* file has for it, and the swapper of the file gets its tOFTs and keeps them.
TasksComplete ==
    /\ group = "assets" => Assets!ToftsRegistered
    /\ group = "swapper" => Swapper!FilledAtLast

\* init rejects debt rates that are crossed (BigBang.sol:131): an accrual cannot
\* fail on them.
AlwaysAccrues == Market!AlwaysAccrues
=============================================================================
