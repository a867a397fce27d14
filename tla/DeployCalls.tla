---------------------------- MODULE DeployCalls ----------------------------
(***************************************************************************)
(* The contracts of a rollout as its scripts see them: every deployment    *)
(* has its own USDO, Penrose and markets, all of them share the YieldBox,  *)
(* and the owner (TapiocaMulticall) changes them by calls it sends in      *)
(* batches.  A batch is one transaction: every call of it has              *)
(* allowFailure false, so one revert undoes the whole of it.               *)
(*                                                                         *)
(* A YieldBox asset is the pair of its token and its strategy.  USDO is    *)
(* named by the deployment it belongs to.                                  *)
(***************************************************************************)
EXTENDS Naturals, FiniteSets, SequencesExt

CONSTANTS
    BBs,            \* the BigBang markets of the chain
    SGLs,           \* its Singularity markets
    Mocks,          \* those of them on the mock of USDC
    EthMarket,      \* BB_MT_ETH_MARKET
    UsdcMock,       \* the mock of USDC
    OriginsToken,   \* tETH, the collateral of Origins
    Weth,           \* Penrose's first main asset
    NoId, NoMarket, \* zero and the zero address
    MaxDeployments, \* bound: how many times the contracts are deployed
    Caps,           \* borrow caps
    ConfiguredCap   \* bound: one totalBorrowCap for all of DEPLOY_CONFIG

Markets == BBs \cup SGLs
Deployments == 1 .. MaxDeployments

\* The last three say no more than that different names are different things.
MarketsAssumption ==
    /\ IsFiniteSet(BBs) /\ IsFiniteSet(SGLs)
    /\ Mocks \subseteq Markets
    /\ BBs \cap SGLs = {}
    /\ MaxDeployments \in Nat
    /\ ConfiguredCap \in Caps
    /\ UsdcMock \notin Markets /\ EthMarket \notin {Weth, NoMarket}
    /\ (Markets \cup {UsdcMock, OriginsToken}) \cap Deployments = {}
    /\ \A t \in Markets \cup {UsdcMock, OriginsToken}, d \in Deployments : NoId # <<t, d>>

Kinds == {"BB", "SGL"}
Kind(m) == IF m \in BBs THEN "BB" ELSE "SGL"
Collateral(m) == IF m \in Mocks THEN UsdcMock ELSE m

(***************************************************************************)
(* What the constructors leave behind.                                     *)
(***************************************************************************)
NewUsdo == [helper |-> FALSE, minters |-> {}, burners |-> {}]
NewPenrose == [usdo |-> 0, usdoId |-> NoId, mainToken |-> Weth, mainId |-> Weth,
               masters |-> {}, markets |-> {}, eth |-> NoMarket]
NewMarket == [ready |-> FALSE, assetId |-> NoId, collateralId |-> NoId,
              isMain |-> FALSE, cap |-> 0, helper |-> FALSE]
NewChain == [usdo    |-> [d \in Deployments |-> NewUsdo],
             penrose |-> [d \in Deployments |-> NewPenrose],
             market  |-> [d \in Deployments |-> [m \in Markets |-> NewMarket]],
             assets  |-> {},      \* registered in the YieldBox
             seeded  |-> {},      \* those with a deposit
             funds   |-> 0]       \* 0: some underlying is missing, 1: short, 2: enough

(* YieldBox.ids(1, token, strategy, 0) *)
IdOf(c, token, strategy) ==
    IF <<token, strategy>> \in c.assets THEN <<token, strategy>> ELSE NoId

FlashloanHelper == "USDO_FLASHLOAN_HELPER"
Operators == BBs \cup {FlashloanHelper}

----------------------------------------------------------------------------
(***************************************************************************)
(* The calls.  A call names its function, the deployment it is sent to     *)
(* and its arguments.                                                      *)
(***************************************************************************)
setUsdoToken(d, id)  == [fn |-> "setUsdoToken", on |-> d, id |-> id]
registerMaster(d, k) == [fn |-> "registerMasterContract", on |-> d, kind |-> k]
addMarket(d, m)      == [fn |-> "addMarket", on |-> d, market |-> m]
setEthMarket(d, m)   == [fn |-> "setBigBangEthMarket", on |-> d, market |-> m]
setFlashHelper(d)    == [fn |-> "setFlashloanHelper", on |-> d]
setMinter(d, a, b)   == [fn |-> "setMinterStatus", on |-> d, operator |-> a, status |-> b]
setBurner(d, a, b)   == [fn |-> "setBurnerStatus", on |-> d, operator |-> a, status |-> b]
registerAsset(d, id) == [fn |-> "registerAsset", on |-> d, id |-> id]
setMain(d, t, id)    == [fn |-> "setMainTokens", on |-> d, token |-> t, id |-> id]
wrap(d)              == [fn |-> "wrap", on |-> d]
depositAsset(d, id)  == [fn |-> "depositAsset", on |-> d, id |-> id]
initBB(d, m, id)     == [fn |-> "initBB", on |-> d, market |-> m, id |-> id]
initSGL(d, m, asset, id) ==
    [fn |-> "initSGL", on |-> d, market |-> m, asset |-> asset, id |-> id]
configBB(d, m, cap)  == [fn |-> "configBB", on |-> d, market |-> m, cap |-> cap]
configSGL(d, m)      == [fn |-> "configSGL", on |-> d, market |-> m]

\* executeMarketFn checks the master contract of the market.
Executes(c, k) ==
    /\ k.market \in c.penrose[k.on].markets
    /\ Kind(k.market) \in c.penrose[k.on].masters
    /\ c.market[k.on][k.market].ready

\* Whether call k is not reverted in c.  late: the batch is included after
\* its Pearlmit approvals, 1800 seconds from the script's block, have ended.
Succeeds(c, k, late) ==
    CASE k.fn = "setUsdoToken" -> k.id # NoId
      [] k.fn = "registerMasterContract" -> k.kind \notin c.penrose[k.on].masters
      [] k.fn = "addMarket" -> /\ Kind(k.market) \in c.penrose[k.on].masters
                               /\ k.market \notin c.penrose[k.on].markets
      [] k.fn = "wrap" -> c.funds = 2 /\ ~late
      [] k.fn = "depositAsset" -> k.id \in c.assets /\ ~late
      [] k.fn = "initBB" -> /\ ~c.market[k.on][k.market].ready
                            /\ c.penrose[k.on].usdo # 0
      [] k.fn = "initSGL" -> ~c.market[k.on][k.market].ready
      [] k.fn \in {"configBB", "configSGL"} -> Executes(c, k)
      [] OTHER -> TRUE

Member(S, a, b) == IF b THEN S \cup {a} ELSE S \ {a}

\* The state after call k.
After(c, k) ==
    LET p == c.penrose[k.on]
        m == c.market[k.on][k.market]
    IN
    CASE k.fn = "setUsdoToken" ->
             [c EXCEPT !.penrose[k.on] = [p EXCEPT !.usdo = k.on, !.usdoId = k.id]]
      [] k.fn = "registerMasterContract" ->
             [c EXCEPT !.penrose[k.on].masters = @ \cup {k.kind}]
      [] k.fn = "addMarket" -> [c EXCEPT !.penrose[k.on].markets = @ \cup {k.market}]
      [] k.fn = "setBigBangEthMarket" -> [c EXCEPT !.penrose[k.on].eth = k.market]
      [] k.fn = "setFlashloanHelper" -> [c EXCEPT !.usdo[k.on].helper = TRUE]
      [] k.fn = "setMinterStatus" ->
             [c EXCEPT !.usdo[k.on].minters = Member(@, k.operator, k.status)]
      [] k.fn = "setBurnerStatus" ->
             [c EXCEPT !.usdo[k.on].burners = Member(@, k.operator, k.status)]
      [] k.fn = "registerAsset" -> [c EXCEPT !.assets = @ \cup {k.id}]
      [] k.fn = "setMainTokens" ->    \* a zero id leaves the old one
             [c EXCEPT !.penrose[k.on] =
                 [p EXCEPT !.mainToken = k.token,
                           !.mainId = IF k.id = NoId THEN @ ELSE k.id]]
      [] k.fn = "wrap" -> c
      [] k.fn = "depositAsset" -> [c EXCEPT !.seeded = @ \cup {k.id}]
      [] k.fn = "initBB" ->
             [c EXCEPT !.market[k.on][k.market] =
                 [@ EXCEPT !.ready = TRUE, !.assetId = p.usdoId, !.collateralId = k.id,
                           !.isMain = (k.id = p.mainId)]]
      [] k.fn = "initSGL" ->
             [c EXCEPT !.market[k.on][k.market] =
                 [@ EXCEPT !.ready = TRUE, !.assetId = k.asset, !.collateralId = k.id]]
      [] k.fn = "configBB" ->         \* a zero cap leaves the old one
             [c EXCEPT !.market[k.on][k.market] =
                 [@ EXCEPT !.helper = TRUE, !.cap = IF k.cap = 0 THEN m.cap ELSE k.cap]]
      [] k.fn = "configSGL" -> [c EXCEPT !.market[k.on][k.market].helper = TRUE]

\* WRONG, for TLC to refute: allowFailure true.
StepAllowingFailure(late, run, k) ==
    IF Succeeds(run.chain, k, late)
    THEN [ok |-> TRUE, chain |-> After(run.chain, k)] ELSE run

\* One call of a batch, after the calls before it.
Step(late, run, k) ==
    IF run.ok /\ Succeeds(run.chain, k, late)
    THEN [ok |-> TRUE, chain |-> After(run.chain, k)]
    ELSE [ok |-> FALSE, chain |-> run.chain]

\* The whole batch: what it leaves, and whether it went through.  What it
\* wraps it takes from the multicall's funds.
executeMulticall(c, calls, late) ==
    LET run == FoldLeft(LAMBDA r, k : Step(late, r, k), [ok |-> TRUE, chain |-> c], calls)
        wraps == \E i \in 1 .. Len(calls) : calls[i].fn = "wrap"
    IN  [ok    |-> run.ok,
         chain |-> IF ~run.ok THEN c
                   ELSE [run.chain EXCEPT !.funds = IF wraps THEN 0 ELSE @]]
=============================================================================
