----------------------------- MODULE Deployment -----------------------------
(***************************************************************************)
(* deploys/postLbp1 on one chain: the script that deploys USDO, Penrose    *)
(* and the markets and then brings them up in two batches of owner calls,  *)
(* the operator who runs it again after a failure or a crash, and the      *)
(* owner who changes settings meanwhile.                                   *)
(*                                                                         *)
(* The script reads the chain and the deployments file (db) between its    *)
(* awaits and builds a batch from what it read.  A transaction stays in    *)
(* the pool until it is mined, in the order of sending, also when the      *)
(* script that sent it is gone.                                            *)
(***************************************************************************)
EXTENDS DeployCalls

CONSTANTS
    IsHost, IsTestnet,  \* the kind of the chain
    HasGlpStrat,        \* DEPLOY_CONFIG has glpStrat for it
    HasUsdcMock,        \* DEPLOY_CONFIG has usdcMock for it
    MaxCrashes,         \* bound: crashes of the script
    MaxLate,            \* bound: batches mined after their approvals ended
    MaxStrats,          \* bound: strategies createEmptyStratYbAsset__task makes
    MaxOwnerTasks       \* bound: tasks the owner runs besides

ChainAssumption ==
    /\ IsHost \in BOOLEAN /\ IsTestnet \in BOOLEAN
    /\ HasGlpStrat \in BOOLEAN /\ HasUsdcMock \in BOOLEAN
    /\ IsHost => EthMarket \in BBs \ Mocks
    /\ {MaxCrashes, MaxLate, MaxStrats, MaxOwnerTasks} \subseteq Nat

VARIABLES
    chain,      \* the contracts, see DeployCalls
    pool,       \* batches sent and not mined
    db,         \* the deployments file: the deployment saved last, and USDO's strategy
    pc,         \* the next step of the script, "idle" when it is not running
    mine,       \* the deployment this run works on
    calls,      \* calls1 or calls2, as far as it is built
    globals,    \* projects whose deployments are in the db already
    made,       \* deployments and USDO strategies made so far, saved or not
    budget      \* what is left of the bounds

vars == <<chain, pool, db, pc, mine, calls, globals, made, budget>>
script == <<pc, mine, calls>>

Projects == {"TapToken", "TapiocaPeriph", "TapiocaZ"}
NoStrat == [token |-> 0, strategy |-> 0]

Init ==
    /\ chain = NewChain
    /\ pool = <<>>
    /\ db = [deployment |-> 0, usdoStrat |-> NoStrat]
    /\ pc = "idle" /\ mine = 0 /\ calls = <<>>
    /\ globals = {}
    /\ made = [deployments |-> 0, strategies |-> 0]
    /\ budget = [crashes |-> MaxCrashes, late |-> MaxLate, owner |-> MaxOwnerTasks]

penrose == chain.penrose[mine]
usdo == chain.usdo[mine]
market == chain.market[mine]
ids(token, strategy) == IdOf(chain, token, strategy)

----------------------------------------------------------------------------
(***************************************************************************)
(* What the deployment needs.                                              *)
(***************************************************************************)
LoadDeployments_Generic == {"TapToken", "TapiocaPeriph"} \subseteq globals
LoadDeployments_Eth == LoadDeployments_Generic /\ "TapiocaZ" \in globals
LoadDeployments_Arb == LoadDeployments_Generic /\ "TapiocaZ" \in globals

\* The receivers of liquidations on every chain read glpStrat.
deployGeneric == LoadDeployments_Generic /\ HasGlpStrat
deployHost == IsHost => LoadDeployments_Arb
deploySide == ~IsHost => LoadDeployments_Eth

\* The mock markets are deployed on testnets only.
Deployed == IF IsTestnet THEN Markets ELSE Markets \ Mocks

\* The collaterals setupCreateYBAssets registers and the strategy of each.
YbTokens == {Collateral(m) : m \in Markets} \cup IF IsHost THEN {OriginsToken} ELSE {}
IdsToRegister == {<<t, mine>> : t \in YbTokens}
\* setupDepositYbAssets leaves out the mock.
IdsToSeed == {<<t, mine>> : t \in YbTokens \ {UsdcMock}}

----------------------------------------------------------------------------
(***************************************************************************)
(* The script.                                                             *)
(***************************************************************************)
Goto(step, more) == pc' = step /\ calls' = calls \o more /\ UNCHANGED mine
Throw == pc' = "idle" /\ calls' = <<>> /\ mine' = 0
world == <<chain, pool, db, globals, made, budget>>

\* The calls of a set, for the members of S, in some order.
CallsFor(S, Op(_)) == LET s == SetToSeq(S) IN [i \in 1 .. Len(s) |-> Op(s[i])]
When(b, call) == IF b THEN <<call>> ELSE <<>>

(* tapiocaDeployTask, and tapiocaPostDeployTask after it, of SDK.DeployerVM *)
task_1 ==
    /\ pc = "idle"
    /\ pc' = "deploy" /\ mine' = 0 /\ calls' = <<>>
    /\ UNCHANGED world

\* With the SDK's load option the saved contracts are used again.
loadDeployed ==
    /\ pc = "deploy" /\ db.deployment # 0
    /\ IF deployGeneric /\ deployHost /\ deploySide
       THEN pc' = "setupUsdo" /\ mine' = db.deployment /\ UNCHANGED calls
       ELSE Throw
    /\ UNCHANGED world

tapiocaDeployTask ==
    /\ pc = "deploy" /\ pool = <<>>
    /\ made.deployments < MaxDeployments
    /\ IF deployGeneric /\ deployHost /\ deploySide
       THEN /\ made' = [made EXCEPT !.deployments = @ + 1]
            /\ pc' = "save" /\ mine' = made.deployments + 1 /\ UNCHANGED calls
       ELSE Throw /\ UNCHANGED made
    /\ UNCHANGED <<chain, pool, db, globals, budget>>

save ==
    /\ pc = "save"
    /\ db' = [db EXCEPT !.deployment = mine]
    /\ Goto("setupUsdo", <<>>)
    /\ UNCHANGED <<chain, pool, globals, made, budget>>

\* WRONG: any strategy in the file will do.
HasAnyUsdoStrat == db.usdoStrat.strategy # 0

\* The USDO strategy of the file is used when it is one for this USDO.
HasUsdoStrat == db.usdoStrat.strategy # 0 /\ db.usdoStrat.token = mine

createEmptyStratYbAsset ==
    /\ pc = "setupUsdo" /\ ~HasUsdoStrat
    /\ pool = <<>> /\ made.strategies < MaxStrats
    /\ made' = [made EXCEPT !.strategies = @ + 1]
    /\ chain' = [chain EXCEPT !.assets = @ \cup {<<mine, made.strategies + 1>>}]
    /\ Goto("saveStrat", <<>>)
    /\ UNCHANGED <<pool, db, globals, budget>>

saveStrat ==
    /\ pc = "saveStrat"
    /\ db' = [db EXCEPT !.usdoStrat = [token |-> mine, strategy |-> made.strategies]]
    /\ Goto("setupUsdo", <<>>)
    /\ UNCHANGED <<chain, pool, globals, made, budget>>

setupUsdoInPenrose ==
    /\ pc = "setupUsdo" /\ HasUsdoStrat
    /\ Goto("setupMasters",
            When(penrose.usdo # mine,
                 setUsdoToken(mine, <<db.usdoStrat.token, db.usdoStrat.strategy>>)))
    /\ UNCHANGED world

\* WRONG: registered without a look at Penrose.
setupRegisterMCAlways ==
    /\ pc = "setupMasters"
    /\ Goto("setupMarkets", <<registerMaster(mine, "SGL")>>
                            \o When(IsHost, registerMaster(mine, "BB")))
    /\ UNCHANGED world

setupRegisterMCInPenrose ==
    /\ pc = "setupMasters"
    /\ Goto("setupMarkets",
            When("SGL" \notin penrose.masters, registerMaster(mine, "SGL"))
            \o When(IsHost /\ "BB" \notin penrose.masters, registerMaster(mine, "BB")))
    /\ UNCHANGED world

\* On the host the mock markets are looked up unconditionally.
setupRegisterBBAndSGLMarketsInPenrose ==
    /\ pc = "setupMarkets"
    /\ IF Markets \subseteq Deployed
       THEN Goto("setupEthMarket",
                 CallsFor(Markets \ penrose.markets, LAMBDA m : addMarket(mine, m)))
       ELSE Throw
    /\ UNCHANGED world

setupRegisterBigBangEthMarket ==
    /\ pc = "setupEthMarket"
    /\ Goto("setupFlashHelper",
            When(IsHost /\ penrose.eth # EthMarket, setEthMarket(mine, EthMarket)))
    /\ UNCHANGED world

setupUsdoFlashloanHelperInUsdo ==
    /\ pc = "setupFlashHelper"
    /\ Goto("setupYbAssets",
            When(~usdo.helper, setFlashHelper(mine))
            \o When(FlashloanHelper \notin usdo.minters, setMinter(mine, FlashloanHelper, TRUE))
            \o When(FlashloanHelper \notin usdo.burners, setBurner(mine, FlashloanHelper, TRUE)))
    /\ UNCHANGED world

setupCreateYBAssets ==
    /\ pc = "setupYbAssets"
    /\ IF IsHost /\ ~HasUsdcMock
       THEN Throw
       ELSE Goto("send1", CallsFor({id \in IdsToRegister : ids(id[1], id[2]) = NoId},
                                   LAMBDA id : registerAsset(mine, id)))
    /\ UNCHANGED world

setupPenroseMainAssets ==
    /\ pc = "setupMain"
    /\ Goto("setupDeposits",
            When(IsHost /\ penrose.mainToken # EthMarket,
                 setMain(mine, EthMarket, ids(EthMarket, mine))))
    /\ UNCHANGED world

\* A balance of zero is refused here, one that is too small by the batch.
setupDepositYbAssets ==
    /\ pc = "setupDeposits"
    /\ IF chain.funds = 0
       THEN Throw
       ELSE Goto("setupInit", <<wrap(mine)>>
                \o CallsFor(IdsToSeed, LAMBDA id : depositAsset(mine, ids(id[1], id[2]))))
    /\ UNCHANGED world

\* The two calls that bring one BigBang or one Singularity market up.
initBBMarket(m) ==
    LET id == ids(Collateral(m), mine) IN
    <<initBB(mine, m, id), configBB(mine, m, ConfiguredCap)>>
initSGLMarket(m) ==
    LET asset == ids(mine, db.usdoStrat.strategy)
        id == ids(Collateral(m), mine)
    IN  <<initSGL(mine, m, asset, id), configSGL(mine, m)>>
initBBMarkets(todo) == FlattenSeq(CallsFor(todo \cap BBs, initBBMarket))
initSGLMarkets(todo) == FlattenSeq(CallsFor(todo \cap SGLs, initSGLMarket))

\* WRONG: the configuration outside the check for an initialised market.
setupInitConfigAlways ==
    /\ pc = "setupInit"
    /\ LET todo == {m \in Markets : ~market[m].ready} IN
       Goto("setupMinters",
            initBBMarkets(todo)
            \o CallsFor(BBs, LAMBDA m : configBB(mine, m, ConfiguredCap))
            \o initSGLMarkets(todo))
    /\ UNCHANGED world

setupInitAndRegisterMarket ==
    /\ pc = "setupInit"
    /\ LET todo == {m \in Markets : ~market[m].ready} IN
       IF \E m \in todo : ids(Collateral(m), mine) = NoId
       THEN Throw
       ELSE Goto("setupMinters", initBBMarkets(todo) \o initSGLMarkets(todo))
    /\ UNCHANGED world

\* Not for the mock market; the minter's flag stands for both.
setupRegisterBBAsMinterBurnerInUsdo ==
    /\ pc = "setupMinters"
    /\ LET todo == (BBs \ Mocks) \ usdo.minters IN
       Goto("send2", FlattenSeq(CallsFor(todo,
                        LAMBDA m : <<setMinter(mine, m, TRUE), setBurner(mine, m, TRUE)>>)))
    /\ UNCHANGED world

\* setupPostLbp1 sends calls1, awaits it, then does the same with calls2.
setupPostLbp1(from, to) ==
    /\ pc = from
    /\ pool' = Append(pool, calls)
    /\ pc' = to /\ calls' = <<>> /\ UNCHANGED mine
    /\ UNCHANGED <<chain, db, globals, made, budget>>

Build == \/ setupUsdoInPenrose \/ setupRegisterMCInPenrose
         \/ setupRegisterBBAndSGLMarketsInPenrose \/ setupRegisterBigBangEthMarket
         \/ setupUsdoFlashloanHelperInUsdo \/ setupCreateYBAssets
         \/ setupPenroseMainAssets \/ setupDepositYbAssets
         \/ setupInitAndRegisterMarket \/ setupRegisterBBAsMinterBurnerInUsdo

Script == \/ save \/ createEmptyStratYbAsset \/ saveStrat \/ Build
          \/ setupPostLbp1("send1", "wait1") \/ setupPostLbp1("send2", "wait2")

----------------------------------------------------------------------------
(***************************************************************************)
(* The chain and the people.                                               *)
(***************************************************************************)
\* What the script does when the batch it waits for is mined.
Awaited == pc \in {"wait1", "wait2"} /\ Len(pool) = 1
\* WRONG (of Resume): a batch that reverted is taken for done.
ResumeAnyway(ok) ==
    IF ~Awaited THEN UNCHANGED script
    ELSE IF pc = "wait1" THEN Goto("setupMain", <<>>)
    ELSE pc' = "done" /\ UNCHANGED <<mine, calls>>

Resume(ok) ==
    IF ~Awaited THEN UNCHANGED script
    ELSE IF ~ok THEN Throw
    ELSE IF pc = "wait1" THEN Goto("setupMain", <<>>)
    ELSE pc' = "done" /\ UNCHANGED <<mine, calls>>

Mined(late) ==
    /\ pool # <<>>
    /\ late => budget.late > 0
    /\ LET run == executeMulticall(chain, Head(pool), late) IN
       /\ chain' = run.chain
       /\ Resume(run.ok)
    /\ pool' = Tail(pool)
    /\ budget' = [budget EXCEPT !.late = IF late THEN @ - 1 ELSE @]
    /\ UNCHANGED <<db, globals, made>>

\* The task returns.
completed ==
    /\ pc = "done"
    /\ Throw
    /\ UNCHANGED world

Crash ==
    /\ pc \notin {"idle", "done"} /\ budget.crashes > 0
    /\ Throw
    /\ budget' = [budget EXCEPT !.crashes = @ - 1]
    /\ UNCHANGED <<chain, pool, db, globals, made>>

\* Another project's deployments arrive in the file.
DeployProject(p) ==
    /\ p \notin globals
    /\ globals' = globals \cup {p}
    /\ UNCHANGED <<chain, pool, db, script, made, budget>>

\* The underlying tokens are sent to the multicall, perhaps too little at first.
Fund(f) ==
    /\ chain.funds < f
    /\ chain' = [chain EXCEPT !.funds = f]
    /\ UNCHANGED <<pool, db, script, globals, made, budget>>

\* The owner's own tasks on the saved deployment, between the script's.
OwnerTask(call) ==
    /\ budget.owner > 0
    /\ call.on # 0 /\ call.on = db.deployment
    /\ Succeeds(chain, call, FALSE)
    /\ chain' = After(chain, call)
    /\ budget' = [budget EXCEPT !.owner = @ - 1]
    /\ UNCHANGED <<pool, db, script, globals, made>>

setMarketCap(m, cap) == OwnerTask(configBB(db.deployment, m, cap))
setMinterStatus(a, b) == OwnerTask(setMinter(db.deployment, a, b))

Next ==
    \/ task_1 \/ loadDeployed \/ tapiocaDeployTask \/ Script \/ completed \/ Crash
    \/ \E late \in BOOLEAN : Mined(late)
    \/ \E p \in Projects : DeployProject(p)
    \/ \E f \in 1 .. 2 : Fund(f)
    \/ \E m \in BBs, cap \in Caps : setMarketCap(m, cap)
    \/ \E a \in Operators, b \in BOOLEAN : setMinterStatus(a, b)

Deploys == loadDeployed \/ tapiocaDeployTask
Includes == pool # <<>> /\ pool' = Tail(pool)     \* what Mined does to the pool

----------------------------------------------------------------------------
(***************************************************************************)
(* Properties.                                                             *)
(***************************************************************************)
UsdoIds == Deployments \X (1 .. MaxStrats)
CollateralIds == {Collateral(m) : m \in Markets} \X Deployments
Ids == UsdoIds \cup CollateralIds \cup {<<OriginsToken, d>> : d \in Deployments}

Steps == {"idle", "deploy", "save", "setupUsdo", "saveStrat", "setupMasters",
          "setupMarkets", "setupEthMarket", "setupFlashHelper", "setupYbAssets", "send1",
          "wait1", "setupMain", "setupDeposits", "setupInit", "setupMinters", "send2",
          "wait2", "done"}

\* The variables have the values the script, its file and the contracts can give them.
TypeOK ==
    /\ chain \in [usdo    : [Deployments -> [helper  : BOOLEAN, minters : SUBSET Operators,
                                             burners : SUBSET Operators]],
                  penrose : [Deployments ->
                                [usdo : 0 .. MaxDeployments, usdoId : Ids \cup {NoId},
                                 mainToken : {Weth, EthMarket}, mainId : Ids \cup {Weth},
                                 masters : SUBSET Kinds, markets : SUBSET Markets,
                                 eth : BBs \cup {NoMarket}]],
                  market  : [Deployments -> [Markets ->
                                [ready : BOOLEAN, assetId : Ids \cup {NoId},
                                 collateralId : Ids \cup {NoId}, isMain : BOOLEAN,
                                 cap : Caps \cup {0}, helper : BOOLEAN]]],
                  assets  : SUBSET Ids, seeded : SUBSET Ids, funds : 0 .. 2]
    /\ db.deployment \in 0 .. made.deployments
    /\ db.usdoStrat.token \in 0 .. made.deployments
    /\ db.usdoStrat.strategy \in 0 .. made.strategies
    /\ pc \in Steps /\ mine \in 0 .. made.deployments
    /\ globals \subseteq Projects
    /\ made.deployments \in 0 .. MaxDeployments /\ made.strategies \in 0 .. MaxStrats
    /\ Len(pool) <= MaxCrashes + 1

Wired(d) ==
    LET p == chain.penrose[d] IN
    /\ p.usdo = d /\ p.markets = Markets
    /\ p.masters = IF IsHost THEN Kinds ELSE {"SGL"}
    /\ p.eth = IF IsHost THEN EthMarket ELSE NoMarket
    /\ chain.usdo[d].helper
    /\ \A t \in YbTokens : <<t, d>> \in chain.assets
Up(d) ==
    /\ \A m \in Markets : chain.market[d][m].ready /\ chain.market[d][m].helper
    /\ chain.penrose[d].mainToken = IF IsHost THEN EthMarket ELSE Weth
    /\ \A t \in YbTokens \ {UsdcMock} : <<t, d>> \in chain.seeded
Untouched(d) ==
    /\ chain.penrose[d] = NewPenrose
    /\ ~chain.usdo[d].helper
    /\ \A t \in YbTokens : <<t, d>> \notin chain.assets
Closed(d) ==
    /\ \A m \in Markets : chain.market[d][m] = NewMarket
    /\ chain.penrose[d].mainToken = Weth
    /\ \A t \in YbTokens : <<t, d>> \notin chain.seeded
Live(d) == Wired(d) /\ Up(d)

\* Every market that is up counts in the USDO of its own deployment, under the
\* one asset id its Penrose has: BigBang takes the id from Penrose,
\* Singularity from the deployments file, in different transactions.
UsdoIdAgrees ==
    \A d \in Deployments, m \in Markets : chain.market[d][m].ready =>
        /\ chain.market[d][m].assetId = chain.penrose[d].usdoId
        /\ chain.market[d][m].assetId \in {d} \X (1 .. MaxStrats)

\* The BigBang market that takes Penrose's rate (isMainMarket, from the main
\* asset) is the one the others take their rate from (bigBangEthMarket).
EthMarketIsMain ==
    \A d \in Deployments, m \in BBs : chain.market[d][m].ready =>
        (chain.market[d][m].isMain <=> m = chain.penrose[d].eth)

\* No market is up before somebody holds shares of its collateral in the
\* YieldBox (the mock of USDC is never seeded).
SeededBeforeUp ==
    \A d \in Deployments, m \in Markets \ Mocks :
        chain.market[d][m].ready => chain.market[d][m].collateralId \in chain.seeded

\* A run that ends without an error leaves its deployment live.
DoneMeansLive == pc = "done" => Live(mine)

\* A market that is up keeps the borrow cap the owner gave it, whatever runs
\* of the script, and batches of runs that crashed, come after.
CapsAreTheOwners ==
    [][\A d \in Deployments, m \in BBs :
           chain.market[d][m].ready /\ chain.market'[d][m].cap # chain.market[d][m].cap
               => budget'.owner < budget.owner]_vars

Stage(d) ==
    IF d > made.deployments THEN "none"
    ELSE IF Untouched(d) /\ Closed(d) THEN "deployed"
    ELSE IF Wired(d) /\ Closed(d) THEN "wired"
    ELSE IF Live(d) THEN "live" ELSE "torn"

\* A deployment goes through its stages in one piece and never back, although
\* it takes many calls, two transactions and perhaps several runs.
Staged == INSTANCE StagedRollout WITH stage  <- [d \in Deployments |-> Stage(d)],
                                      latest <- db.deployment
IsStagedRollout == Staged!Spec

\* The deployment in the file goes live, or a later one takes its place: the
\* operator only has to run the task again after a crash or a revert.
SavedGoesLive == Staged!LatestGoesLive
=============================================================================
