------------------------------ MODULE Rollout -------------------------------
(***************************************************************************)
(* The three scripts that bring the system up on a chain: the first one    *)
(* (Deployment, 1-1-deployPostLbp.ts), the one that mints USDO against     *)
(* tETH (OriginsMint, 1-2-deployPostLbp.ts) and the last one               *)
(* (FinalRollout, 2-deployFinal.ts).                                       *)
(*                                                                         *)
(* The operator runs one after the other, each when the one before is done *)
(* with, and what they leave for each other are contracts that the next    *)
(* one's model takes for granted.  So a behaviour here is a behaviour of   *)
(* one script, with all its runs, and the variables of the others rest.    *)
(***************************************************************************)
EXTENDS Integers

CONSTANTS
    Scripts,            \* those a behaviour may be of
    MaxCrashes, MaxLate \* bounds, of each of them

CONSTANTS               \* of Deployment
    BBs, SGLs, Mocks, EthMarket, UsdcMock, OriginsToken, Weth, NoId, NoMarket,
    Caps, ConfiguredCap, IsHost, IsTestnet, HasGlpStrat, HasUsdcMock,
    MaxDeployments, MaxStrats, MaxOwnerTasks

CONSTANTS               \* of OriginsMint
    PRECISION, PERCENT, CR, Rates, MinBorrow, EthAmounts, Deltas, TestnetMint, MaxOrigins,
    MaxFunds

CONSTANTS               \* of FinalRollout
    LendSide, WrapSide, LendHost, WrapHost, ReceiptsPer, MaxRounds

VARIABLES
    script,             \* the one the behaviour is of
    chain, pool, db, pc, mine, calls, globals, made, budget,
    origins, originsMade, wallet, signer, oracle, originsPool, originsDb, originsPc,
    job, funded, crashes,
    usdo, receipts, wrapped, tSglSdai, tSglSglp, sent, lent, oracles, finalPool,
    finalPc, finalChain, done, finalBudget

Deploy == INSTANCE Deployment
Mint == INSTANCE OriginsMint WITH
    made <- originsMade, pool <- originsPool, db <- originsDb, pc <- originsPc
Final == INSTANCE FinalRollout WITH
    pool <- finalPool, pc <- finalPc, chain <- finalChain, budget <- finalBudget

ASSUME RolloutAssumption ==
    /\ Scripts \subseteq {"deployPostLbp_1", "deployPostLbp_2", "deployFinal"}
    /\ Deploy!MarketsAssumption /\ Deploy!ChainAssumption
    /\ Mint!OriginsAssumption
    /\ Final!FinalAssumption

deployVars == <<chain, pool, db, pc, mine, calls, globals, made, budget>>
mintVars == <<origins, originsMade, wallet, signer, oracle, originsPool, originsDb,
              originsPc, job, funded, crashes>>
finalVars == <<usdo, receipts, wrapped, tSglSdai, tSglSglp, sent, lent, oracles,
               finalPool, finalPc, finalChain, done, finalBudget>>
vars == <<script, deployVars, mintVars, finalVars>>

Init ==
    /\ script \in Scripts
    /\ Deploy!Init /\ Mint!Init /\ Final!Init
    /\ script # "deployPostLbp_2" => oracle = 0

Next ==
    /\ UNCHANGED script
    /\ \/ /\ script = "deployPostLbp_1" /\ Deploy!Next
          /\ UNCHANGED <<mintVars, finalVars>>
       \/ /\ script = "deployPostLbp_2" /\ Mint!Next
          /\ UNCHANGED <<deployVars, finalVars>>
       \/ /\ script = "deployFinal" /\ Final!Next
          /\ UNCHANGED <<deployVars, mintVars>>

(***************************************************************************)
(* Fairness: a script that runs takes its next step, the operator runs it  *)
(* again until it is done (the last one on each chain, strongly, because   *)
(* runs on the other chain come in between), a transaction in the pool is  *)
(* mined, a message arrives, the other projects are deployed and the       *)
(* multicalls are funded.  Nobody has to crash, to be late or to deploy    *)
(* afresh.  The second script promises nothing that has to happen: its     *)
(* batches may revert for ever.                                            *)
(***************************************************************************)
FirstFairness ==
    LET on == script = "deployPostLbp_1" IN
        /\ WF_deployVars(on /\ Deploy!task_1) /\ WF_deployVars(on /\ Deploy!Deploys)
        /\ WF_deployVars(on /\ Deploy!Script) /\ WF_deployVars(on /\ Deploy!completed)
        /\ WF_pool(on /\ Deploy!Includes) /\ WF_deployVars(on /\ Deploy!Fund(2))
        /\ \A p \in Deploy!Projects : WF_deployVars(on /\ Deploy!DeployProject(p))

LastFairness ==
    LET on == script = "deployFinal" IN
        /\ \A step \in Final!Sends : WF_finalVars(on /\ Final!executeMulticall(step))
        /\ \A c \in Final!Chains :
              /\ WF_finalVars(on /\ \E late \in BOOLEAN : Final!Mined(c, late))
              /\ WF_finalVars(on /\ Final!Fund(c))
              /\ SF_finalVars(on /\ Final!FirstRound(c))
        /\ WF_finalVars(on /\ Final!lzReceive)

Spec == Init /\ [][Next]_vars /\ FirstFairness /\ LastFairness

----------------------------------------------------------------------------
(***************************************************************************)
(* Properties: those of the scripts, each stated in its own module.        *)
(***************************************************************************)
\* The type invariant of each script's model.
TypeOK == Deploy!TypeOK /\ Mint!TypeOK /\ Final!TypeOK

\* Before a market of a deployment is up, its Penrose has all it goes by: the one
\* id of the deployment's own USDO, the ETH market as the main one, and holders of
\* the market's collateral.
MarketsFit == Deploy!UsdoIdAgrees /\ Deploy!EthMarketIsMain /\ Deploy!SeededBeforeUp

\* A run of the first or the last script that ends without an error did what it is
\* for: the deployment it worked on is live, the side's receipts are on their way
\* or there, all oracles are set.
DoneMeansDone == Deploy!DoneMeansLive /\ Final!DoneMeansSeeded

\* A market that is up keeps the borrow cap its owner gave it, whatever runs, and
\* batches of runs that crashed, come after.
CapsAreTheOwners == Deploy!CapsAreTheOwners

\* A deployment goes through its stages in one piece and never back.
IsStagedRollout == Deploy!IsStagedRollout

\* The operator only has to run a script again after a crash or a revert: the
\* deployment in the file goes live or a later one takes its place, and in the end
\* the oracles are set and the side's receipts are on the host.
RolloutCompletes ==
    /\ script = "deployPostLbp_1" => Deploy!SavedGoesLive
    /\ script = "deployFinal" => Final!RolloutCompletes

\* All USDO the second script mints, for two purposes and over repeated and crashed
\* runs, is owed to the Origins markets, and between transactions nothing is left
\* in the YieldBox or approved.
MintedIsOwed == Mint!SupplyIsOwed /\ Mint!NothingLeftOver

\* A batch of the second script that is funded goes through while the oracle answers
\* a rate within delta of the one it was computed from, roundings included.
DeltaHolds == Mint!DeltaHolds

\* Every wrapped receipt of the last script is on a chain or on its way, and the
\* oracles are switched together, not before somebody lends.
ReceiptsBacked == Final!ToftsBacked /\ Final!OraclesNeedLender
=============================================================================
