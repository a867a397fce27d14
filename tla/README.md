# Tapioca-bar, specified

Tapioca-bar is a set of Solidity contracts in which users lock collateral and
borrow. In a **BigBang** market what they borrow is USDO, which the market mints
for them; in a **Singularity** market it is an asset that other users lend.
**Penrose** owns the markets. The contracts come with the scripts that deploy them
on several chains and the tasks their owner runs. This directory holds TLA+
models of the contracts (`src/contracts`) and of those scripts (`src/tasks`), the
TLC configurations that check them on small instances, and theorems about the
contracts, the scripts and the tasks for every instance, with proofs for TLAPS.

## 1. Inventory

| Part | State | Operations | Talks to |
|---|---|---|---|
| BigBang market (`markets/bigBang`) | `totalBorrow` (elastic debt, base parts), `userBorrowPart`, `userCollateralShare`, `totalCollateralShare`, `openInterestDebt`, cached `exchangeRate`, `accrueInfo`, `pauseOptions` | addCollateral, removeCollateral, borrow, repay, buyCollateral, sellCollateral, liquidate, liquidateBadDebt, accrue, updateExchangeRate, owner setters, pauses; `execute` batches them by delegatecall | YieldBox (shares), USDO (mint, burn), oracles, leverage executor, liquidator receiver, Penrose, the ETH market |
| Market base (`Market.sol`, `MarketERC20.sol`) | configuration, allowances, nonces | setMarketConfig, solvency, closing factor, caller reward, allowance checks | cluster, pearlmit |
| Singularity market (`markets/singularity`) | `totalAsset`, `totalBorrow`, `balanceOf`, interest per second, fees | addAsset, removeAsset, the borrowing operations of BigBang, accrue with an interest curve | as BigBang, without USDO minting |
| Origins (`markets/origins`) | one allowed participant's debt and collateral | addCollateral, removeCollateral, borrow, repay | USDO, YieldBox |
| Penrose (`Penrose.sol`) | registries of master contracts and markets, `bigBangEthMarket`, `bigBangEthDebtRate`, pause | register, unregister, setBigBangEthMarket, setBigBangEthMarketDebtRate, reAccrueBigBangMarkets, mintOpenInterestDebt, withdrawAllMarketFees, executeMarketFn | all markets, USDO, twTap |
| Debt rates (`BBDebtRateHelper.sol`) | none | getDebtRate | Penrose, the ETH market's debt |
| USDO and flash loans (`usdo/Usdo.sol`, `USDOFlashloanHelper.sol`) | supply, minters, burners, pauses, fee pot | mint, burn, addFlashloanFee, extractFees, flashLoan | LayerZero endpoint, borrower's callback |
| USDO cross-chain modules (`usdo/modules`) | none of their own | deposit and lend, borrow, exercise an option on arrival of a composed message | LayerZero, markets, option broker |
| Leverage executors, liquidator receivers | none | swap and wrap tokens | external protocols |
| MarketHelper, MarketStateView | none | encode calls, compute liquidation amounts | markets |
| Rollout scripts (`tasks/deploy`: 1-1, 1-2, 2-deployFinal) | the deployments file, where a run is, the batch it builds | deploy, save, read the chain, send batches through TapiocaMulticall, be run again | all contracts of a chain, other projects' deployments, LayerZero |
| Market tasks (`tasks/exec`) | none; each encodes one call | set the configuration, cap, pauses, oracles, fees | markets, through Penrose.executeMarketFn |
| YieldBox asset tasks (`registerYbAssets`, `02-deployEmptyStrats`) | the deployments file | deploy strategies, register them with their tokens in one batch | YieldBox, other projects' files |
| Mock swapper tasks (`fillMockSwapper`, its deployment) | the deployments file | mint, wrap, send tokens across chains, deposit them | two chains, LayerZero |
| Same-chain flow (`test-sameChainFlow`) | the account of the tester | walk one account through both kinds of market | markets, YieldBox, Magnetar |

What is hard about these contracts: every call is one transaction, so nothing is
interleaved inside a call except what the call itself hands control to (a swap,
a liquidator, a flash-loan borrower, another market). The difficulty lies in
**long sequences of legal calls** by many users, in **roundings** that have to
go the right way in every one of them, in **order** (interest before debt, the
ETH market before the others), in **cached values** (the exchange rate, the
collateral total), and in **what one actor's call does to another's position**.
A liquidation hands control to a contract of the liquidator's choice; a BigBang is
closed to it then, but the lending functions of a Singularity do not go through the
guarded `execute`.
The scripts are hard in the other way: between any two of their awaits the chain
moves on, a transaction is **late** or never mined, the operator's machine **crashes**
and he runs the script **again**, a message to another chain is still **on its way**,
and what a file says is no longer so.
The list, line by line, is in `PROJECT.json` under `hazards`.

What makes each part correct:

* BigBang: the debt total is the sum of the parts and can always be repaid; USDO
  in existence is owed by somebody; collateral is never credited twice or sent
  out of another's account; only the oracle and interest can make a position
  liquidatable; a liquidation takes no more than the debt plus the bonus, and
  its reward is not paid from the protocol's fees.
* Singularity: every fraction of the pool is somebody's, and what the pool counts is
  held; no call of one user costs the lenders more than a rounding; only the oracle and
  interest can make a position liquidatable; the rate stays in its bounds.
* Penrose: a market's rate depends on the ETH market's debt, so that debt may
  only change when all registered markets are accrued; open interest is minted
  once.
* USDO: only minters and burners change the supply; the fee pot is covered.
* The rollout: a deployment goes live in steps that each happen in one piece; no run,
  late or repeated, undoes what the owner set; all USDO it mints is owed and each
  receipt it sends is backed; running a script again is enough to finish.
* The tasks: whatever the owner enters, the settings stay what the markets' arithmetic
  needs; a task that ends well did what it says; tokens are accounted for wherever it
  stops.

## 2. Modules

| Module | Models | Kind |
|---|---|---|
| `Rebase` | `RebaseLibrary` (toBase, toElastic, add, sub) and the uint128 of a `Rebase` | operators |
| `Sums` | the sum of a function over its domain | operators |
| `MarketMath` | YieldBox shares, fees, solvency, closing factor, caller reward, opening fee, the liquidation's split (`Market.sol`, `BBCommon`, `BBLiquidation`) | operators |
| `BigBang` | one BigBang market with its users, its owner and its environment | specification |
| `DebtLedger` | what a market that mints its own asset promises: debt, supply, interest owed | abstract specification |
| `DebtRate` | `BBDebtRateHelper.getDebtRate`, the interest of a debt at a rate | operators |
| `Penrose` | Penrose and the BigBang markets it owns, each as its debt, open interest, rate settings and pause | specification |
| `Singularity` | one Singularity market with its lenders, borrowers, owner and environment | specification |
| `MarketConfig` | the setters of a BigBang market and what they accept | operators |
| `MarketTasks` | the owner's tasks on a market, its users and Penrose's main asset meanwhile | specification |
| `DeployCalls` | the contracts of a rollout as the owner's batches change them | operators |
| `StagedRollout` | what a rollout promises: deployed, wired, live | abstract specification |
| `Deployment` | `1-1-deployPostLbp`: USDO, Penrose and the markets are deployed and brought up in two batches | specification |
| `OriginsMint` | `1-2-deployPostLbp`: an Origins market, and USDO minted against ETH in one batch | specification |
| `FinalRollout` | `2-deployFinal`: the side chain lends and sends receipts, the host switches oracles and lends | specification |
| `Rollout` | the three scripts together, one per behaviour | composition |
| `YbAssets` | the strategies and YieldBox assets of one chain | specification |
| `MockSwapper` | the mock swapper filled across two chains | specification |
| `SameChainFlow` | the test flow through both kinds of market | specification |
| `Tasks` | `MarketTasks`, `YbAssets`, `MockSwapper`, `SameChainFlow`, one per behaviour | composition |
| `MCBigBang`, `MCPenrose`, `MCDebtLedger`, `MCSingularity`, `MCTasks` | symmetry, bounds, deployed settings | for TLC |
| `CommonTheorems`, `MarketMathTheorems` | lemmas about sums, sets and sequences, and about the markets' operators | proofs |
| `BigBangProofs`, `SingularityProofs`, `PenroseProofs`, `DebtLedgerProofs` | theorems about the contracts | proofs |
| `RolloutProofs`, `TasksProofs` | theorems about the scripts and the tasks, with a section for each | proofs |

`BigBang` and `Penrose` are two views of the same markets: `BigBang` has the inside of one,
with the rate of its interest left open; `Penrose` has where that rate comes from, for
several markets, without users and collateral. Both implement `DebtLedger`. `Deployment`
implements `StagedRollout`. `MarketConfig` is where the assumptions of `MarketMath` come
from: `MarketTasks` instantiates it with the settings of each state.

### How `BigBang` corresponds to the code

One action per external entry point, with the parameters of the function and,
as further parameters, what the world answers during the call: the exchange rate
(`rate`), the asset's price (`price`), the rate of the debt rate helper
(`debtRate`), what a swap returns (`out`, `returned`). Each is any member of a
constant set at each call, so an oracle that is stale, jumps or fails (then the
cached rate is used, which is such a member) is included. A revert changes
nothing, so `require`s and reverts are guards.

* `_accrue` is the operators `accrued`, `interest` and the action part `Accrues`,
  which every call that accrues in the code includes. `elapsed` stands for
  `block.timestamp - accrueInfo.lastAccrued` and grows in `Tick`.
* `_addTokens` with `skim` compares with the market's YieldBox balance
  (`collateralBalance`) less the credited total, and moves shares otherwise.
* `_borrow` is `Borrows`, `_repay` is `Repays`; both are shared with leverage,
  as in the code.
* `_updateBorrowAndCollateralShare` is `liquidationCut`, the set of what a
  liquidation takes: empty where the code reverts.
* A `liquidate` call for several users is a sequence of `liquidate` steps at one
  rate; the code skips solvent users.
* `BigBang.execute` delegatecalls modules one after the other under one
  reentrancy lock: a batch is a sequence of actions.
* USDO is tracked as its supply and what the market itself holds; users' wallets
  are the rest (`circulating`), which only limits what can be repaid.

### How `Penrose` corresponds to the code

* An action of a market is its effect on debts: `borrow` stands for borrowing and leverage
  up, `repay` for everything that takes debt away (repay, leverage down, liquidations, bad
  debt). These are the calls that make Penrose accrue the other markets
  (`reAccrueBigBangMarkets`); `removeCollateral`, `accrue` and `setBigBangConfig` accrue
  the ETH market and their own only.
* A call charges a set of markets at once (`AccruedByCall`, `Charges`). In the code these
  accruals are calls one after the other in the same transaction; the ETH market comes
  first, so all others read its charged debt (`accruedEthDebt`), and charging a market
  twice at one timestamp does nothing. Any of them reverting reverts the call: `CanCall`.
* `rateOnAccrual` is the rate an accrual now would use for the whole time since the last.
* `accruePaused` is `AddCollateral` or `RemoveCollateral` paused, which is what the public
  `accrue` looks at. Penrose's own pause stops `reAccrueBigBangMarkets`, for all markets.
* `unregisterContract` takes the market type as the owner gives it: with the type of a
  Singularity market the registry forgets the market and the list keeps it.
* The owner is assumed to set as ETH market one with the main collateral, as the code's
  `isMainMarket` presumes and does not check, and to deploy markets with ordered rates.
* A second market with the main collateral also pays `bigBangEthDebtRate`, and
  `setBigBangEthMarketDebtRate` does not charge it first: `RateNotRetroactive` is about all
  registered markets but such a one. The runs have one main market; the theorems any number.

### How `Singularity` corresponds to the code

As `BigBang`, with these differences.

* The pool is `totalAsset` (idle shares against fractions), `balanceOf`, the fractions
  Penrose has earned and not been given (`feesEarnedFraction`) and what the market holds in
  YieldBox (`assetBalance`); what fractions are worth is the idle shares and the debt
  (`allShare`). The code computes fees in tokens and lending in shares: so does the model.
* An accrual (`Accrues`, with `accruedBorrow`, `accruedAsset`, `accruedRate`) charges
  interest, gives Penrose fractions for its part and moves the rate by the utilization.
* A liquidation is two steps. `liquidate` takes the debt and the collateral and leaves a
  `receiver`; `onCollateralReceiver` is its return, after which the code reads the totals
  again. Between the two the receiver may call what does not go through `execute`:
  addAsset, removeAsset, transfer, accrue. `NotEntered` is `execute` being nonReentrant.
  `liquidate` can only be taken if some return suffices, since otherwise all is undone.
* Leverage executors are set by the owner and called after the debt is booked; they are
  taken not to call back, so leverage is one step.
* `LendersNeverLose` compares what a fraction is worth before and after a call. It
  tolerates less than one token for all fractions together: fees are computed from the
  whole tokens of the idle shares, and the rest of a token is left out of their price. It
  leaves out calls made while a receiver runs: then the debt is gone and its repayment
  has not come, and who lends then buys fractions at the lower price.

In `BigBang` a liquidation is one step: its lending side has no entry point outside
`execute`, and the few calls a receiver could make (accrue, updateExchangeRate) are taken
not to happen in between.

### How the rollout modules correspond to the scripts

* A script is a program counter (`pc`), what it has read, and the calls it collected. Each
  step is what happens from one await to the next. It reads the chain and the deployments
  file when the code does and builds its batch from what it read.
* A batch is one transaction of TapiocaMulticall; every call of it has `allowFailure` false,
  so it happens as a whole or not at all. `DeployCalls` has each call with what makes it
  revert.
* What was sent is in the `pool` until it is mined, in the order of sending, whether or not
  the script that sent it still runs. A transaction may be mined `late`, when the approvals
  its calls go by have ended, or at a higher fee than was quoted: then it reverts. `Crash`
  stops a script anywhere.
* In `Deployment` the owner changes a cap meanwhile, other projects' contracts appear one
  by one, the multicall is funded some time, and a further deployment may replace the
  first. Nothing makes the side chain's run come before the host's.
* `OriginsMint` computes how much to borrow outside the chain, from the cached rate less
  delta percent (`borrowAmount`), while the oracle moves and fails. While it fails no market
  can be deployed and none lends: the constructor and `borrow` read the oracle and revert.
  A loan must be above `minBorrowAmount` (`MinBorrow`). On a testnet the minted
  mock tETH goes to the multicall and does not fill what `wrapToft` takes its check from.
  `solvent` has the same precision on both sides, as in the code.
* `FinalRollout` has two chains. Wrapped receipts travel as messages which arrive some time.
* `Rollout` runs one script per behaviour (`script`): the operator runs one after the other,
  and what one leaves for the next are contracts that the next one's module takes as given.

### How the task modules correspond to the tasks

* `MarketConfig` has the settings as a record; a setter is what it accepts and what it
  leaves. `MarketTasks` sends them: a task throws if its call cannot be encoded or reverts,
  and it encodes its answers in the order the code does (two places off in
  `04-market-setMarketConfig`, the cap in the wrong place in `setBorrowCap`). `init` and the
  task for the configuration pass 20 zero bytes as oracle data. The sender is taken to own
  Penrose; after a new rollout that is the multicall, and the tasks would revert.
* `YbAssets` has a token as its name and how often it was deployed, so that a strategy may
  be for an old token of the same name. The file is read at the start of a task and
  written at its end.
* `MockSwapper` has the transactions of the deployer on two chains, those the task waits
  for and those it does not, and the message in between. A read may or may not see what is
  in the pool (`Seen`).
* `SameChainFlow` has every token as a number on an account (wallet, YieldBox, pool,
  collateral, debt and its parts, what was charged), each call as what it takes and gives.
  The markets' calls are those of the code under `contracts/markets`: `loan` adds the opening
  fee to the debt and rounds its parts up (`BBLendingCommon._borrow`,
  `SGLLendingCommon._borrow`), `repay` takes at most the parts there are, at their worth
  rounded up (`SGLLendingCommon._repay`). Between any two steps a market may charge interest
  (`accrue`) and the fees may change (`FeesChange`): BigBang's goes with the price of USDO.
  The account is the markets' one borrower and lender, nobody liquidates, and the price of
  collateral stays; a share of YieldBox is an amount. `EntryPoints` says whether the
  markets have the functions the task calls: they had at the release it is written for;
  in this repository they are behind `execute`.
* `Tasks` composes them by `group`: they have no state in common.

### Abstractions

Percentages keep their formulas and have a small precision
(`FEE_PRECISION`, `EXCHANGE_RATE_PRECISION`, `DEBT_PRECISION` are constants);
YieldBox has a fixed number of shares per token (`SharesPerAmount`), as it does for assets
without a strategy that gains or loses (USDO, the wrapped collateral), so that
whole tokens, dust and roundings are present; the annual division of the rate by seconds is
part of `DebtRates`, which are per time unit. Callers act on their own
positions: allowances only restrict who may call.

## 3. What is checked

The runs of the contracts assume no fairness and check no liveness. A contract does
nothing by itself: no call is ever owed, so no fairness can be justified by the code,
and "eventually" properties would be about users. For the same reason their
configurations say `CHECK_DEADLOCK FALSE` where the bounds let a market stop
(everything paused, no tokens left to repay with); `singularity` checks deadlock.

The runs of the scripts, `rollout` and `tasks`, check that what is repeated gets done
(`RolloutCompletes`, `TasksComplete`) and that needs fairness, written at `FirstFairness`,
`LastFairness`, `AssetFairness` and `SwapperFairness`:

* a script that runs takes its next step, and a transaction in the pool is mined: weak;
* messages arrive, other projects deploy what the script waits for, and the multicall is
  funded: weak, each stays possible until it happens;
* the operator runs a script again until it is done: weak where it stays possible, strong
  where a run on the other chain or of another task comes in between and disables it.

Crashes, late transactions, hasty runs, changes by the owner and new deployments are
bounded and never owed. `OriginsMint`, `MarketTasks` and `SameChainFlow` have no fairness:
they promise nothing that has to happen. Both configurations say `CHECK_DEADLOCK FALSE`:
the scripts end, and the operator has no more to do.

| Run | Instance | Shows |
|---|---|---|
| `bigbang_borrow` | two users, debt up to 8, a fee of up to a half, interest, two rates and prices | `TypeOK`, `BorrowPartsSum`, `DebtsRepayable`, `SupplyBacked`, `DebtPerPartGrowsOnlyWithTime`, and that the market implements `DebtLedger` |
| `bigbang_liquidation` | two users, four rates from healthy through covered, uncovered bonus and bad debt | `CollateralCustody`, `FeesLeaveOnlyToPenrose`, `LiquidationSeizesAtMostBonus` |
| `bigbang_leverage` | two users, leverage both ways, skims, donations, a pause option | `CollateralCustody`, `OnlyPriceOrInterestEndangers` |
| `penrose_rates` | the ETH market and another with a rate between 1 and 3, all setters and pauses | `TypeOK`, `RatesInBounds`, `RateNotRetroactive` |
| `penrose_registry` | the same two markets, a list of up to three entries | `RegisteredAreListed`, and that all markets together implement `DebtLedger` |
| `debt_ledger` | amounts up to 12 | `Backed`, `GapNeverCloses` of the abstract ledger |
| `singularity` | two users lending and borrowing, two rates of interest, an opening and a protocol fee, one pause, skims and donations | `TypeOK`, `FractionsSum`, `PositionsSum`, `Custody`, `LendersNeverLose`, `DebtPerPartGrowsOnlyWithTime`, `OnlyPriceOrInterestEndangers` |
| `rollout` | each script with a crash and a late batch anywhere; two deployments, three strategies, one task of the owner; two Origins markets and an oracle that jumps and fails; a side chain and the host | `TypeOK`, `MarketsFit`, `DoneMeansDone`, `MintedIsOwed`, `DeltaHolds`, `ReceiptsBacked`, `CapsAreTheOwners`, that the first script implements `StagedRollout` (`IsStagedRollout`), `RolloutCompletes` |
| `tasks` | two changes of any settings from every way to initialise a market; a token deployed again, a run too many and a crash; two swappers, a hasty run and a crash; two runs of the flow, with and without opening fees, up to two units charged as interest | `TypeOK`, `SettingsStayValid`, `DoneMeansRegistered`, `TokensAccounted`, `FlowWaits`, `TasksComplete` |
| `tasks_accrual` | the market tasks of `tasks` | a counterexample: a market that cannot accrue (section 5) |
| `bigbang_bare_debt` | one user | a counterexample: debt without collateral after a liquidation (section 5) |
| `bigbang_fully_minted` | as `bigbang_borrow` | a counterexample: the open interest minted, the supply below the debt (section 5) |

Why the bounds are enough: what the properties depend on is which way a rounding
goes, whether a total is at its cap, whether a liquidation is covered with the
bonus, without it or not at all, and whether two users' positions interfere. A
debt of up to 8 with parts that are not one-to-one (interest of a whole debt per
time unit, fees of a half) makes every rounding of `Rebase` non-trivial; 2 or 3 shares a
token make dust; the uint128 is `UINT128_MAX`, which interest reaches; the four
rates of the liquidation run were chosen so that each branch of
`liquidationCut` is taken. `MaxElapsed` bounds time between accruals and
`MaxCollateral` the shares in the market; both only cut behaviours short. In the Penrose runs a debt of up to 4 against ratios that
put the debt point above, at and below it takes every branch of `getDebtRate`; a list of
three entries for two markets holds one of them twice. In the Singularity run a token is
two shares and what is lent and locked is odd, so that every rounding happens; time passes
with debts up to 3 (`MaxDebt`), which interest and the cap of 7 bound in turn; both rates
are reached and left again. Its liquidations clear the debt they take; partial ones are in
`bigbang_liquidation`. The theorems of the next section need none of these bounds.

In the runs of the scripts one crash and one late transaction meet every step; a second of
either finds the script where the first left it, at its start. Two deployments are what it
takes to find one replaced, three strategies what the second leaves over. Two changes of the
settings relate any two bounds, one against the other; the scale (20 for 100 %) separates
them all. In the flow a loan from Singularity is two units and one of interest makes its parts
uneven, so that a repayment is rounded; the fees of one unit change between two loans. With
`MinBorrow` at 2 the quotes for the one amount of ETH are 2, 3, 6 and 9: one is too small
to be lent, by the bound itself, and the others are not.

Every property has a mutant: a plausible slip in one of the translated
definitions (marked WRONG in the modules) which TLC must find to violate it.

## 4. What is proved

For every value of the constants that satisfies the named assumptions
(`MarketAssumption`, `SingularityAssumption`, `PrecisionAssumption`, `RateAssumption`,
`MintFeeAssumption`, `UintAssumption`, `DebtRateAssumption`, `PenroseAssumption`,
`LedgerAssumption`, `RolloutAssumption`, `GroupsAssumption`), with any finite set of users:

* `TypeCorrect`, `PartsAddUp`, `CollateralIsHeld`, `DebtsStayRepayable`,
  `SupplyStaysBacked`: the invariants of the runs above;
* of `BigBang`, the action properties: `OnlyTimeMakesDebtDearer` about the debt per part,
  `OnlyPriceOrInterest` about the solvency of its users, `SeizesAtMostBonus` and
  `FeesGoToPenrose` about liquidations;
* `MarketImplementsLedger`: every step of the market is a step of `DebtLedger`;
* of `Penrose`, for any number of markets: `RegisteredStayListed`, `RatesStayInBounds`,
  `NeverRetroactive` (the action property about rates), `PenroseImplementsLedger`, and its
  own `TypeCorrect`;
* of `Singularity`: its own `TypeCorrect` and `OnlyTimeMakesDebtDearer`, `FractionsAddUp`,
  `PositionsAddUp`, `SharesAreHeld`, and the action properties `LendersKeepWorth` and
  `OnlyPriceOrInterest`;
* `LedgerBacked`, `LedgerGapNeverCloses` for the ledger itself;
* of the rollout, for any finite sets of markets and any number of deployments, runs, crashes
  and late batches: its types (`RolloutTyped`); of the first script `DeploymentsFit`,
  `CapsKept` and `FirstScriptIsStaged`, that it implements `StagedRollout`; of the second
  `MintedOwed` and `DeltaSuffices`; of the last `ReceiptsStayBacked`; of the first and the
  last `DoneIsDone`;
* of the tasks: `TypeCorrect`, `SettingsValid`, `DoneRegistered`, `TasksKeepTokens` and
  `FlowWaitsHolds`.

With these every property a run checks and expects to hold is a theorem, except for liveness.

The assumptions about the scripts and the tasks say what the code's environment gives:
names of tokens and markets are not mistaken for one another, there are finitely many of
each, a host chain has the ETH market and it is no mock (`DEPLOY_CONFIG.ts`), the defaults a
market is initialised with are within the bounds its setters check, and the owner's flow is
run at least once.

The argument for `BigBang`. The invariant is `IInv`, the conjunction of `DebtInv` (types of the
debt, parts add up, and `Covered`), `CollateralInv`, `MoneyInv` and `ControlInv`.
Three points carry it.

1. *No part is worth less than a token* (`Covered`: elastic is at least base and
   both are zero together). Without it the others are not inductive: a
   repayment of some parts, rounded up, could exceed the whole debt, or leave
   parts with no debt, and the subtraction would revert or underflow. It holds
   because a loan's parts round up against a total that only interest increases (`borrowPart`
   never exceeds the tokens), and because repayments round the tokens up.
2. *What moves in one user's entry moves in the total.* `CommonTheorems` proves
   once what updating one entry does to a sum; every action then has a one-line
   case.
3. *Whole tokens survive YieldBox.* `ShareRoundTrip` shows that tokens turned
   into shares and back are the same tokens, so what is burned is what leaves
   the debt, and the ledger's `Retire` is met exactly.

The action properties of `BigBang` need no more than `IInv`. In a step that charges no interest
no part gets dearer (`NotDearer`), so a position that gets no parts and loses no shares stays
solvent: `SolventWithLess` says so of `isSolvent` with its two roundings,
`LighterStaysSolvent` of the market. That covers every user but the caller
(`OthersUntouched`) and the calls that only lighten a position; the others check the caller
at their end, and a liquidation demands a user who is not solvent by the laxer rate, which
`SolventNotLiquidated` excludes (`CallerStaysSolvent`). `LiquidateFacts` says what a liquidation does
to collateral, fees and supply, for both other properties: `CutWorth` carries what its cut
is worth through the divisions of the price and of YieldBox, and `CallerPaidFromSurplus` keeps
the caller's reward, rounded up, within the surplus (`FeesStay`). `OnlyPriceOrInterest` of
`Singularity` is shown along the same lines.

For `Penrose` the invariant is its types, `RegisteredAreListed` and that the settings of
each market stay ordered (`ConfigsOrdered`; the setters keep it, one bound at a time).
`EthDebtStays` is the centre of `NeverRetroactive`: charging the ETH market leaves the debt
an accrual of another market would have found, so only a change of its debt beyond
interest can change rates, and such a call reaches every registered market because it is
listed. The ledger follows from `SumAdd`: the sum of the charged debts is the sum of the
debts and the sum of the interest, so one call on many markets is one step.

For `Singularity` the invariant adds `AssetInv` (fractions add up and are backed by shares
in YieldBox) and, in `ControlInv`, what a liquidation under way has to return: an amount
that is not zero and a reward that is a part of the surplus. Debt and collateral go as in
`BigBang`. Three points are its own.

1. *A fee is a part of the pool it is paid to.* Interest is added before the fee on it is
   turned into fractions (`FeeFractionFacts`), an opening fee is charged on tokens the pool
   had (`BorrowsKeeps`), and the surplus comes after the repayment, which is never zero
   (`OnCollateralReceiverOK`; `CutFacts`). So no fraction is computed with a divisor that
   is not positive.
2. *Worth is followed in two measures.* Fees are priced in whole tokens, lending and
   removing in shares, and a pool may hold a part of a token. `MildLoss` puts the two
   together: first the tokens per fraction do not fall, then the shares per fraction do
   not, and between the two less than one token is lost. This is why `LendersNeverLose`
   allows one token for all fractions and no more.
3. *What a receiver calls in between.* Lending and transfers keep `IInv` whether a
   receiver runs or not, and `due` counts what it has to make good, so the step that begins
   a liquidation and the one that ends it both keep the worth; the calls in between are not
   in the property.

`BigBangProofs` and `SingularityProofs` have a lemma for each group of actions, with a step for each
action that touches the conjunct. `MarketMathTheorems` states what the operators
return and bound (`CallerRewardBounded`, `CallerPaidFromSurplus`, the
interpolation of the opening fee), and the inequalities of the two roundings of `Rebase`.

For the **rollout** each script has its own invariant, and a behaviour of one script leaves
the variables of the others alone.

1. `DeployInv`, of the first script. A deployment is good (`DeployGood`): untouched, wired and
   closed, or wired and up, and nothing in between. Only the deployment of the file is
   worked on; later ones are untouched. What a batch does depends on when it is mined, which
   is not when it was built, so the invariant says what is in a batch in relation to the
   chain *now*: a first batch (`DeployFirstFull`) has every call that is not done yet, so it
   wires the deployment whatever of it was done meanwhile; a second (`DeploySecondBatchOf`)
   is either everything a closed deployment needs, in order, or calls that change nothing of
   a live one. `DeployPart` and `DeployMid` are these for the batch under construction, one
   step of the script after the other. A second batch is the first in the pool, and a batch
   that is sent again after a crash finds the deployment live. What a batch does is shown
   call by call, with no order of the calls presumed in the first (`DeployBatch` lemmas): an
   effect is there after the call that has it, later calls keep it, and what all calls
   keep, the batch keeps. `DeploySteps` is the result, and `DeployStep` in it is what
   `DeployAbstracts` maps to a step of `StagedRollout`.
2. `MintInv`, of the second. The USDO of the multicall and the signer is the sum of the
   markets' debts (`MintOwed`), and a batch in the pool is what its quote made it (`MintSent`). `DeltaSuffices` is arithmetic: a loan takes
   delta percent, rounded down, off what the quote says the ETH is worth, so its debt is at
   most the rest rounded up, and that is covered at every rate `WithinDelta` admits.
   `MintLends` has what else the market asks: that the oracle answers and that each loan is
   above the minimum, which `Fits` demands of the batch.
3. `FinalInv`, of the last. Wrapped receipts on both chains and on the way add up to what the
   side's TOFT holds, which with the others is what was lent (`FinalBacked`); a run past the
   oracles has set them all (`FinalDone`).

For the **tasks** the invariant is one for each group. The settings are within the bounds of
the setters, each kept when either side of a comparison is set (`MarketSettings`). The asset
tasks carry from step to step which contracts they made and that the calls they collected
are one for each specific strategy named (`AssetsTask`). Swapper and flow have a ledger that any pending
transaction keeps balanced, in whatever order they are mined (`SwapperBacked`,
`FlowAccounted`). Fees and interest go to the debt and to what was charged alike
(`FlowLoanAt`, `FlowAccrueStep`), and a repayment takes off the debt what it takes from the
account, whatever its parts were rounded to (`FlowRepayBalanced`); the flow's invariant says too what the task has already been credited at
each of its steps (`FlowHas`).

The calls of a batch, and the transactions in a pool, are folds of the community modules,
recursive functions whose result has to be proved by induction. The library's induction
theorems take a predicate as a parameter, which the provers cannot instantiate.
`CommonTheorems` has lemmas whose parameter is a *set* instead, the set of the indices where
what is claimed holds: `LeastElement`, `Prefixes`, and `FoldExists` and `FoldPrefixes` from
them. Sums (`Sums`) are cardinalities and need no induction.

Only model-checked: `RolloutCompletes` and `TasksComplete`, which are liveness under fairness
and need ENABLED: both are out of the prover's reach. There are no recursive operators in the project.

## 5. Findings

* *A liquidation can leave debt without collateral.*
  `BBLiquidation._updateBorrowAndCollateralShare` takes all of the collateral
  when it is worth less than the closable debt plus the bonus, as long as it is
  worth more than the whole debt (lines 219-232). A liquidation limited by
  `maxBorrowPart` or by the closing factor then repays only a part of the debt; the rest has no collateral, and only the
  owner's `liquidateBadDebt` can clear it. Line 203 says "make sure liquidator
  cannot bypass bad debt handling". Run `bigbang_bare_debt`.
* *The supply is not fully minted after `mintOpenInterestDebt`.* Opening fees
  are added to the debt by `_borrow` and neither minted nor counted as open
  interest; `Penrose.sol:321` says "supply should be fully minted now". Run
  `bigbang_fully_minted`. The ledger's `Gap` is exactly these fees and what
  liquidations keep.
* *A BigBang market can be initialised so that it cannot accrue.* `init` compares the debt
  rates only when both are nonzero (`BigBang.sol:130`). With a minimum and no maximum the
  market is accepted, and the interpolation of `BBDebtRateHelper.sol:35` underflows while
  the debt is below the debt point: every call that accrues reverts until the owner sets
  the rates. Run `tasks_accrual`. Nor is the maximum compared with `MAX_DEBT_RATE` then, and
  setting the minimum later does not make up for it: `SettingsValid` claims the order of
  two rates that are set and not that bound.

Met while modelling, and part of the models, without a run of their own:

* `1-1-deployPostLbp.ts:148` reads `glpStrat`, which only the Arbitrum configurations have,
  so on a side chain each run throws before it deploys; line 39 says "Deploys on Ethereum
  and Sepolia" (`deployGeneric`).
* The mock markets are deployed on testnets and looked up on every host
  (`setupRegisterBBAndSGLMarketsInPenrose.ts:80`): on Arbitrum each run throws there.
* `setupRegisterBBAsMinterBurnerInUsdo.ts:19` looks at `allowedMinter` alone and leaves a
  market that is a minter already without the burner role.
* `1-2-deployPostLbp.ts:231` quotes with the rate the market cached when it was deployed,
  and `borrowAmount` (line 243) rounds in favour of more debt: with a delta of one
  percent and a collateralization rate of 99 percent the batch reverts by one unit
  (`DeltaHolds` is about batches within delta, roundings included).
* `createEmptyStratYbAsset` makes a new strategy for tSglSglp with every run on the host.
* `setBigBangConfig` raises the liquidation multiplier without the check that
  `setMarketConfig` makes of it with the liquidation rate (`BigBang.sol:369`,
  `Market.sol:275`).
* `setSingularityConfig` does not compare the two target utilizations with each other;
  `SingularityAssumption` needs only that the maximum is below full utilization.
* `setBorrowCap.ts:49` passes the cap as the liquidation collateralization rate;
  `04-market-setMarketConfig.ts:91` passes its answers in the order of an older function;
  `01-market-updatePause.ts:20` passes the string of the command line, which is encoded as
  true whatever it says.
* The opening fee asks the asset's oracle with the collateral oracle's data
  (`BBCommon.sol:129`); `assetOracleData` is never read.
* `test-sameChainFlow.ts:553` lends only when a balance equals the amount borrowed, and
  skips it silently otherwise; and the functions the task calls are behind `execute` in
  this repository (line 429), so that it cannot get through (`EntryPoints`).
* The strategy types of `02-deployEmptyStrats.ts:8` are not those `execScope.ts:127`
  documents: asking for USDO by the documented number deploys a strategy for TAP.
* `fillMockSwapper.ts:158` sends its deposit and does not wait: "Done" may be said of a
  swapper that stays empty.

## 6. Not modelled, and the plan

In the order planned:

1. `Usdo` with `FlashLoan`: minters, the fee pot, reentrancy, pauses.
2. `Origins`; `Allowances` (lend, borrow, permits). `OriginsMint` has of the Origins market
   what its script calls.
3. `UsdoModules`: composed messages, option exercise with its refund.
4. `MarketHelper` against the market's own liquidation amounts.
5. Penrose's registries of master contracts and Singularity markets, withdrawAllMarketFees.

Left out for good:

* byte layouts of messages (`UsdoMsgCodec`), swaps inside executors and receivers (the
  models leave their results open), views that only read;
* tasks that stop before their first transaction whatever the operator does:
  `05-singularity-setSingularityConfig` (eight arguments for nine), `setLiquidationQueue`,
  the tasks that ask for an artifact named USDO, and the deployments of earlier releases
  under `tasks/deploy/deprecated` that ask for contracts this repository no longer has;
* `test_hardhat/test.utils.ts`, the fixture of tests that are skipped, and tasks of
  `tasks/testTasks` that no scope has;
* in the rollout: the oracles, helpers and receivers deployed beside the markets, the
  verification of sources, Uniswap pools and the addresses of each configuration.
