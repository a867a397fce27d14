---------------------------- MODULE OriginsMint ----------------------------
(***************************************************************************)
(* deploys/postLbp2 on the host chain: an Origins market is deployed, and  *)
(* one batch of the multicall makes it a minter of USDO, wraps ETH, and    *)
(* borrows twice against it: what the pools are seeded with later (extra)  *)
(* stays in the multicall, what the USDC pool takes goes to the signer.    *)
(*                                                                         *)
(* How much to borrow is computed outside the chain, from the rate the     *)
(* market cached when it was deployed, less delta percent; the market      *)
(* decides with the oracle's rate when the batch is mined.  While the      *)
(* oracle fails no market can be deployed and none lends.                  *)
(***************************************************************************)
EXTENDS Sums, Sequences

CONSTANTS
    PRECISION,      \* 1e18
    PERCENT,        \* 100, the scale of delta and of the collateralization rate
    CR,             \* tEthOriginsMarketConfig.collateralizationRate, of PERCENT
    Rates,          \* tETH per USDO the oracle may answer
    MinBorrow,      \* Origins.minBorrowAmount, 1e15: a loan is above it
    EthAmounts,     \* the task's amounts of ETH
    Deltas,         \* its delta
    TestnetMint,    \* tETH the batch mints and wraps for itself, 0 on a mainnet
    MaxOrigins,     \* bound: runs that deploy
    MaxFunds,       \* bound: ETH sent to the multicall
    MaxCrashes      \* bound: crashes of the script

OriginsAssumption ==
    /\ PRECISION \in Nat \ {0}
    /\ PERCENT \in Nat \ {0}
    /\ CR \in 0 .. PERCENT
    /\ Rates \subseteq Nat \ {0} /\ MinBorrow \in Nat
    /\ EthAmounts \subseteq Nat
    /\ Deltas \subseteq 0 .. PERCENT
    /\ TestnetMint \in Nat
    /\ MaxOrigins \in Nat /\ MaxFunds \in Nat /\ MaxCrashes \in Nat

VARIABLES
    origins,    \* the Origins markets
    made,       \* how many of them are deployed
    wallet,     \* the multicall's ETH, tETH and USDO, in its wallet and in YieldBox
    signer,     \* the signer's USDO
    oracle,     \* the rate it answers now, 0 when it fails
    pool,       \* batches sent and not mined
    db,         \* the Origins in the deployments file, 0 for none
    pc, job,    \* the script: its next step, what it works with
    funded, crashes

vars == <<origins, made, wallet, signer, oracle, pool, db, pc, job, funded, crashes>>
contracts == <<origins, made, wallet, signer>>
world == <<contracts, oracle, pool, db, funded, crashes>>

NoJob == [extra |-> 0, usdc |-> 0, delta |-> 0]
Jobs == [extra : EthAmounts, usdc : EthAmounts, delta : Deltas]
Origins == 1 .. MaxOrigins
NewOrigins == [rate |-> 0, collateral |-> 0, debt |-> 0, minter |-> FALSE, approved |-> FALSE]
NewWallet == [eth |-> 0, teth |-> 0, ybTeth |-> 0, usdo |-> 0, ybUsdo |-> 0]

Init ==
    /\ origins = [o \in Origins |-> NewOrigins] /\ made = 0
    /\ wallet = NewWallet /\ signer = 0
    /\ oracle \in Rates \cup {0}
    /\ pool = <<>> /\ db = 0
    /\ pc = "idle" /\ job = NoJob
    /\ funded = 0 /\ crashes = 0

----------------------------------------------------------------------------
(***************************************************************************)
(* Amounts.                                                                *)
(***************************************************************************)
\* What eth is worth at a rate: the rate is turned around first.
worth(rate, eth) == (((PRECISION * PRECISION) \div rate) * eth) \div PRECISION

\* WRONG: delta is added.
borrowAmountPlus(rate, eth, delta) ==
    worth(rate, eth) + (worth(rate, eth) * delta) \div PERCENT

borrowAmount(rate, eth, delta) ==
    worth(rate, eth) - (worth(rate, eth) * delta) \div PERCENT

(* Market._isSolvent; nothing accrues in Origins, its parts are amounts *)
solvent(o, rate) == o.collateral * PRECISION * CR >= o.debt * rate * PERCENT

----------------------------------------------------------------------------
(***************************************************************************)
(* The batch.  A state of it is the market, the multicall's wallet and     *)
(* whether no call has reverted.                                           *)
(***************************************************************************)
Reverted(s) == [s EXCEPT !.ok = FALSE]
Moves(s, amount, from, to) ==
    [s EXCEPT !.wallet = [s.wallet EXCEPT ![from] = @ - amount, ![to] = @ + amount]]

\* WRONG: the script's look at the balance is taken for enough.
wrapToftUnchecked(s, amount, late) ==
    IF ~s.ok \/ late THEN Reverted(s)
    ELSE Moves(s, amount, "eth", "teth")

\* TOFT.wrap, with a Pearlmit approval that ends 1800 seconds after the
\* script's block: late.
wrapToft(s, amount, late) ==
    IF ~s.ok \/ late \/ s.wallet.eth < amount THEN Reverted(s)
    ELSE Moves(s, amount, "eth", "teth")

depositAsset(s, amount) ==
    IF ~s.ok \/ s.wallet.teth < amount THEN Reverted(s)
    ELSE Moves(s, amount, "teth", "ybTeth")

addCollateral(s, amount) ==
    IF ~s.ok \/ ~s.market.approved \/ s.wallet.ybTeth < amount THEN Reverted(s)
    ELSE [s EXCEPT !.wallet.ybTeth = @ - amount, !.market.collateral = @ + amount]

\* The market reads the oracle first, and a loan reverts when it fails (0).
borrow(s, amount, rate) ==
    LET after == [s.market EXCEPT !.debt = @ + amount, !.rate = rate] IN
    IF ~s.ok \/ ~s.market.minter \/ rate = 0 \/ amount <= MinBorrow \/ ~solvent(after, rate)
    THEN Reverted(s)
    ELSE [s EXCEPT !.market = after, !.wallet.ybUsdo = @ + amount]

withdraw(s, amount) ==
    IF ~s.ok \/ s.wallet.ybUsdo < amount THEN Reverted(s)
    ELSE Moves(s, amount, "ybUsdo", "usdo")

setApproval(s, b) == [s EXCEPT !.market.approved = b]

\* WRONG: the approval is left open.
mintOriginUSDOLeavingApproval(s, eth, amount, rate) ==
    withdraw(borrow(addCollateral(setApproval(depositAsset(s, eth), TRUE), eth),
                    amount, rate), amount)

mintOriginUSDO(s, eth, amount, rate) ==
    setApproval(
        withdraw(borrow(addCollateral(setApproval(depositAsset(s, eth), TRUE), eth),
                        amount, rate), amount),
        FALSE)

\* The mock underlying is minted, approved and wrapped in the same batch.
testnetMintMockTeth(s, late) ==
    IF TestnetMint = 0 THEN s
    ELSE IF ~s.ok \/ late THEN Reverted(s)
    ELSE [s EXCEPT !.wallet.teth = @ + TestnetMint]

setMinterAndBurner(s) == [s EXCEPT !.market.minter = TRUE]

\* The batch b in one transaction at the oracle's rate.
executeMulticall(b, late) ==
    LET s0 == [ok |-> TRUE, market |-> origins[b.market], wallet |-> wallet]
        s1 == wrapToft(testnetMintMockTeth(setMinterAndBurner(s0), late),
                       b.extra + b.usdc, late)
        s2 == mintOriginUSDO(s1, b.extra, b.borrowExtra, oracle)
    IN  mintOriginUSDO(s2, b.usdc, b.borrowUsdc, oracle)

----------------------------------------------------------------------------
(***************************************************************************)
(* The script.                                                             *)
(***************************************************************************)
Throw == pc' = "idle" /\ job' = NoJob

task_2(j) ==
    /\ pc = "idle"
    /\ pc' = "deploy" /\ job' = j
    /\ UNCHANGED world

\* The constructor caches the oracle's rate; when the oracle fails it reverts,
\* and the script ends.
buildOrigins ==
    /\ pc = "deploy" /\ made < MaxOrigins
    /\ IF oracle = 0
       THEN Throw /\ UNCHANGED <<origins, made>>
       ELSE /\ origins' = [origins EXCEPT ![made + 1] = [NewOrigins EXCEPT !.rate = oracle]]
            /\ made' = made + 1
            /\ pc' = "save" /\ UNCHANGED job
    /\ UNCHANGED <<wallet, signer, oracle, pool, db, funded, crashes>>

save ==
    /\ pc = "save"
    /\ db' = made
    /\ pc' = "quote"
    /\ UNCHANGED <<contracts, oracle, pool, job, funded, crashes>>

\* With the SDK's load option the saved Origins is used again.
loadDeployed ==
    /\ pc = "deploy" /\ db # 0
    /\ pc' = "quote"
    /\ UNCHANGED <<world, job>>

\* What the script throws over: nothing to borrow for the pool, no rate, and
\* nothing to wrap.
CanQuote == job.usdc # 0 /\ origins[db].rate # 0 /\ wallet.eth # 0

tapiocaPostDeployTask ==
    /\ pc = "quote"
    /\ IF CanQuote
       THEN /\ pool' = Append(pool,
                   [market |-> db, extra |-> job.extra, usdc |-> job.usdc,
                    rate |-> origins[db].rate, delta |-> job.delta,
                    borrowExtra |-> borrowAmount(origins[db].rate, job.extra, job.delta),
                    borrowUsdc |-> borrowAmount(origins[db].rate, job.usdc, job.delta)])
            /\ pc' = "wait" /\ UNCHANGED job
       ELSE Throw /\ UNCHANGED pool
    /\ UNCHANGED <<contracts, oracle, db, funded, crashes>>

\* The pool's USDO goes to the signer in the same batch.
Mined(late) ==
    /\ pool # <<>>
    /\ LET b == Head(pool)
           run == executeMulticall(b, late)
       IN  IF run.ok
           THEN /\ origins' = [origins EXCEPT ![b.market] = run.market]
                /\ wallet' = [run.wallet EXCEPT !.usdo = @ - b.borrowUsdc]
                /\ signer' = signer + b.borrowUsdc
                /\ UNCHANGED made
           ELSE UNCHANGED contracts
    /\ pool' = Tail(pool)
    /\ IF pc = "wait" /\ Len(pool) = 1 THEN Throw ELSE UNCHANGED <<pc, job>>
    /\ UNCHANGED <<oracle, db, funded, crashes>>

Crash ==
    /\ pc # "idle" /\ crashes < MaxCrashes
    /\ crashes' = crashes + 1
    /\ Throw
    /\ UNCHANGED <<contracts, oracle, pool, db, funded>>

(***************************************************************************)
(* The rest of the world.                                                  *)
(***************************************************************************)
Fund(n) ==
    /\ funded + n <= MaxFunds
    /\ funded' = funded + n
    /\ wallet' = [wallet EXCEPT !.eth = @ + n]
    /\ UNCHANGED <<origins, made, signer, oracle, pool, db, pc, job, crashes>>

OracleAnswers(r) ==
    /\ oracle' = r
    /\ UNCHANGED <<contracts, pool, db, pc, job, funded, crashes>>

\* Anybody may have a market read the oracle.
updateExchangeRate(o) ==
    /\ o <= made /\ oracle # 0
    /\ origins' = [origins EXCEPT ![o].rate = oracle]
    /\ UNCHANGED <<made, wallet, signer, oracle, pool, db, pc, job, funded, crashes>>

Next ==
    \/ \E j \in Jobs : task_2(j)
    \/ buildOrigins \/ save \/ loadDeployed \/ tapiocaPostDeployTask \/ Crash
    \/ \E late \in BOOLEAN : Mined(late)
    \/ \E n \in EthAmounts \ {0} : Fund(n)
    \/ \E r \in (Rates \cup {0}) \ {oracle} : OracleAnswers(r)
    \/ \E o \in Origins : updateExchangeRate(o)

Spec == Init /\ [][Next]_vars

----------------------------------------------------------------------------
(***************************************************************************)
(* Properties.                                                             *)
(***************************************************************************)
Batch == [market : Origins, extra : EthAmounts, usdc : EthAmounts, delta : Deltas,
          rate : Rates, borrowExtra : Nat, borrowUsdc : Nat]

\* The values the contracts, the pool and the script can take; in
\* particular no wallet is overdrawn, whatever is in the pool.
TypeOK ==
    /\ origins \in [Origins -> [rate : Rates \cup {0}, collateral : Nat, debt : Nat,
                                minter : BOOLEAN, approved : BOOLEAN]]
    /\ made \in 0 .. MaxOrigins
    /\ wallet \in [eth : Nat, teth : Nat, ybTeth : Nat, usdo : Nat, ybUsdo : Nat]
    /\ signer \in Nat
    /\ oracle \in Rates \cup {0}
    /\ pool \in Seq(Batch)
    /\ db \in 0 .. made
    /\ pc \in {"idle", "deploy", "save", "quote", "wait"} /\ job \in Jobs \cup {NoJob}
    /\ pc = "quote" => db # 0
    /\ funded \in 0 .. MaxFunds /\ crashes \in 0 .. MaxCrashes

debts == [o \in Origins |-> origins[o].debt]

\* All USDO of the rollout, the extra that stays and what the signer takes,
\* is owed to the Origins markets, however many runs, crashes and markets.
SupplyIsOwed == wallet.usdo + wallet.ybUsdo + signer = SumOver(debts)

\* Between transactions nothing of a batch is left in the YieldBox and no
\* market may move the multicall's shares.
NothingLeftOver ==
    wallet.ybTeth = 0 /\ wallet.ybUsdo = 0 /\ \A o \in Origins : ~origins[o].approved

\* The rate may rise between the quote and the batch as far as delta goes
\* beyond the collateralization rate, roundings included.
WithinDelta(rate, now, eth, delta) ==
    now * (worth(rate, eth) * (PERCENT - delta) + PERCENT - 1) <= rate * worth(rate, eth) * CR

Fits(b) ==
    /\ wallet.eth >= b.extra + b.usdc
    /\ b.borrowExtra > MinBorrow /\ b.borrowUsdc > MinBorrow
    /\ oracle # 0 /\ solvent(origins[b.market], oracle)
    /\ WithinDelta(b.rate, oracle, b.extra, b.delta)
    /\ WithinDelta(b.rate, oracle, b.usdc, b.delta)

\* What delta is for: a batch in the pool that is funded goes through if it is
\* mined in time, while the oracle answers, at a rate within delta of the quote.
DeltaHolds == \A i \in 1 .. Len(pool) : Fits(pool[i]) => executeMulticall(pool[i], FALSE).ok

=============================================================================
