--------------------------- MODULE SameChainFlow ----------------------------
(***************************************************************************)
(* The task sameChainFlowTest: one account wraps collateral, borrows USDO  *)
(* from a BigBang market, lends it to a Singularity market, borrows some   *)
(* of it back and repays half; then the same in bursts through Magnetar.   *)
(*                                                                         *)
(* The account's transactions are mined in the order it sent them.  The    *)
(* task waits for most of them, but not for the withdrawals right before   *)
(* it reads a balance, and not for the approvals; what it reads and what a *)
(* node estimates a transaction on may or may not have those in it.  The   *)
(* owner runs the task again, whether it ended well or not.                *)
(*                                                                         *)
(* The task reads userCollateralShare of the markets and calls addCollate- *)
(* ral, borrow, repay and addAsset: EntryPoints says whether the markets   *)
(* have them, as at the release it is written for, or not, as here.        *)
(*                                                                         *)
(* Nobody else borrows from or lends to the two markets, and nobody        *)
(* liquidates: their totals are the account's.  They are not paused, have  *)
(* no cap, lend amounts above their minimum, and the price of collateral   *)
(* stays.  Interest and opening fees are charged.  Amounts of YieldBox and *)
(* their shares are the same numbers.                                      *)
(***************************************************************************)
EXTENDS Rebase, SequencesExt

CONSTANTS
    Full,           \* 1 token
    Some,           \* 0.1 token
    MintLimit,      \* what a free mint gives
    Worth,          \* debt a token of collateral of a market covers
    Fees,           \* opening fees of the flow's loans the markets may ask
    Interest,       \* what a market may charge between two calls
    MaxCharged,     \* bound: interest is charged up to it
    EntryPoints,    \* whether markets have what the task reads and calls
    MaxRuns         \* bound

Markets == {"bb", "sgl"}

FlowAssumption ==
    /\ Full \in Nat /\ Some \in 2 .. Full /\ MintLimit \in Nat
    /\ Worth \in [Markets -> Nat] /\ Fees \subseteq [Markets -> Nat]
    /\ Interest \subseteq Nat \ {0} /\ MaxCharged \in Nat
    /\ EntryPoints \in BOOLEAN /\ MaxRuns \in Nat \ {0}

\* Where the account's things are: a market's collateral as a plain token, as a
\* tOFT, in YieldBox and in the market; USDO in its wallet, in YieldBox and in
\* the Singularity market's pool; what it owes, in amounts and in parts, how much
\* it was charged in fees and interest, what it has lent and has approved.
Accounts ==
    Markets \X {"minted", "token", "toft", "yb", "collateral", "debt", "part", "charged",
                "wrapAllowance", "ybAllowance", "operator"}
        \cup {"usdo"} \X {"wallet", "yb", "pool", "lent", "ybAllowance"}

VARIABLES
    ledger,         \* the amounts, as mined
    fees,           \* the opening fees now
    pool,           \* transactions sent and not waited for
    pc,             \* where the task is
    before,         \* the ledger when it started
    runs

vars == <<ledger, fees, pool, pc, before, runs>>

None == [a \in {} |-> 0]
One(a, n) == [b \in {a} |-> n]
At(f, a) == IF a \in DOMAIN f THEN f[a] ELSE 0

Init ==
    /\ ledger = [a \in Accounts |-> 0] /\ before = ledger /\ fees \in Fees
    /\ pool = <<>> /\ pc = <<"begin">> /\ runs = 1

----------------------------------------------------------------------------
(***************************************************************************)
(* Transactions: what they take, give and set.                             *)
(***************************************************************************)
Tx(takes, gives) == [takes |-> takes, gives |-> gives, sets |-> None]
Both(f, g) == [a \in DOMAIN f \cup DOMAIN g |-> At(f, a) + At(g, a)]
Sets(a, n) == [Tx(None, None) EXCEPT !.sets = One(a, n)]

After(l, tx) ==
    [a \in Accounts |-> IF a \in DOMAIN tx.sets THEN tx.sets[a]
                        ELSE l[a] - At(tx.takes, a) + At(tx.gives, a)]
\* Whoever borrows is solvent afterwards.
Solvent(l, m) == l[<<m, "debt">>] * Full <= Worth[m] * l[<<m, "collateral">>]
Lends(tx, m) == <<m, "debt">> \in DOMAIN tx.gives
\* WRONG: what the account has is not looked at.
WorksUnfunded(l, tx) == \A m \in Markets : Lends(tx, m) => Solvent(After(l, tx), m)
Works(l, tx) ==
    /\ \A a \in DOMAIN tx.takes : tx.takes[a] <= l[a]
    /\ \A m \in Markets : Lends(tx, m) => Solvent(After(l, tx), m)
\* A transaction that is reverted when it is mined changes nothing.
Apply(l, tx) == IF Works(l, tx) THEN After(l, tx) ELSE l
Mined(l, txs) == FoldLeft(Apply, l, txs)

freeMint(m) == Tx(None, Both(One(<<m, "token">>, MintLimit), One(<<m, "minted">>, MintLimit)))
wrap(m) ==
    Tx(Both(One(<<m, "token">>, Full), One(<<m, "wrapAllowance">>, Full)),
       One(<<m, "toft">>, Full))
depositCollateral(m) ==
    Tx(Both(One(<<m, "toft">>, Full), One(<<m, "ybAllowance">>, Full)), One(<<m, "yb">>, Full))
addCollateral(m) ==
    Tx(Both(One(<<m, "yb">>, Full), One(<<m, "operator">>, 1)),
         Both(One(<<m, "collateral">>, Full), One(<<m, "operator">>, 1)))
\* What a market lends is owed with its opening fee, in parts of all debt, rounded
\* up.  BigBang mints what it lends, Singularity takes it from its pool.  Nothing
\* the task does not wait for changes a debt, so this is computed on the ledger.
Borrowed(m) == IF m = "bb" THEN Full ELSE Some
TotalBorrow(m) == [elastic |-> ledger[<<m, "debt">>], base |-> ledger[<<m, "part">>]]
loan(m, takes, gives) ==
    LET owed == Borrowed(m) + fees[m] IN
    Tx(Both(takes, IF m = "bb" THEN None ELSE One(<<"usdo", "pool">>, Some)),
       Both(gives, Both(Both(One(<<m, "debt">>, owed), One(<<m, "charged">>, fees[m])),
                        One(<<m, "part">>, ToBase(TotalBorrow(m), owed, TRUE)))))
borrow(m) == loan(m, None, One(<<"usdo", "yb">>, Borrowed(m)))
withdraw(n) == Tx(One(<<"usdo", "yb">>, n), One(<<"usdo", "wallet">>, n))
depositUsdo(n) ==
    Tx(Both(One(<<"usdo", "wallet">>, n), One(<<"usdo", "ybAllowance">>, n)),
       One(<<"usdo", "yb">>, n))
addAsset ==
    Tx(Both(One(<<"usdo", "yb">>, Full), One(<<"sgl", "operator">>, 1)),
         Both(Both(One(<<"usdo", "pool">>, Full), One(<<"usdo", "lent">>, Full)),
              One(<<"sgl", "operator">>, 1)))
\* The task asks to repay so many parts of what it owes: at most those it has are
\* paid for, at what they are worth now, rounded up.  It has borrowed before.
Repaid == IF Some \div 2 > ledger[<<"sgl", "part">>] THEN ledger[<<"sgl", "part">>] ELSE Some \div 2
repayment(part, paid, cost) ==
    Tx(Both(Both(One(<<"usdo", "yb">>, paid), One(<<"sgl", "operator">>, 1)),
            Both(One(<<"sgl", "debt">>, cost), One(<<"sgl", "part">>, part))),
       Both(One(<<"usdo", "pool">>, paid), One(<<"sgl", "operator">>, 1)))
\* WRONG: a part is paid for with a token.
repayInParts == repayment(Repaid, Repaid, ToElastic(TotalBorrow("sgl"), Repaid, TRUE))
repay ==
    LET cost == ToElastic(TotalBorrow("sgl"), Repaid, TRUE) IN repayment(Repaid, cost, cost)

\* Magnetar's bursts: wrap, deposit, add, borrow and withdraw in one, or
\* deposit and lend.
burstBorrow(m) ==
    loan(m, Both(Both(One(<<m, "token">>, Full), One(<<m, "wrapAllowance">>, Full)),
                 One(<<m, "ybAllowance">>, Full)),
         Both(One(<<m, "collateral">>, Full), One(<<"usdo", "wallet">>, Borrowed(m))))
burstLend ==
    Tx(Both(One(<<"usdo", "wallet">>, Full), One(<<"usdo", "ybAllowance">>, Full)),
         Both(One(<<"usdo", "pool">>, Full), One(<<"usdo", "lent">>, Full)))

----------------------------------------------------------------------------
(***************************************************************************)
(* Sending.                                                                *)
(***************************************************************************)
Thrown == <<"thrown">>
Done == <<"done">>

Go(to) == pc' = to /\ UNCHANGED <<fees, before, runs>>

\* A node that estimates tx may count what was sent and is not mined, or not.
Seen(sent) == {ledger, Mined(ledger, sent)}

\* WRONG: sent like the approvals, without waiting.
AwaitNothing(approvals, tx, to) ==
    LET sent == pool \o approvals IN
    \/ /\ \E seen \in Seen(sent) : Works(seen, tx)
       /\ pool' = Append(sent, tx) /\ UNCHANGED ledger /\ Go(to)
    \/ /\ \E seen \in Seen(sent) : ~Works(seen, tx)
       /\ pool' = sent /\ UNCHANGED ledger /\ Go(Thrown)

\* Send approvals without waiting, then tx, and wait for it.
Await(approvals, tx, to) ==
    LET sent == pool \o approvals IN
    \/ /\ \E seen \in Seen(sent) : Works(seen, tx)
       /\ ledger' = Apply(Mined(ledger, sent), tx) /\ pool' = <<>>
       /\ Go(IF Works(Mined(ledger, sent), tx) THEN to ELSE Thrown)
    \/ /\ \E seen \in Seen(sent) : ~Works(seen, tx)
       /\ pool' = sent /\ UNCHANGED ledger /\ Go(Thrown)

Send(tx, to) ==
    \/ /\ \E seen \in Seen(pool) : Works(seen, tx)
       /\ pool' = Append(pool, tx) /\ UNCHANGED ledger /\ Go(to)
    \/ /\ \E seen \in Seen(pool) : ~Works(seen, tx)
       /\ UNCHANGED <<ledger, pool>> /\ Go(Thrown)

Skip(to) == UNCHANGED <<ledger, pool>> /\ Go(to)

\* Given a gas limit, a burst is not estimated.
Burst(approvals, tx, to) ==
    LET mined == Mined(ledger, pool \o approvals) IN
    /\ ledger' = Apply(mined, tx) /\ pool' = <<>>
    /\ Go(IF Works(mined, tx) THEN to ELSE Thrown)

Mine ==
    /\ pool # <<>>
    /\ ledger' = Apply(ledger, Head(pool)) /\ pool' = Tail(pool)
    /\ UNCHANGED <<fees, pc, before, runs>>

(***************************************************************************)
(* The markets, between the task's calls.  A call charges the interest of  *)
(* the time before it first, as anybody may: that is a step before it.  A  *)
(* call that is estimated before such a step and fails after it ends where *)
(* one whose estimate fails does.                                          *)
(***************************************************************************)
accrue(m, n) ==
    /\ ledger[<<m, "debt">>] > 0 /\ ledger[<<m, "charged">>] + n <= MaxCharged
    /\ ledger' = [a \in Accounts |->
                    IF a \in {<<m, "debt">>, <<m, "charged">>} THEN ledger[a] + n ELSE ledger[a]]
    /\ UNCHANGED <<fees, pool, pc, before, runs>>

\* The opening fee of BigBang goes with the price of USDO, that of Singularity is
\* what the owner sets.
FeesChange(f) ==
    /\ fees' = f
    /\ UNCHANGED <<ledger, pool, pc, before, runs>>

----------------------------------------------------------------------------
(***************************************************************************)
(* testFlowByUsingIndividualActions                                        *)
(***************************************************************************)
\* What the account has is read first.
Begin == pc = <<"begin">> /\ Skip(IF EntryPoints THEN <<"bb", "mint">> ELSE Thrown)
\* A free mint that fails, its daily limit used up, does not stop the task.
Mint(m) ==
    /\ pc = <<m, "mint">>
    /\ Await(<<>>, freeMint(m), <<m, "wrap">>) \/ Skip(<<m, "wrap">>)
Wrap(m) ==
    /\ pc = <<m, "wrap">>
    /\ Await(<<Sets(<<m, "wrapAllowance">>, Full)>>, wrap(m), <<m, "deposit">>)
DepositCollateral(m) ==
    /\ pc = <<m, "deposit">>
    /\ Await(<<Sets(<<m, "ybAllowance">>, Full)>>, depositCollateral(m), <<m, "add">>)
\* Singularity has been approved before its asset was added.
AddCollateral(m) ==
    /\ pc = <<m, "add">>
    /\ Await(IF m = "bb" /\ ledger[<<m, "operator">>] = 0
             THEN <<Sets(<<m, "operator">>, 1)>> ELSE <<>>,
             addCollateral(m), <<m, "borrow">>)
Borrow(m) == pc = <<m, "borrow">> /\ Await(<<>>, borrow(m), <<m, "withdraw">>)
Withdraw(m) == pc = <<m, "withdraw">> /\ Send(withdraw(Borrowed(m)), <<m, "again">>)
\* The balance read may still have in it what was just withdrawn.
WithdrawAgain(m) ==
    /\ pc = <<m, "again">>
    /\ IF ledger[<<"usdo", "yb">>] = Borrowed(m)
       THEN Await(<<>>, withdraw(Borrowed(m)), <<m, "fund">>)
       ELSE Skip(<<m, "fund">>)
FundLending ==
    /\ pc = <<"bb", "fund">>
    /\ IF ledger[<<"usdo", "wallet">>] = Full
       THEN Await(<<Sets(<<"usdo", "ybAllowance">>, Full)>>, depositUsdo(Full), <<"bb", "approve">>)
       ELSE Skip(<<"bb", "approve">>)
ApproveSingularity ==
    /\ pc = <<"bb", "approve">>
    /\ IF ledger[<<"sgl", "operator">>] = 0
       THEN Send(Sets(<<"sgl", "operator">>, 1), <<"bb", "lend">>)
       ELSE Skip(<<"bb", "lend">>)
Lend ==
    /\ pc = <<"bb", "lend">>
    /\ IF ledger[<<"usdo", "yb">>] = Full
       THEN Await(<<>>, addAsset, <<"sgl", "mint">>)
       ELSE Skip(<<"sgl", "mint">>)
FundRepayment ==
    /\ pc = <<"sgl", "fund">>
    /\ IF ledger[<<"usdo", "wallet">>] > 0
       THEN Await(<<Sets(<<"usdo", "ybAllowance">>, Some)>>, depositUsdo(Some), <<"sgl", "repay">>)
       ELSE Skip(<<"sgl", "repay">>)
Repay ==
    /\ pc = <<"sgl", "repay">>
    /\ IF ledger[<<"usdo", "yb">>] > 0
       THEN Await(<<>>, repay, <<"magnetar", "bb", "mint">>)
       ELSE Skip(<<"magnetar", "bb", "mint">>)

----------------------------------------------------------------------------
(***************************************************************************)
(* testFlowByUsingMagnetar                                                 *)
(***************************************************************************)
MintForBurst(m) ==
    /\ pc = <<"magnetar", m, "mint">>
    /\ LET to == IF m = "bb" THEN <<"magnetar", m, "burst">> ELSE <<"magnetar", "lend">> IN
       Await(<<>>, freeMint(m), to) \/ Skip(to)
BurstBorrow(m) ==
    /\ pc = <<"magnetar", m, "burst">>
    /\ Burst(<<Sets(<<m, "wrapAllowance">>, Full), Sets(<<m, "ybAllowance">>, Full),
               Sets(<<m, "operator">>, 1)>>,
             burstBorrow(m), IF m = "bb" THEN <<"magnetar", "sgl", "mint">> ELSE Done)
BurstLend ==
    /\ pc = <<"magnetar", "lend">>
    /\ Burst(<<Sets(<<"usdo", "ybAllowance">>, Full), Sets(<<"sgl", "operator">>, 1)>>,
             burstLend, <<"magnetar", "sgl", "burst">>)

Rerun ==
    /\ pc \in {Done, Thrown} /\ runs < MaxRuns
    /\ pc' = <<"begin">> /\ before' = ledger /\ runs' = runs + 1
    /\ UNCHANGED <<ledger, fees, pool>>

\* The same calls one by one for either market, then the same bursts.
IndividualActions(m) ==
    \/ Mint(m) \/ Wrap(m) \/ DepositCollateral(m) \/ AddCollateral(m)
    \/ Borrow(m) \/ Withdraw(m) \/ WithdrawAgain(m)
Magnetar(m) == MintForBurst(m) \/ BurstBorrow(m)

sameChainFlowTest__task ==
    \/ Begin
    \/ \E m \in Markets : IndividualActions(m) \/ Magnetar(m)
    \/ FundLending \/ ApproveSingularity \/ Lend \/ FundRepayment \/ Repay \/ BurstLend

Next ==
    \/ sameChainFlowTest__task \/ Mine \/ Rerun
    \/ \E m \in Markets, n \in Interest : accrue(m, n)
    \/ \E f \in Fees \ {fees} : FeesChange(f)

----------------------------------------------------------------------------
(***************************************************************************)
(* Properties                                                              *)
(***************************************************************************)
\* The type invariant: amounts never fall below zero (every place of a ledger).
TypeOK ==
    /\ ledger \in [Accounts -> Nat] /\ before \in [Accounts -> Nat]
    /\ \A i \in 1 .. Len(pool) : DOMAIN pool[i].sets \subseteq Accounts
    /\ fees \in Fees /\ runs \in 1 .. MaxRuns

\* Every token minted is a token, wrapped, in YieldBox or collateral, whatever of
\* the task was sent and not waited for (tests 421-504, 621-692).
CollateralAccounted ==
    \A m \in Markets :
        ledger[<<m, "minted">>] =
            ledger[<<m, "token">>] + ledger[<<m, "toft">>] + ledger[<<m, "yb">>]
                + ledger[<<m, "collateral">>]

\* USDO is created by borrowing from BigBang alone: what it lent is in the
\* wallet, in YieldBox or in Singularity's pool, or lent on from that pool.  What
\* is owed beyond it are the fees and the interest charged, which nobody mints,
\* however loans and repayments are rounded to parts.
UsdoAccounted ==
    /\ ledger[<<"bb", "debt">>] =
           ledger[<<"usdo", "wallet">>] + ledger[<<"usdo", "yb">>] + ledger[<<"usdo", "pool">>]
               + ledger[<<"bb", "charged">>]
    /\ ledger[<<"sgl", "debt">>] + ledger[<<"usdo", "pool">>] =
           ledger[<<"usdo", "lent">>] + ledger[<<"sgl", "charged">>]

\* What the task sends and does not wait for when it ends is approvals and
\* withdrawals alone: what it lends, repays and adds as collateral it waited for.
WaitsForMarkets ==
    pc \in {Done, Thrown} =>
        \A i \in 1 .. Len(pool) :
            DOMAIN pool[i].gives \subseteq {<<"usdo", "wallet">>}

\* A run of the task that ends well leaves in each market the collateral of both
\* its parts, the calls one by one and the bursts.
DoneMeansCollateral ==
    pc = Done => \A m \in Markets :
        ledger[<<m, "collateral">>] = before[<<m, "collateral">>] + 2 * Full
=============================================================================
