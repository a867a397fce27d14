---------------------------- MODULE MockSwapper -----------------------------
(***************************************************************************)
(* The tasks testDeployMockSwapper and fillMockSwapper: a swapper for      *)
(* tests is deployed on the main chain, and the deployer gives it tOFTs.   *)
(* On the tOFT's host chain it mints and wraps the underlying; when that   *)
(* is not the main chain it sends the tOFTs there.  Then it deposits them  *)
(* into YieldBox for the swapper.                                          *)
(*                                                                         *)
(* The deployer's transactions on a chain are mined in the order sent.     *)
(* The task waits for some; the approval and the deposit at its end it     *)
(* only sends, and of the message to the main chain it waits for the       *)
(* transaction that sends it, not for its arrival.  The operator runs the  *)
(* task again, in haste or when he sees nothing under way.  Everything is  *)
(* counted in units of mintAmount.                                         *)
(***************************************************************************)
EXTENDS Integers, SequencesExt

CONSTANTS MaxDeployed, MaxHasty, MaxCrashes   \* bounds

SwapperAssumption == MaxDeployed \in Nat /\ MaxHasty \in Nat /\ MaxCrashes \in Nat

Chains == {"main", "side"}

VARIABLES
    host,           \* the tOFT's host chain
    ledger,         \* what the contracts hold, as mined
    pool,           \* by chain, the transactions sent and not mined
    flight,         \* messages on their way to the main chain
    file,           \* the main chain's local deployments: the swapper (0: none), YieldBox
    pc, chain,      \* the step of the task, the chain it was started on
    target,         \* the swapper it read
    ended,          \* how it ended last
    done,           \* runs that ended with "Done"
    hasty, crashes

vars == <<host, ledger, pool, flight, file, pc, chain, target, ended, done, hasty, crashes>>
counters == <<hasty, crashes>>

Init ==
    /\ host \in Chains
    /\ ledger = [token |-> 0, minted |-> 0, wrapAllowance |-> 0, locked |-> 0,
                 toft |-> [c \in Chains |-> 0], ybAllowance |-> 0, swappers |-> <<>>]
    /\ pool = [c \in Chains |-> <<>>] /\ flight = 0
    /\ file = [swapper |-> 0, yieldBox |-> FALSE]
    /\ pc = "idle" /\ chain = "main" /\ target = 0
    /\ ended = "none" /\ done = 0 /\ hasty = 0 /\ crashes = 0

----------------------------------------------------------------------------
(***************************************************************************)
(* Transactions of the deployer.                                           *)
(***************************************************************************)
Tx(fn) == [fn |-> fn, to |-> 0]
depositAsset(swapper) == [fn |-> "depositAsset", to |-> swapper]

Works(l, tx) ==
    CASE tx.fn = "wrap" -> l.token > 0 /\ l.wrapAllowance > 0
      [] tx.fn = "sendFrom" -> l.toft[host] > 0
      [] tx.fn = "depositAsset" -> l.toft["main"] > 0 /\ l.ybAllowance > 0
      [] OTHER -> TRUE

After(l, tx) ==
    CASE tx.fn = "mintTo" -> [l EXCEPT !.token = @ + 1, !.minted = @ + 1]
      [] tx.fn = "approve" -> [l EXCEPT !.wrapAllowance = 1]
      [] tx.fn = "wrap" -> [l EXCEPT !.token = @ - 1, !.wrapAllowance = @ - 1,
                                     !.locked = @ + 1, !.toft[host] = @ + 1]
      [] tx.fn = "sendFrom" -> [l EXCEPT !.toft[host] = @ - 1]
      [] tx.fn = "approveYieldBox" -> [l EXCEPT !.ybAllowance = 1]
      [] tx.fn = "depositAsset" -> [l EXCEPT !.toft["main"] = @ - 1, !.ybAllowance = @ - 1,
                                             !.swappers[tx.to] = @ + 1]
Apply(l, tx) == IF Works(l, tx) THEN After(l, tx) ELSE l
Mined(l, txs) == FoldLeft(Apply, l, txs)

\* What a node may estimate a transaction on.
Seen(c) == {ledger, Mined(ledger, pool[c])}

\* Sends on a chain; the task throws when the estimate fails.
Throw == pc' = "idle" /\ ended' = "thrown" /\ UNCHANGED <<ledger, pool, flight, done>>
SendOn(c, tx, to) ==
    \/ /\ \E l \in Seen(c) : Works(l, tx)
       /\ pool' = [pool EXCEPT ![c] = Append(@, tx)]
       /\ pc' = to /\ UNCHANGED <<ledger, flight, ended, done>>
    \/ (\E l \in Seen(c) : ~Works(l, tx)) /\ Throw
\* Sends on the host chain and waits: all sent there before is mined too.
Await(tx, to) ==
    \/ /\ \E l \in Seen(host) : Works(l, tx)
       /\ LET l == Mined(ledger, pool[host]) IN
          /\ ledger' = Apply(l, tx) /\ pool' = [pool EXCEPT ![host] = <<>>]
          /\ flight' = flight + (IF tx.fn = "sendFrom" /\ Works(l, tx) THEN 1 ELSE 0)
          /\ IF Works(l, tx) THEN pc' = to /\ UNCHANGED ended
             ELSE pc' = "idle" /\ ended' = "thrown"
          /\ UNCHANGED done
    \/ (\E l \in Seen(host) : ~Works(l, tx)) /\ Throw

----------------------------------------------------------------------------
(***************************************************************************)
(* fillMockSwapper                                                         *)
(***************************************************************************)
Quiet == (\A c \in Chains : pool[c] = <<>>) /\ flight = 0
Ready == file.swapper > 0 /\ file.yieldBox
Filled == file.swapper > 0 /\ ledger.swappers[file.swapper] > 0

\* Runs nothing calls for, or too early, are bounded.
Start(c) ==
    /\ pc = "idle"
    /\ IF Quiet /\ Ready /\ ~Filled /\ c = host THEN UNCHANGED hasty
       ELSE hasty < MaxHasty /\ hasty' = hasty + 1
    /\ chain' = c
    /\ IF c = host THEN pc' = "mint" /\ ended' = "none"
       ELSE pc' = "idle" /\ ended' = "skipped"       \* not the host chain
    /\ UNCHANGED <<host, ledger, pool, flight, file, target, done, crashes>>

Mint == pc = "mint" /\ SendOn(host, Tx("mintTo"), "approve") /\ UNCHANGED target
Approve == pc = "approve" /\ Await(Tx("approve"), "wrap") /\ UNCHANGED target
Wrap ==
    /\ pc = "wrap"
    /\ Await(Tx("wrap"), IF chain = "main" THEN "find" ELSE "send")
    /\ UNCHANGED target

sendFrom == pc = "send" /\ Await(Tx("sendFrom"), "find") /\ UNCHANGED target
\* The operator does not accept the fee.
Decline ==
    /\ pc = "send" /\ crashes < MaxCrashes /\ crashes' = crashes + 1
    /\ pc' = "idle" /\ ended' = "aborted"
    /\ UNCHANGED <<host, ledger, pool, flight, file, chain, target, done, hasty>>

Find ==
    /\ pc = "find"
    /\ IF Ready
       THEN pc' = "approveYieldBox" /\ target' = file.swapper
            /\ UNCHANGED <<ledger, pool, flight, ended, done>>
       ELSE Throw /\ UNCHANGED target
ApproveYieldBox ==
    /\ pc = "approveYieldBox" /\ SendOn("main", Tx("approveYieldBox"), "deposit")
    /\ UNCHANGED target

Deposit ==
    /\ pc = "deposit" /\ UNCHANGED target
    /\ \/ /\ \E l \in Seen("main") : Works(l, depositAsset(target))
          /\ pool' = [pool EXCEPT !["main"] = Append(@, depositAsset(target))]
          /\ pc' = "idle" /\ ended' = "done" /\ done' = done + 1
          /\ UNCHANGED <<ledger, flight>>
       \/ (\E l \in Seen("main") : ~Works(l, depositAsset(target))) /\ Throw

Fill == Mint \/ Approve \/ Wrap \/ sendFrom \/ Find \/ ApproveYieldBox \/ Deposit

----------------------------------------------------------------------------
(***************************************************************************)
(* testDeployMockSwapper, and the rest.                                    *)
(***************************************************************************)
\* The file is written when the contract is there; a crash may come between.
executeMockSwapper ==
    /\ pc = "idle" /\ file.yieldBox /\ Len(ledger.swappers) < MaxDeployed
    /\ ledger' = [ledger EXCEPT !.swappers = Append(@, 0)]
    /\ pc' = "saveSwapper" /\ ended' = "none"
    /\ UNCHANGED <<host, pool, flight, file, chain, target, done, counters>>
saveMockSwapper ==
    /\ pc = "saveSwapper"
    /\ file' = [file EXCEPT !.swapper = Len(ledger.swappers)]
    /\ pc' = "idle" /\ ended' = "none"
    /\ UNCHANGED <<host, ledger, pool, flight, chain, target, done, counters>>

DeployYieldBox ==
    /\ ~file.yieldBox /\ file' = [file EXCEPT !.yieldBox = TRUE]
    /\ UNCHANGED <<host, ledger, pool, flight, pc, chain, target, ended, done, counters>>

Mine(c) ==
    /\ pool[c] # <<>>
    /\ ledger' = Apply(ledger, Head(pool[c])) /\ pool' = [pool EXCEPT ![c] = Tail(@)]
    /\ UNCHANGED <<host, flight, file, pc, chain, target, ended, done, counters>>

Receive ==
    /\ flight > 0 /\ flight' = flight - 1
    /\ ledger' = [ledger EXCEPT !.toft["main"] = @ + 1]
    /\ UNCHANGED <<host, pool, file, pc, chain, target, ended, done, counters>>

Crash ==
    /\ pc # "idle" /\ crashes < MaxCrashes /\ crashes' = crashes + 1
    /\ pc' = "idle" /\ ended' = "crashed"
    /\ UNCHANGED <<host, ledger, pool, flight, file, chain, target, done, hasty>>

fillMockSwapper == Fill /\ UNCHANGED <<host, file, chain, counters>>
Next ==
    \/ \E c \in Chains : Start(c) \/ Mine(c)
    \/ fillMockSwapper \/ Decline
    \/ executeMockSwapper \/ saveMockSwapper
    \/ DeployYieldBox \/ Receive \/ Crash

----------------------------------------------------------------------------
(***************************************************************************)
(* Properties.                                                             *)
(***************************************************************************)
\* The type invariant; no balance is ever spent twice, and the file names a
\* swapper that is there.
TypeOK ==
    /\ {ledger.token, ledger.minted, ledger.locked, ledger.toft["main"],
        ledger.toft["side"], flight, done} \subseteq Nat
    /\ ledger.wrapAllowance \in 0 .. 1 /\ ledger.ybAllowance \in 0 .. 1
    /\ file.swapper \in 0 .. Len(ledger.swappers)
    /\ hasty \in 0 .. MaxHasty /\ crashes \in 0 .. MaxCrashes

\* Each tOFT, wherever it is, the messages under way included, is backed by an
\* underlying locked on the host chain, whichever step the task was stopped at.
Backed ==
    ledger.locked = ledger.toft["main"] + ledger.toft["side"] + flight
                        + FoldLeft(+, 0, ledger.swappers)

\* The swapper of the file gets its tOFTs and keeps them, although runs throw when
\* a node has not seen the approval or the message has not arrived: what they
\* leave behind serves a later one.
FilledAtLast == <>[]Filled
=============================================================================
