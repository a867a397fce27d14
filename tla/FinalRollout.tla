---------------------------- MODULE FinalRollout ----------------------------
(***************************************************************************)
(* deploys/final on a side chain and on the host: the last seeding of the  *)
(* Singularity markets and the switch of the BigBang markets to the USDO   *)
(* oracle.                                                                 *)
(*                                                                         *)
(* On the side the script lends USDO in one transaction and wraps and      *)
(* sends the receipts it got for it in another; on the host one batch sets *)
(* the oracles, lends and wraps.  Lending to a Singularity market gives    *)
(* receipts (its shares); wrapped receipts (TOFTs) travel as LayerZero     *)
(* messages, which arrive some time.                                       *)
(***************************************************************************)
EXTENDS Integers, Sequences

CONSTANTS
    BBs,            \* the BigBang markets the script names
    LendSide,       \* USDO lent to SGL_S_DAI, 0.01
    WrapSide,       \* receipts wrapped and sent, 0.01
    LendHost,       \* USDO lent to SGL_S_GLP, 5
    WrapHost,       \* receipts wrapped, 1
    ReceiptsPer,    \* receipts for each USDO lent
    MaxRounds,      \* bound: runs on a chain that was done already
    MaxCrashes,     \* bound: crashes of the script
    MaxLate         \* bound: transactions mined too late, or under a risen fee

Chains == {"side", "host"}

FinalAssumption ==
    /\ {LendSide, WrapSide, LendHost, WrapHost, ReceiptsPer} \subseteq Nat \ {0}
    /\ WrapSide <= ReceiptsPer * LendSide
    /\ WrapHost <= ReceiptsPer * LendHost
    /\ {MaxRounds, MaxCrashes, MaxLate} \subseteq Nat

VARIABLES
    usdo,       \* the multicalls' USDO
    receipts,   \* the multicalls' receipts that are not wrapped
    wrapped,    \* the receipts the TOFT of a chain holds
    tSglSdai,   \* the multicalls' wrapped receipts of the side, on each chain
    tSglSglp,   \* the host multicall's wrapped receipts of the host
    sent,       \* messages on their way to the host, WrapSide each
    lent,       \* USDO lent to the market of a chain
    oracles,    \* BigBang markets with the USDO oracle
    pool,       \* transactions sent and not mined, by chain
    pc, chain,  \* the script: its next step and the chain it runs on
    done,       \* chains where a run ended without an error
    budget      \* what is left of the bounds

vars == <<usdo, receipts, wrapped, tSglSdai, tSglSglp, sent, lent, oracles,
          pool, pc, chain, done, budget>>
tokens == <<usdo, receipts, wrapped, tSglSdai, tSglSglp, sent, lent>>
contracts == <<tokens, oracles>>

Zero == [c \in Chains |-> 0]

Init ==
    /\ usdo = Zero /\ receipts = Zero /\ wrapped = Zero /\ lent = Zero
    /\ tSglSdai = Zero /\ tSglSglp = 0 /\ sent = 0
    /\ oracles = {}
    /\ pool = [c \in Chains |-> <<>>]
    /\ pc = "idle" /\ chain = "side" /\ done = {}
    /\ budget = [rounds |-> MaxRounds, crashes |-> MaxCrashes, late |-> MaxLate]

----------------------------------------------------------------------------
(***************************************************************************)
(* The transactions.  Each is one batch of the multicall, all or nothing.  *)
(***************************************************************************)
Lend(c) == IF c = "side" THEN LendSide ELSE LendHost
Wrap(c) == IF c = "side" THEN WrapSide ELSE WrapHost

(* depositUsdoYbAndAddSgl *)
CanLend(c) == usdo[c] >= Lend(c)
Lends(c, wraps) ==
    /\ usdo' = [usdo EXCEPT ![c] = @ - Lend(c)]
    /\ lent' = [lent EXCEPT ![c] = @ + Lend(c)]
    /\ receipts' = [receipts EXCEPT ![c] = @ + ReceiptsPer * Lend(c) - wraps]
    /\ wrapped' = [wrapped EXCEPT ![c] = @ + wraps]

\* The side's first transaction.
LendOnSide ==
    IF CanLend("side")
    THEN Lends("side", 0) /\ UNCHANGED <<tSglSdai, tSglSglp, sent, oracles>>
    ELSE UNCHANGED contracts

\* WRONG: sends from a balance nothing is wrapped for.
sendOftTokenTwice ==
    IF receipts["side"] >= WrapSide
    THEN /\ receipts' = [receipts EXCEPT !["side"] = @ - WrapSide]
         /\ wrapped' = [wrapped EXCEPT !["side"] = @ + WrapSide]
         /\ sent' = sent + 2
         /\ UNCHANGED <<usdo, lent, tSglSdai, tSglSglp, oracles>>
    ELSE UNCHANGED contracts

\* Its second: wrapToft and sendOftToken.  What is wrapped leaves at once.
sendOftToken ==
    IF receipts["side"] >= WrapSide
    THEN /\ receipts' = [receipts EXCEPT !["side"] = @ - WrapSide]
         /\ wrapped' = [wrapped EXCEPT !["side"] = @ + WrapSide]
         /\ sent' = sent + 1
         /\ UNCHANGED <<usdo, lent, tSglSdai, tSglSglp, oracles>>
    ELSE UNCHANGED contracts

(* executeMarketFn, depositUsdoYbAndAddSgl and wrapToft of the host *)
SeedsHost ==
    /\ oracles' = BBs
    /\ Lends("host", WrapHost)
    /\ tSglSglp' = tSglSglp + WrapHost
    /\ UNCHANGED <<tSglSdai, sent>>

\* The host's transaction.
SeedHost == IF CanLend("host") THEN SeedsHost ELSE UNCHANGED contracts

\* Whether no call of the transaction reverts.
CanExecute(tx) ==
    CASE tx = "lend" -> CanLend("side")
      [] tx = "send" -> receipts["side"] >= WrapSide
      [] tx = "seed" -> CanLend("host")
      [] tx = "empty" -> TRUE

Execute(tx) ==
    \/ tx = "lend" /\ LendOnSide
    \/ tx = "send" /\ sendOftToken
    \/ tx = "seed" /\ SeedHost
    \/ tx = "empty" /\ UNCHANGED contracts

----------------------------------------------------------------------------
(***************************************************************************)
(* The script.                                                             *)
(***************************************************************************)
Throw == pc' = "idle" /\ UNCHANGED <<chain, done>>

\* The operator runs the task until it ends without an error.
deployFinal(c) ==
    /\ pc = "idle"
    /\ IF c \in done
       THEN budget.rounds > 0 /\ budget' = [budget EXCEPT !.rounds = @ - 1]
       ELSE UNCHANGED budget
    /\ pc' = (IF c = "side" THEN "lend" ELSE "seed") /\ chain' = c
    /\ UNCHANGED <<contracts, pool, done>>

\* Where the script waits for what it sent.
Waiting == [lend |-> "lendWait", send |-> "sendWait", seed |-> "seedWait",
            empty |-> "emptyWait"]

\* wrapToft refuses to build the side's second transaction when there is
\* nothing to wrap; on the host it does not look (noCheckAmount), because there
\* the loan comes in the same batch.
executeMulticall(step) ==
    /\ pc = step
    /\ IF step = "send" /\ receipts["side"] = 0
       THEN Throw /\ UNCHANGED pool
       ELSE /\ pool' = [pool EXCEPT ![chain] = Append(@, step)]
            /\ pc' = Waiting[step] /\ UNCHANGED <<chain, done>>
    /\ UNCHANGED <<contracts, budget>>

Following == [lend |-> "send", seed |-> "empty"]

\* The script goes on when its transaction is mined.
Resume(tx, ok) ==
    IF ~ok THEN Throw
    ELSE IF tx \in DOMAIN Following
    THEN pc' = Following[tx] /\ UNCHANGED <<chain, done>>
    ELSE pc' = "idle" /\ done' = done \cup {chain} /\ UNCHANGED chain

\* late: the approvals have ended, or the message costs more than was quoted.
Mined(c, late) ==
    /\ pool[c] # <<>>
    /\ late => budget.late > 0 /\ Head(pool[c]) # "empty"
    /\ LET tx == Head(pool[c])
           ok == ~late /\ CanExecute(tx)
       IN  /\ IF ~late THEN Execute(tx) ELSE UNCHANGED contracts
           /\ IF c = chain /\ pc = Waiting[tx] /\ Len(pool[c]) = 1
              THEN Resume(tx, ok)
              ELSE UNCHANGED <<pc, chain, done>>
    /\ pool' = [pool EXCEPT ![c] = Tail(@)]
    /\ budget' = [budget EXCEPT !.late = IF late THEN @ - 1 ELSE @]

Crash ==
    /\ pc # "idle" /\ budget.crashes > 0
    /\ Throw
    /\ budget' = [budget EXCEPT !.crashes = @ - 1]
    /\ UNCHANGED <<contracts, pool>>

(***************************************************************************)
(* The rest of the world.                                                  *)
(***************************************************************************)
\* USDO arrives: on the host what postLbp2 left, on the side what is sent
\* there by hand.
Fund(c) ==
    /\ usdo[c] < Lend(c)
    /\ usdo' = [usdo EXCEPT ![c] = Lend(c)]
    /\ UNCHANGED <<receipts, wrapped, tSglSdai, tSglSglp, sent, lent, oracles,
                   pool, pc, chain, done, budget>>

lzReceive ==
    /\ sent > 0
    /\ sent' = sent - 1
    /\ tSglSdai' = [tSglSdai EXCEPT !["host"] = @ + WrapSide]
    /\ UNCHANGED <<usdo, receipts, wrapped, tSglSglp, lent, oracles, pool, pc,
                   chain, done, budget>>

Sends == {"lend", "send", "seed", "empty"}

Next ==
    \/ \E c \in Chains : deployFinal(c) \/ Fund(c)
    \/ \E step \in Sends : executeMulticall(step)
    \/ \E c \in Chains, late \in BOOLEAN : Mined(c, late)
    \/ Crash \/ lzReceive

\* What the operator owes each chain: a run, as long as it is not done.
FirstRound(c) == c \notin done /\ deployFinal(c)

----------------------------------------------------------------------------
(***************************************************************************)
(* Properties.                                                             *)
(***************************************************************************)
Steps == {"idle"} \cup Sends \cup {Waiting[step] : step \in Sends}

\* The variables have the values the contracts and the script can give them;
\* no balance is overdrawn by a transaction that was sent before another run.
TypeOK ==
    /\ {usdo, receipts, wrapped, lent, tSglSdai} \subseteq [Chains -> Nat]
    /\ tSglSglp \in Nat /\ sent \in Nat
    /\ oracles \subseteq BBs
    /\ pool \in [Chains -> Seq(Sends)]
    /\ pc \in Steps /\ chain \in Chains /\ done \subseteq Chains
    /\ budget \in [rounds : 0 .. MaxRounds, crashes : 0 .. MaxCrashes, late : 0 .. MaxLate]

\* Every wrapped receipt is somewhere: on its chain, on the host or on its
\* way, although the loan, the wrap and the message are three steps that
\* crashes and repeated runs come between.
ToftsBacked ==
    /\ wrapped["side"] = tSglSdai["side"] + tSglSdai["host"] + WrapSide * sent
    /\ wrapped["host"] = tSglSglp
    /\ \A c \in Chains : receipts[c] + wrapped[c] = ReceiptsPer * lent[c]

\* The markets price USDO by its oracle all together, and not before somebody
\* lends on the host.
OraclesNeedLender ==
    oracles # {} => oracles = BBs /\ lent["host"] >= LendHost /\ tSglSglp >= WrapHost

\* A run that ended without an error did what it is for.
DoneMeansSeeded ==
    /\ "side" \in done => tSglSdai["host"] + WrapSide * sent >= WrapSide
    /\ "host" \in done => oracles = BBs

\* The operator only has to try again: in the end the oracles are set and the
\* side's receipts are on the host.
RolloutCompletes == <>[](oracles = BBs /\ tSglSdai["host"] >= WrapSide)
=============================================================================
