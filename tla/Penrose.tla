------------------------------ MODULE Penrose -------------------------------
(***************************************************************************)
(* Penrose and the BigBang markets it owns, seen from their debt: which    *)
(* market's interest is charged when, at which rate, and what of it is     *)
(* minted.  Module BigBang has the inside of one market; here a market is  *)
(* its debt, its open interest, its rate settings and whether its public   *)
(* accrue is paused.                                                       *)
(*                                                                         *)
(* Markets call each other.  Every call on a market first accrues the ETH  *)
(* market and then itself; calls that change the ETH market's debt make    *)
(* Penrose accrue all other registered markets before, because their rates *)
(* depend on it.  All of it is one transaction: if one of these accruals   *)
(* reverts the call does, so their conditions are guards.                  *)
(***************************************************************************)
EXTENDS DebtRate, Sums, Sequences

CONSTANTS
  Markets,
  MainMarkets,      \* those with the main collateral: isMainMarket
  None,             \* bigBangEthMarket before it is set
  InitialConfig,    \* rate settings the markets are deployed with
  Amounts, Fees,    \* what calls borrow or repay, and the opening fees
  EthRates,         \* what the owner sets bigBangEthDebtRate to
  NewMinRates, NewMaxRates, NewRatios,   \* and what setBigBangConfig to; 0 keeps
  OutsideUsdo,      \* USDO minted elsewhere
  MaxElapsed,       \* bound: time between accruals of a market
  MaxListed         \* bound: length of allBigBangMarkets

ASSUME PenroseAssumption ==
  /\ IsFiniteSet(Markets)
  /\ MainMarkets \subseteq Markets /\ None \notin Markets
  /\ InitialConfig \in [Markets -> RateConfig]
  /\ \A m \in Markets : InitialConfig[m].min < InitialConfig[m].max
                            /\ InitialConfig[m].max <= DEBT_PRECISION
  /\ Amounts \subseteq Nat /\ Fees \subseteq Nat /\ EthRates \subseteq Nat
  /\ NewMinRates \subseteq Nat /\ NewMaxRates \subseteq Nat /\ NewRatios \subseteq Nat
  /\ OutsideUsdo \in Nat /\ MaxElapsed \in Nat /\ MaxListed \in Nat

VARIABLES
  elastic,              \* totalBorrow.elastic of each market
  openInterestDebt,     \* interest charged and not minted
  elapsed,              \* time since the market's last accrual
  rateConfig,           \* minDebtRate, maxDebtRate, debtRateAgainstEthMarket
  accruePaused,         \* AddCollateral or RemoveCollateral is paused
  allBigBangMarkets,
  isMarketRegistered,
  bigBangEthMarket,
  bigBangEthDebtRate,
  paused,               \* Penrose itself
  usdoSupply

debtVars     == <<elastic, openInterestDebt, elapsed, usdoSupply>>
registryVars == <<allBigBangMarkets, isMarketRegistered>>
rateVars     == <<rateConfig, bigBangEthMarket, bigBangEthDebtRate>>
pauseVars    == <<accruePaused, paused>>
vars         == <<debtVars, registryVars, rateVars, pauseVars>>

TypeOK ==
  /\ elastic \in [Markets -> 0..MaxDebt]
  /\ openInterestDebt \in [Markets -> Nat]
  /\ elapsed \in [Markets -> 0..MaxElapsed]
  /\ rateConfig \in [Markets -> RateConfig]
  /\ accruePaused \in [Markets -> BOOLEAN]
  /\ allBigBangMarkets \in Seq(Markets)
  /\ isMarketRegistered \in [Markets -> BOOLEAN]
  /\ bigBangEthMarket \in MainMarkets \cup {None}
  /\ bigBangEthDebtRate \in Nat
  /\ paused \in BOOLEAN
  /\ usdoSupply \in Nat

(* A market exists before it is registered.  lastAccrued starts at zero:   *)
(* the time before the first accrual is charged on no debt and left out.   *)
(* The rate is the constructor's, or what the owner made of it since.      *)
Init ==
  /\ elastic = [m \in Markets |-> 0]
  /\ openInterestDebt = [m \in Markets |-> 0]
  /\ elapsed = [m \in Markets |-> 0]
  /\ rateConfig = InitialConfig
  /\ accruePaused = [m \in Markets |-> FALSE]
  /\ allBigBangMarkets = <<>>
  /\ isMarketRegistered = [m \in Markets |-> FALSE]
  /\ bigBangEthMarket = None
  /\ bigBangEthDebtRate \in EthRates
  /\ paused = FALSE
  /\ usdoSupply = OutsideUsdo

Listed(m) == \E i \in 1..Len(allBigBangMarkets) : allBigBangMarkets[i] = m

(* The markets Penrose reaches when it goes through its list. *)
Reached == {m \in Markets : isMarketRegistered[m] /\ Listed(m)}

-----------------------------------------------------------------------------
(* Accrual. *)

(* The ETH market's debt after its own interest, which is charged first. *)
accruedEthDebt ==
  IF bigBangEthMarket = None THEN 0
  ELSE elastic[bigBangEthMarket]
         + interestOn(elastic[bigBangEthMarket], bigBangEthDebtRate, elapsed[bigBangEthMarket])

(* The rate an accrual of `m` now would use, for all of elapsed[m]. *)
rateOnAccrual(m) ==
  IF m \in MainMarkets THEN bigBangEthDebtRate
  ELSE getDebtRate(rateConfig[m], elastic[m], accruedEthDebt)

(* A market with debt asks the ETH market for its debt, and reverts if     *)
(* there is no ETH market.                                                 *)
HasRate(m) ==
  m \in MainMarkets \/ elastic[m] = 0 \/ elapsed[m] = 0 \/ bigBangEthMarket # None

interest(m) == interestOn(elastic[m], rateOnAccrual(m), elapsed[m])

(* _accrue of `m` accrues the ETH market through its public accrue, whose  *)
(* pause makes every market revert.                                        *)
CanAccrue(m) ==
  /\ HasRate(m)
  /\ bigBangEthMarket \notin {m, None} => ~accruePaused[bigBangEthMarket]

(* WRONG, for TLC to refute: only the caller and the ETH market accrued.   *)
AccruedByOwnCallOnly(m) == {m} \cup ({bigBangEthMarket} \cap Markets)

(* The markets whose interest a debt-changing call on `m` charges first:   *)
(* itself, the ETH market and, from the ETH market, all Penrose reaches.   *)
AccruedByCall(m) ==
  {m} \cup ({bigBangEthMarket} \cap Markets)
      \cup (IF m = bigBangEthMarket THEN Reached ELSE {})

(* reAccrueBigBangMarkets reverts while Penrose is paused, for every       *)
(* market, and accrues the others through their public accrue.             *)
CanCall(m) ==
  /\ ~paused
  /\ CanAccrue(m)
  /\ \A other \in AccruedByCall(m) \ {m} : CanAccrue(other) /\ ~accruePaused[other]

(* The debts with the interest of the markets in S, which is added to      *)
(* their open interest.                                                    *)
charged(S) == [m \in Markets |-> IF m \in S THEN elastic[m] + interest(m) ELSE elastic[m]]

Charges(S) ==
  /\ openInterestDebt' =
       [m \in Markets |-> IF m \in S THEN openInterestDebt[m] + interest(m)
                          ELSE openInterestDebt[m]]
  /\ elapsed' = [m \in Markets |-> IF m \in S THEN 0 ELSE elapsed[m]]

(* Accruals without any other change of debt. *)
AccruesOnly(S) ==
  /\ elastic' = charged(S)
  /\ Charges(S)
  /\ UNCHANGED usdoSupply

-----------------------------------------------------------------------------
(* Calls on a market. *)

(* borrow and buyCollateral: the fee is owed and not minted. *)
borrow(m, amount, fee) ==
  LET debt == charged(AccruedByCall(m))
  IN  /\ CanCall(m)
      /\ debt[m] + amount + fee <= MaxDebt
      /\ elastic' = [debt EXCEPT ![m] = @ + amount + fee]
      /\ usdoSupply' = usdoSupply + amount
      /\ Charges(AccruedByCall(m))
      /\ UNCHANGED <<registryVars, rateVars, pauseVars>>

(* repay, sellCollateral, liquidate and liquidateBadDebt. *)
repay(m, amount) ==
  LET debt == charged(AccruedByCall(m))
  IN  /\ CanCall(m)
      /\ amount <= debt[m] /\ amount <= usdoSupply
      /\ elastic' = [debt EXCEPT ![m] = @ - amount]
      /\ usdoSupply' = usdoSupply - amount
      /\ Charges(AccruedByCall(m))
      /\ UNCHANGED <<registryVars, rateVars, pauseVars>>

(* removeCollateral accrues like every call and changes no debt. *)
removeCollateral(m) ==
  /\ CanAccrue(m)
  /\ AccruesOnly({m} \cup ({bigBangEthMarket} \cap Markets))
  /\ UNCHANGED <<registryVars, rateVars, pauseVars>>

accrue(m) == ~accruePaused[m] /\ removeCollateral(m)

(* A conservator flips the two pause options accrue looks at. *)
updatePause(m) ==
  /\ accruePaused' = [accruePaused EXCEPT ![m] = ~@]
  /\ UNCHANGED <<debtVars, registryVars, rateVars, paused>>

(* The owner, through executeMarketFn, which knows registered markets      *)
(* only; the main market ignores the rates.                                *)
setBigBangConfig(m, min, max, ratio) ==
  LET newMin == IF min > 0 THEN min ELSE rateConfig[m].min
      newMax == IF max > 0 THEN max ELSE rateConfig[m].max
  IN  /\ isMarketRegistered[m] /\ m \notin MainMarkets
      /\ CanAccrue(m)
      /\ min > 0 => min < rateConfig[m].max
      /\ max > 0 => max > newMin /\ max <= DEBT_PRECISION
      /\ rateConfig' = [rateConfig EXCEPT ![m] =
           [min |-> newMin, max |-> newMax,
            againstEth |-> IF ratio > 0 THEN ratio ELSE @.againstEth]]
      /\ AccruesOnly({m} \cup ({bigBangEthMarket} \cap Markets))
      /\ UNCHANGED <<registryVars, bigBangEthMarket, bigBangEthDebtRate, pauseVars>>

-----------------------------------------------------------------------------
(* Penrose. *)

(* registerBigBang deploys the market and addBigBang takes an existing     *)
(* one; both append it to the list.                                        *)
addBigBang(m) ==
  /\ ~isMarketRegistered[m]
  /\ Len(allBigBangMarkets) < MaxListed
  /\ isMarketRegistered' = [isMarketRegistered EXCEPT ![m] = TRUE]
  /\ allBigBangMarkets' = Append(allBigBangMarkets, m)
  /\ UNCHANGED <<debtVars, rateVars, pauseVars>>

(* The first index of a market in the list. *)
IsIndexOf(i, m) ==
  /\ allBigBangMarkets[i] = m
  /\ \A j \in 1..(i - 1) : allBigBangMarkets[j] # m

(* WRONG: the list is cut short without moving its last entry. *)
removedByPop(i) == SubSeq(allBigBangMarkets, 1, Len(allBigBangMarkets) - 1)

(* The last entry takes the place of the removed one. *)
removed(i) ==
  SubSeq([allBigBangMarkets EXCEPT ![i] = allBigBangMarkets[Len(allBigBangMarkets)]],
         1, Len(allBigBangMarkets) - 1)

(* With the market type of another kind of market (0), the market leaves   *)
(* the registry and stays on the list.                                     *)
unregisterContract(m, marketType) ==
  /\ isMarketRegistered[m]      \* else masterContractOf is not known
  /\ isMarketRegistered' = [isMarketRegistered EXCEPT ![m] = FALSE]
  /\ IF marketType = 1
     THEN \E i \in 1..Len(allBigBangMarkets) :
            IsIndexOf(i, m) /\ allBigBangMarkets' = removed(i)
     ELSE UNCHANGED allBigBangMarkets
  /\ UNCHANGED <<debtVars, rateVars, pauseVars>>

(* The ETH market is charged at the old rate first. *)
setBigBangEthMarketDebtRate(rate) ==
  /\ bigBangEthMarket # None => ~accruePaused[bigBangEthMarket]
  /\ AccruesOnly({bigBangEthMarket} \cap Markets)
  /\ bigBangEthDebtRate' = rate
  /\ UNCHANGED <<registryVars, rateConfig, bigBangEthMarket, pauseVars>>

(* All other markets are charged against the old ETH market first, unless  *)
(* there was none.                                                         *)
setBigBangEthMarket(m) ==
  LET others == IF bigBangEthMarket = None THEN {} ELSE Reached \ {bigBangEthMarket}
  IN  /\ \A other \in others : CanAccrue(other) /\ ~accruePaused[other]
      /\ AccruesOnly(IF others = {} THEN {} ELSE others \cup {bigBangEthMarket})
      /\ bigBangEthMarket' = m
      /\ UNCHANGED <<registryVars, rateConfig, bigBangEthDebtRate, pauseVars>>

(* WRONG: the open interest read and not reset. *)
mintWithoutConsuming ==
  /\ usdoSupply' = usdoSupply
       + SumOver([m \in Markets |-> IF m \in Reached THEN openInterestDebt[m] ELSE 0])
  /\ UNCHANGED <<elastic, elapsed, openInterestDebt, registryVars, rateVars, pauseVars>>

(* Each reached market gives up its open interest, and the sum is minted.  *)
mintOpenInterestDebt ==
  /\ usdoSupply' = usdoSupply
       + SumOver([m \in Markets |-> IF m \in Reached THEN openInterestDebt[m] ELSE 0])
  /\ openInterestDebt' =
       [m \in Markets |-> IF m \in Reached THEN 0 ELSE openInterestDebt[m]]
  /\ UNCHANGED <<elastic, elapsed, registryVars, rateVars, pauseVars>>

setPause(state) ==
  /\ paused # state
  /\ paused' = state
  /\ UNCHANGED <<debtVars, registryVars, rateVars, accruePaused>>

Tick ==
  /\ \A m \in Markets : elapsed[m] < MaxElapsed
  /\ elapsed' = [m \in Markets |-> elapsed[m] + 1]
  /\ UNCHANGED <<elastic, openInterestDebt, usdoSupply, registryVars, rateVars, pauseVars>>

-----------------------------------------------------------------------------

MarketCall(m) ==
  \/ \E amount \in Amounts, fee \in Fees : borrow(m, amount, fee)
  \/ \E amount \in Amounts : repay(m, amount)
  \/ removeCollateral(m)
  \/ accrue(m)

OwnerCall(m) ==
  \/ updatePause(m)
  \/ \E min \in NewMinRates, max \in NewMaxRates, ratio \in NewRatios :
       setBigBangConfig(m, min, max, ratio)
  \/ addBigBang(m)
  \/ \E marketType \in {0, 1} : unregisterContract(m, marketType)

Next ==
  \/ \E m \in Markets : MarketCall(m) \/ OwnerCall(m)
  \/ \E rate \in EthRates : setBigBangEthMarketDebtRate(rate)
  \/ \E m \in MainMarkets : setBigBangEthMarket(m)
  \/ mintOpenInterestDebt
  \/ \E state \in BOOLEAN : setPause(state)
  \/ Tick

Spec == Init /\ [][Next]_vars

-----------------------------------------------------------------------------
(* Properties. *)

(* Penrose reaches every registered market when it accrues them or         *)
(* collects their open interest, whatever was registered, unregistered     *)
(* under a wrong type and registered again before.                         *)
RegisteredAreListed == \A m \in Markets : isMarketRegistered[m] => Listed(m)

(* Unless time passes, no call on any market and no setter changes the     *)
(* rate a registered market will be charged for time that already passed.  *)
(* It says nothing of a market with the main collateral that is not the    *)
(* ETH market: the setter of its rate does not charge it first.            *)
RateNotRetroactive ==
  [][ \A m \in Markets :
        (/\ isMarketRegistered[m]
         /\ m \notin MainMarkets \/ m = bigBangEthMarket
         /\ bigBangEthMarket # None
         /\ elapsed[m] > 0
         /\ elapsed'[m] = elapsed[m])
          => rateOnAccrual(m)' = rateOnAccrual(m) ]_vars

(* No sequence of settings leads to a rate outside the market's bounds. *)
RatesInBounds ==
  \A m \in Markets \ MainMarkets :
    rateOnAccrual(m) \in rateConfig[m].min..rateConfig[m].max

(* All markets together keep the promise of the ledger of debt: what       *)
(* exists of USDO and what may be minted of the interest is owed.          *)
Ledger == INSTANCE DebtLedger WITH
  Amounts       <- 0..(Cardinality(Markets) * MaxDebt),
  InitialSupply <- OutsideUsdo,
  debt          <- SumOver(elastic),
  supply        <- usdoSupply,
  owed          <- SumOver(openInterestDebt)

ImplementsLedger == Ledger!Spec

=============================================================================
