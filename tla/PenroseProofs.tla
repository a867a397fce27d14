--------------------------- MODULE PenroseProofs ----------------------------
(***************************************************************************)
(* What holds of Penrose and its markets for any number of markets, any    *)
(* settings and any debts.                                                 *)
(***************************************************************************)
EXTENDS Penrose, CommonTheorems

(* However the debts compare, the rate is between the market's bounds. *)
THEOREM DebtRateBounds ==
  ASSUME NEW config, config.min \in Nat, config.max \in Nat, config.againstEth \in Nat,
         config.min <= config.max,
         NEW own \in Nat, NEW ethDebt \in Nat
  PROVE  getDebtRate(config, own, ethDebt) \in config.min..config.max
<1> DEFINE point == (ethDebt * config.againstEth) \div DEBT_PRECISION
           percentage == (own * DEBT_PRECISION) \div point
           range == (config.max - config.min) * percentage
           rate == range \div DEBT_PRECISION + config.min
<1>1. DEBT_PRECISION \in Nat /\ DEBT_PRECISION > 0
  BY DebtRateAssumption
<1>2. ethDebt * config.againstEth \in Nat
  OBVIOUS
<1>3. point \in Nat
  BY <1>1, <1>2, FloorDiv
<1> HIDE DEF point
<1>4. CASE own = 0 \/ own >= point
  BY <1>4 DEF getDebtRate, point
<1>5. CASE own # 0 /\ own < point
  <2>1. own * DEBT_PRECISION \in Nat
    BY <1>1
  <2>2. percentage \in Nat
    BY <1>3, <1>5, <2>1, FloorDiv
  <2> HIDE DEF percentage
  <2>3. range \in Nat
    BY <2>2
  <2> HIDE DEF range
  <2>4. range \div DEBT_PRECISION \in Nat
    BY <1>1, <2>3, FloorDiv
  <2>5. rate \in Nat /\ rate >= config.min
    BY <2>4
  <2>6. getDebtRate(config, own, ethDebt) = IF rate > config.max THEN config.max ELSE rate
    BY <1>3, <1>5 DEF getDebtRate, point, percentage, range
  <2> HIDE DEF rate
  <2> QED BY <2>5, <2>6
<1> QED BY <1>3, <1>4, <1>5

(* Interest is a natural that never takes a debt beyond its uint128, and   *)
(* none is charged twice for the same time.                                *)
THEOREM InterestFits ==
  ASSUME NEW debt \in 0..MaxDebt, NEW rate \in Nat, NEW time \in Nat
  PROVE  /\ interestOn(debt, rate, time) \in Nat
         /\ debt + interestOn(debt, rate, time) <= MaxDebt
         /\ time = 0 => interestOn(debt, rate, time) = 0
<1> DEFINE perSecond == rate \div SECONDS_PER_YEAR
           product == debt * perSecond * time
           extra == product \div DEBT_PRECISION
<1>1. perSecond \in Nat
  BY DebtRateAssumption, FloorDiv
<1> HIDE DEF perSecond
<1>2. product \in Nat
  <2>1. debt * perSecond \in Nat
    BY <1>1, DebtRateAssumption
  <2> QED BY <2>1
<1> HIDE DEF product
<1>3. extra \in Nat
  BY <1>2, DebtRateAssumption, FloorDiv
<1>4. interestOn(debt, rate, time) =
        IF time = 0 THEN 0 ELSE IF extra <= MaxDebt - debt THEN extra ELSE MaxDebt - debt
  BY DEF interestOn, extra, product, perSecond
<1> HIDE DEF extra
<1> QED BY <1>3, <1>4, DebtRateAssumption

-----------------------------------------------------------------------------
(* The invariant. *)

ConfigsOrdered == \A m \in Markets : rateConfig[m].min < rateConfig[m].max

(* Rates are in bounds because settings stay ordered; every call reaches   *)
(* the markets it has to because the registered ones are listed.           *)
IInv == TypeOK /\ RegisteredAreListed /\ ConfigsOrdered

(* The interest each market of S is charged. *)
interestIn(S) == [m \in Markets |-> IF m \in S THEN interest(m) ELSE 0]

EthSet == {bigBangEthMarket} \cap Markets

-----------------------------------------------------------------------------
(* Rates and interest. *)

LEMMA AccruedEthNat ==
  ASSUME TypeOK
  PROVE  accruedEthDebt \in Nat
<1>1. CASE bigBangEthMarket = None
  BY <1>1 DEF accruedEthDebt
<1>2. CASE bigBangEthMarket # None
  <2> DEFINE e == bigBangEthMarket
  <2>1. e \in Markets
    BY <1>2, PenroseAssumption DEF TypeOK
  <2>2. elastic[e] \in 0..MaxDebt /\ elapsed[e] \in Nat /\ bigBangEthDebtRate \in Nat
    BY <2>1 DEF TypeOK
  <2>3. interestOn(elastic[e], bigBangEthDebtRate, elapsed[e]) \in Nat
    BY <2>2, InterestFits
  <2> QED BY <1>2, <2>2, <2>3, DebtRateAssumption DEF accruedEthDebt
<1> QED BY <1>1, <1>2

LEMMA RateInBounds ==
  ASSUME TypeOK, ConfigsOrdered, NEW m \in Markets
  PROVE  /\ rateOnAccrual(m) \in Nat
         /\ m \notin MainMarkets =>
              rateOnAccrual(m) \in rateConfig[m].min..rateConfig[m].max
<1>1. CASE m \in MainMarkets
  BY <1>1 DEF rateOnAccrual, TypeOK
<1>2. CASE m \notin MainMarkets
  <2>1. /\ rateConfig[m].min \in Nat /\ rateConfig[m].max \in Nat
        /\ rateConfig[m].againstEth \in Nat
        /\ rateConfig[m].min <= rateConfig[m].max
    BY DEF TypeOK, RateConfig, ConfigsOrdered
  <2>2. elastic[m] \in Nat
    BY DebtRateAssumption DEF TypeOK
  <2>3. getDebtRate(rateConfig[m], elastic[m], accruedEthDebt)
          \in rateConfig[m].min..rateConfig[m].max
    BY <2>1, <2>2, AccruedEthNat, DebtRateBounds
  <2>4. rateOnAccrual(m) = getDebtRate(rateConfig[m], elastic[m], accruedEthDebt)
    BY <1>2 DEF rateOnAccrual
  <2> HIDE DEF TypeOK
  <2> QED BY <2>1, <2>3, <2>4
<1> QED BY <1>1, <1>2

LEMMA InterestOfMarket ==
  ASSUME TypeOK, ConfigsOrdered, NEW m \in Markets
  PROVE  /\ interest(m) \in 0..MaxDebt
         /\ elastic[m] + interest(m) \in 0..MaxDebt
<1>1. elastic[m] \in 0..MaxDebt /\ elapsed[m] \in Nat
  BY DEF TypeOK
<1>2. rateOnAccrual(m) \in Nat
  BY RateInBounds
<1>3. interest(m) \in Nat /\ elastic[m] + interest(m) <= MaxDebt
  BY <1>1, <1>2, InterestFits DEF interest
<1> QED BY <1>1, <1>3, DebtRateAssumption

(* Charging interest keeps the types, and moves both totals by its sum. *)
LEMMA ChargedTypes ==
  ASSUME TypeOK, ConfigsOrdered, NEW S \in SUBSET Markets
  PROVE  /\ interestIn(S) \in [Markets -> 0..MaxDebt]
         /\ charged(S) \in [Markets -> 0..MaxDebt]
         /\ SumOver(interestIn(S)) \in 0..(Cardinality(Markets) * MaxDebt)
         /\ SumOver(charged(S)) = SumOver(elastic) + SumOver(interestIn(S))
<1>1. interestIn(S) \in [Markets -> 0..MaxDebt]
  BY InterestOfMarket, DebtRateAssumption DEF interestIn
<1>2. charged(S) \in [Markets -> 0..MaxDebt]
  BY InterestOfMarket DEF charged, TypeOK
<1>3. SumOver(interestIn(S)) \in 0..(Cardinality(Markets) * MaxDebt)
  BY <1>1, SumAtMost, PenroseAssumption, DebtRateAssumption
<1>4. charged(S) = [m \in Markets |-> elastic[m] + interestIn(S)[m]]
  <2>1. ASSUME NEW m \in Markets
        PROVE  charged(S)[m] = elastic[m] + interestIn(S)[m]
    BY InterestOfMarket DEF charged, interestIn, TypeOK
  <2> QED BY <2>1 DEF charged
<1>5. elastic \in [Markets -> Nat] /\ interestIn(S) \in [Markets -> Nat]
  BY <1>1 DEF TypeOK
<1>6. SumOver([m \in Markets |-> elastic[m] + interestIn(S)[m]])
        = SumOver(elastic) + SumOver(interestIn(S))
  BY <1>5, SumAdd, PenroseAssumption
<1> QED BY <1>1, <1>2, <1>3, <1>4, <1>6

LEMMA ChargesTypes ==
  ASSUME TypeOK, ConfigsOrdered, NEW S \in SUBSET Markets, Charges(S)
  PROVE  /\ openInterestDebt' \in [Markets -> Nat]
         /\ elapsed' \in [Markets -> 0..MaxElapsed]
         /\ SumOver(openInterestDebt') = SumOver(openInterestDebt) + SumOver(interestIn(S))
<1>1. openInterestDebt' = [m \in Markets |-> openInterestDebt[m] + interestIn(S)[m]]
  <2>1. ASSUME NEW m \in Markets
        PROVE  (IF m \in S THEN openInterestDebt[m] + interest(m) ELSE openInterestDebt[m])
                 = openInterestDebt[m] + interestIn(S)[m]
    BY DEF interestIn, TypeOK
  <2> QED BY <2>1 DEF Charges
<1>2. openInterestDebt \in [Markets -> Nat] /\ interestIn(S) \in [Markets -> Nat]
  BY ChargedTypes DEF TypeOK
<1>3. SumOver(openInterestDebt') = SumOver(openInterestDebt) + SumOver(interestIn(S))
  BY <1>1, <1>2, SumAdd, PenroseAssumption
<1>4. openInterestDebt' \in [Markets -> Nat]
  BY <1>1, <1>2
<1>5. elapsed' \in [Markets -> 0..MaxElapsed]
  BY PenroseAssumption DEF Charges, TypeOK
<1> QED BY <1>3, <1>4, <1>5

(* What every call on the debts does: they stay in their types, and the    *)
(* ledger sees one of its steps.                                           *)
DebtStepOK ==
  /\ elastic' \in [Markets -> 0..MaxDebt]
  /\ openInterestDebt' \in [Markets -> Nat]
  /\ elapsed' \in [Markets -> 0..MaxElapsed]
  /\ usdoSupply' \in Nat
  /\ Ledger!Next

LEMMA AccruesOnlyStep ==
  ASSUME IInv, NEW S \in SUBSET Markets, AccruesOnly(S)
  PROVE  DebtStepOK
<1>1. TypeOK /\ ConfigsOrdered /\ Charges(S) /\ elastic' = charged(S) /\ usdoSupply' = usdoSupply
  BY DEF IInv, AccruesOnly
<1> DEFINE x == SumOver(interestIn(S))
           Most == Cardinality(Markets) * MaxDebt
<1>2. x \in 0..Most /\ SumOver(charged(S)) = SumOver(elastic) + x
      /\ charged(S) \in [Markets -> 0..MaxDebt]
  BY <1>1, ChargedTypes
<1>3. /\ openInterestDebt' \in [Markets -> Nat]
      /\ elapsed' \in [Markets -> 0..MaxElapsed]
      /\ SumOver(openInterestDebt') = SumOver(openInterestDebt) + x
  BY <1>1, ChargesTypes
<1>4. usdoSupply \in Nat /\ SumOver(elastic) \in Nat
  BY <1>1, SumBounds, PenroseAssumption DEF TypeOK
<1>5. 0 \in 0..Most
  <2>1. Cardinality(Markets) \in Nat
    BY PenroseAssumption, FS_CardinalityType
  <2> QED BY <2>1, DebtRateAssumption
<1> HIDE DEF x
<1>6. Ledger!Charge(x)
  BY <1>3 DEF Ledger!Charge
<1>7. Ledger!Issue(x, 0)
  <2>1. SumOver(elastic') = SumOver(elastic) + x + 0 + 0
    BY <1>1, <1>2, <1>4
  <2> QED BY <1>1, <1>4, <1>5, <2>1 DEF Ledger!Issue
<1>8. Ledger!Next
  BY <1>2, <1>5, <1>6, <1>7 DEF Ledger!Next
<1> QED BY <1>1, <1>2, <1>3, <1>4, <1>8 DEF DebtStepOK

LEMMA DebtCallStep ==
  ASSUME IInv, NEW m \in Markets, NEW amount \in Nat, NEW fee \in Nat,
         borrow(m, amount, fee) \/ repay(m, amount)
  PROVE  DebtStepOK
<1> DEFINE S == AccruedByCall(m)
           debt == charged(S)
           x == SumOver(interestIn(S))
           Most == Cardinality(Markets) * MaxDebt
<1>1. TypeOK /\ ConfigsOrdered /\ Charges(S)
  BY DEF IInv, borrow, repay
<1>2. S \in SUBSET Markets
  BY DEF AccruedByCall, Reached
<1>3. /\ x \in 0..Most
      /\ SumOver(debt) = SumOver(elastic) + x
      /\ debt \in [Markets -> 0..MaxDebt]
  BY <1>1, <1>2, ChargedTypes
<1>4. /\ openInterestDebt' \in [Markets -> Nat]
      /\ elapsed' \in [Markets -> 0..MaxElapsed]
      /\ SumOver(openInterestDebt') = SumOver(openInterestDebt) + x
  BY <1>1, <1>2, ChargesTypes
<1>5. usdoSupply \in Nat /\ SumOver(elastic) \in Nat
  BY <1>1, SumBounds, PenroseAssumption DEF TypeOK
<1>6. debt[m] \in 0..MaxDebt /\ debt[m] <= SumOver(debt) /\ debt \in [Markets -> Nat]
  BY <1>3, SumBounds, PenroseAssumption
<1>7. Most \in Nat /\ MaxDebt <= Most
  <2>1. Cardinality(Markets) \in Nat /\ Cardinality(Markets) >= 1
    <3>1. Cardinality(Markets) \in Nat
      BY PenroseAssumption, FS_CardinalityType
    <3>2. Cardinality(Markets) # 0
      BY PenroseAssumption, FS_EmptySet
    <3> QED BY <3>1, <3>2
  <2> QED BY <2>1, DebtRateAssumption
<1> HIDE DEF debt, x, Most
<1>8. ASSUME NEW v \in 0..MaxDebt
      PROVE  /\ SumOver([debt EXCEPT ![m] = v]) = SumOver(elastic) + x - debt[m] + v
             /\ [debt EXCEPT ![m] = v] \in [Markets -> 0..MaxDebt]
  <2>1. v \in Nat /\ IsFiniteSet(Markets)
    BY PenroseAssumption, DebtRateAssumption
  <2>2. SumOver([debt EXCEPT ![m] = v]) = SumOver(debt) - debt[m] + v
    BY <1>6, <2>1, SumUpdate
  <2>3. [debt EXCEPT ![m] = v] \in [Markets -> 0..MaxDebt]
    BY <1>3
  <2>4. SumOver(debt) = SumOver(elastic) + x
    BY <1>3
  <2>5. SumOver(elastic) + x - debt[m] + v = SumOver(debt) - debt[m] + v
    BY <1>3, <1>5, <1>6, <1>7, <2>1, <2>4
  <2> QED BY <2>2, <2>3, <2>5, Zenon
<1>9. Ledger!Charge(x)
  BY <1>4 DEF Ledger!Charge
<1>10. CASE borrow(m, amount, fee)
  <2>1. /\ debt[m] + amount + fee <= MaxDebt
        /\ elastic' = [debt EXCEPT ![m] = debt[m] + amount + fee]
        /\ usdoSupply' = usdoSupply + amount
    BY <1>10 DEF borrow, debt
  <2>2. debt[m] + amount + fee \in 0..MaxDebt
    BY <1>6, <2>1, DebtRateAssumption
  <2>3. /\ elastic' \in [Markets -> 0..MaxDebt]
        /\ SumOver(elastic') = SumOver(elastic) + x - debt[m] + (debt[m] + amount + fee)
    BY <1>8, <2>1, <2>2
  <2>4. amount \in 0..Most /\ fee \in 0..Most
    BY <1>6, <1>7, <2>1, DebtRateAssumption
  <2>5. SumOver(elastic') = SumOver(elastic) + x + amount + fee
    BY <1>3, <1>5, <1>6, <1>7, <2>3
  <2>6. Ledger!Issue(x, amount)
    BY <2>1, <2>4, <2>5 DEF Ledger!Issue, Most
  <2>7. Ledger!Next
    BY <1>3, <1>9, <2>4, <2>6 DEF Ledger!Next, Most
  <2> QED BY <1>4, <1>5, <2>1, <2>3, <2>7 DEF DebtStepOK
<1>11. CASE repay(m, amount)
  <2>1. /\ amount <= debt[m] /\ amount <= usdoSupply
        /\ elastic' = [debt EXCEPT ![m] = debt[m] - amount]
        /\ usdoSupply' = usdoSupply - amount
    BY <1>11 DEF repay, debt
  <2>2. debt[m] - amount \in 0..MaxDebt
    BY <1>6, <2>1, DebtRateAssumption
  <2>3. /\ elastic' \in [Markets -> 0..MaxDebt]
        /\ SumOver(elastic') = SumOver(elastic) + x - debt[m] + (debt[m] - amount)
    BY <1>8, <2>1, <2>2
  <2>4. amount \in 0..Most
    BY <1>6, <1>7, <2>1, DebtRateAssumption
  <2>5. SumOver(elastic') = SumOver(elastic) + x - amount
        /\ amount <= SumOver(elastic) + x
    BY <1>3, <1>5, <1>6, <1>7, <2>1, <2>3
  <2>6. Ledger!Retire(x, amount)
    BY <2>1, <2>5 DEF Ledger!Retire
  <2>7. Ledger!Next
    BY <1>3, <1>9, <2>4, <2>6 DEF Ledger!Next, Most
  <2> QED BY <1>4, <1>5, <2>1, <2>3, <2>7 DEF DebtStepOK
<1> QED BY <1>10, <1>11

-----------------------------------------------------------------------------
(* The registry. *)

LEMMA RemovedKeepsOthers ==
  ASSUME NEW list \in Seq(Markets), NEW i \in 1..Len(list), NEW k \in Markets,
         list[i] # k, NEW j \in 1..Len(list), list[j] = k,
         NEW rest, rest = SubSeq([list EXCEPT ![i] = list[Len(list)]], 1, Len(list) - 1)
  PROVE  /\ rest \in Seq(Markets)
         /\ \E l \in 1..Len(rest) : rest[l] = k
<1> DEFINE n == Len(list)
           moved == [list EXCEPT ![i] = list[n]]
<1>1. n \in Nat /\ n >= 1 /\ i \in 1..n /\ j \in 1..n
  OBVIOUS
<1>2. moved \in Seq(Markets) /\ Len(moved) = n
  OBVIOUS
<1>3. moved[i] = list[n] /\ \A l \in 1..n : l # i => moved[l] = list[l]
  OBVIOUS
<1> HIDE DEF moved, n
<1>4. rest \in Seq(Markets) /\ Len(rest) = n - 1 /\ \A l \in 1..(n - 1) : rest[l] = moved[l]
  BY <1>1, <1>2 DEF moved, n
<1>5. CASE j = n
  <2>1. i \in 1..(n - 1)
    BY <1>1, <1>5
  <2>2. rest[i] = k
    BY <1>3, <1>4, <1>5, <2>1
  <2> QED BY <1>4, <2>1, <2>2
<1>6. CASE j # n
  <2>1. j \in 1..(n - 1) /\ j # i
    BY <1>1, <1>6
  <2>2. rest[j] = k
    BY <1>1, <1>3, <1>4, <2>1
  <2> QED BY <1>4, <2>1, <2>2
<1> QED BY <1>5, <1>6

LEMMA RegistryStep ==
  ASSUME IInv, NEW m \in Markets,
         addBigBang(m) \/ \E marketType \in {0, 1} : unregisterContract(m, marketType)
  PROVE  /\ allBigBangMarkets' \in Seq(Markets)
         /\ isMarketRegistered' \in [Markets -> BOOLEAN]
         /\ RegisteredAreListed'
<1> DEFINE list == allBigBangMarkets
<1>1. list \in Seq(Markets) /\ isMarketRegistered \in [Markets -> BOOLEAN]
  BY DEF IInv, TypeOK
<1>2. \A k \in Markets : isMarketRegistered[k] => \E j \in 1..Len(list) : list[j] = k
  BY DEF IInv, RegisteredAreListed, Listed
<1>3. CASE addBigBang(m)
  <2>1. /\ isMarketRegistered' = [isMarketRegistered EXCEPT ![m] = TRUE]
        /\ allBigBangMarkets' = Append(list, m)
    BY <1>3 DEF addBigBang
  <2>2. /\ Append(list, m) \in Seq(Markets)
        /\ Len(Append(list, m)) = Len(list) + 1
        /\ Append(list, m)[Len(list) + 1] = m
        /\ \A j \in 1..Len(list) : Append(list, m)[j] = list[j]
        /\ Len(list) \in Nat
    BY <1>1
  <2>3. ASSUME NEW k \in Markets, isMarketRegistered'[k]
        PROVE  \E j \in 1..Len(allBigBangMarkets') : allBigBangMarkets'[j] = k
    <3>1. CASE k = m
      BY <2>1, <2>2, <3>1
    <3>2. CASE k # m
      <4>1. PICK j \in 1..Len(list) : list[j] = k
        BY <1>1, <1>2, <2>1, <2>3, <3>2
      <4> QED BY <2>1, <2>2, <4>1
    <3> QED BY <3>1, <3>2
  <2> QED BY <1>1, <2>1, <2>2, <2>3 DEF RegisteredAreListed, Listed
<1>4. ASSUME unregisterContract(m, 0)
      PROVE  /\ allBigBangMarkets' \in Seq(Markets)
             /\ isMarketRegistered' \in [Markets -> BOOLEAN]
             /\ RegisteredAreListed'
  BY <1>1, <1>2, <1>4 DEF unregisterContract, RegisteredAreListed, Listed
<1>5. ASSUME unregisterContract(m, 1)
      PROVE  /\ allBigBangMarkets' \in Seq(Markets)
             /\ isMarketRegistered' \in [Markets -> BOOLEAN]
             /\ RegisteredAreListed'
  <2>1. isMarketRegistered' = [isMarketRegistered EXCEPT ![m] = FALSE]
    BY <1>5 DEF unregisterContract
  <2>2. PICK i \in 1..Len(list) : list[i] = m /\ allBigBangMarkets' = removed(i)
    BY <1>5 DEF unregisterContract, IsIndexOf
  <2>3. ASSUME NEW k \in Markets, isMarketRegistered'[k]
        PROVE  \E j \in 1..Len(allBigBangMarkets') : allBigBangMarkets'[j] = k
    <3>1. k # m /\ isMarketRegistered[k]
      BY <1>1, <2>1, <2>3
    <3>2. PICK j \in 1..Len(list) : list[j] = k
      BY <1>2, <3>1
    <3>3. allBigBangMarkets' =
            SubSeq([list EXCEPT ![i] = list[Len(list)]], 1, Len(list) - 1)
      BY <2>2 DEF removed
    <3>4. list[i] # k
      BY <2>2, <3>1
    <3> DEFINE rest == allBigBangMarkets'
    <3> HIDE DEF rest
    <3>5. rest = SubSeq([list EXCEPT ![i] = list[Len(list)]], 1, Len(list) - 1)
      BY <3>3 DEF rest
    <3>6. \E l \in 1..Len(rest) : rest[l] = k
      BY <1>1, <3>2, <3>4, <3>5, RemovedKeepsOthers
    <3> QED BY <3>6 DEF rest
  <2>4. allBigBangMarkets' \in Seq(Markets)
    <3>1. [list EXCEPT ![i] = list[Len(list)]] \in Seq(Markets)
      BY <1>1
    <3> QED BY <1>1, <2>2, <3>1 DEF removed
  <2> QED BY <1>1, <2>1, <2>3, <2>4 DEF RegisteredAreListed, Listed
<1> QED BY <1>3, <1>4, <1>5

-----------------------------------------------------------------------------
(* Every step. *)

LedgerStep == Ledger!Next \/ UNCHANGED Ledger!ledgerVars

StepOK == IInv' /\ LedgerStep

LEMMA InitOK == Init => IInv
<1> SUFFICES ASSUME Init PROVE IInv
  OBVIOUS
<1>1. TypeOK
  <2>1. elastic \in [Markets -> 0..MaxDebt] /\ openInterestDebt \in [Markets -> Nat]
        /\ elapsed \in [Markets -> 0..MaxElapsed]
    BY PenroseAssumption, DebtRateAssumption DEF Init
  <2>2. rateConfig \in [Markets -> RateConfig] /\ bigBangEthDebtRate \in Nat /\ usdoSupply \in Nat
    BY PenroseAssumption DEF Init
  <2>3. allBigBangMarkets \in Seq(Markets)
    BY DEF Init
  <2> QED BY <2>1, <2>2, <2>3 DEF Init, TypeOK
<1>2. RegisteredAreListed
  BY DEF Init, RegisteredAreListed
<1>3. ConfigsOrdered
  BY PenroseAssumption DEF Init, ConfigsOrdered
<1> QED BY <1>1, <1>2, <1>3 DEF IInv

(* Calls that leave the registry and the settings alone. *)
LEMMA MarketCallOK ==
  ASSUME IInv, NEW m \in Markets, MarketCall(m)
  PROVE  StepOK
<1>1. UNCHANGED <<registryVars, rateVars, pauseVars>>
  BY DEF MarketCall, borrow, repay, removeCollateral, accrue
<1>2. DebtStepOK
  <2>1. ASSUME NEW amount \in Amounts, NEW fee \in Fees, borrow(m, amount, fee)
        PROVE  DebtStepOK
    <3>1. amount \in Nat /\ fee \in Nat
      BY PenroseAssumption
    <3> QED BY <2>1, <3>1, DebtCallStep
  <2>2. ASSUME NEW amount \in Amounts, repay(m, amount)
        PROVE  DebtStepOK
    <3>1. amount \in Nat /\ 0 \in Nat
      BY PenroseAssumption
    <3> QED BY <2>2, <3>1, DebtCallStep
  <2>3. ASSUME removeCollateral(m)
        PROVE  DebtStepOK
    <3>1. {m} \cup ({bigBangEthMarket} \cap Markets) \in SUBSET Markets
      OBVIOUS
    <3> QED BY <2>3, <3>1, AccruesOnlyStep DEF removeCollateral
  <2> QED BY <2>1, <2>2, <2>3 DEF MarketCall, accrue
<1>3. IInv'
  BY <1>1, <1>2 DEF DebtStepOK, IInv, TypeOK, RegisteredAreListed, Listed, ConfigsOrdered,
                    registryVars, rateVars, pauseVars
<1> QED BY <1>2, <1>3 DEF DebtStepOK, StepOK, LedgerStep

LEMMA UnchangedDebt ==
  ASSUME UNCHANGED <<elastic, openInterestDebt, usdoSupply>>
  PROVE  LedgerStep
  BY DEF LedgerStep, Ledger!ledgerVars

LEMMA OwnerCallOK ==
  ASSUME IInv, NEW m \in Markets, OwnerCall(m)
  PROVE  StepOK
<1>1. ASSUME updatePause(m)
      PROVE  StepOK
  <2>1. UNCHANGED <<debtVars, registryVars, rateVars, paused>>
        /\ accruePaused' \in [Markets -> BOOLEAN]
    BY <1>1 DEF updatePause, IInv, TypeOK
  <2>2. IInv'
    BY <2>1 DEF IInv, TypeOK, RegisteredAreListed, Listed, ConfigsOrdered,
                debtVars, registryVars, rateVars
  <2> QED BY <2>1, <2>2, UnchangedDebt DEF StepOK, debtVars
<1>2. ASSUME addBigBang(m) \/ \E marketType \in {0, 1} : unregisterContract(m, marketType)
      PROVE  StepOK
  <2>1. UNCHANGED <<debtVars, rateVars, pauseVars>>
    BY <1>2 DEF addBigBang, unregisterContract
  <2>2. IInv'
    BY <1>2, <2>1, RegistryStep DEF IInv, TypeOK, ConfigsOrdered, debtVars, rateVars, pauseVars
  <2> QED BY <2>1, <2>2, UnchangedDebt DEF StepOK, debtVars
<1>3. ASSUME NEW min \in NewMinRates, NEW max \in NewMaxRates, NEW ratio \in NewRatios,
             setBigBangConfig(m, min, max, ratio)
      PROVE  StepOK
  <2> DEFINE newMin == IF min > 0 THEN min ELSE rateConfig[m].min
             newMax == IF max > 0 THEN max ELSE rateConfig[m].max
             newRatio == IF ratio > 0 THEN ratio ELSE rateConfig[m].againstEth
             config == [min |-> newMin, max |-> newMax, againstEth |-> newRatio]
  <2>1. /\ min \in Nat /\ max \in Nat /\ ratio \in Nat
        /\ rateConfig[m].min \in Nat /\ rateConfig[m].max \in Nat
        /\ rateConfig[m].againstEth \in Nat
        /\ rateConfig[m].min < rateConfig[m].max
    BY PenroseAssumption DEF IInv, TypeOK, RateConfig, ConfigsOrdered
  <2>2. /\ min > 0 => min < rateConfig[m].max
        /\ max > 0 => max > newMin
    BY <1>3 DEF setBigBangConfig
  <2>3. newMin \in Nat /\ newMax \in Nat /\ newRatio \in Nat /\ newMin < newMax
    BY <2>1, <2>2
  <2>4. rateConfig' = [rateConfig EXCEPT ![m] = config]
    BY <1>3 DEF setBigBangConfig
  <2> HIDE DEF newMin, newMax, newRatio
  <2>5. rateConfig' \in [Markets -> RateConfig] /\ ConfigsOrdered'
    BY <2>3, <2>4 DEF IInv, TypeOK, RateConfig, ConfigsOrdered
  <2>6. DebtStepOK
    <3>1. {m} \cup ({bigBangEthMarket} \cap Markets) \in SUBSET Markets
      OBVIOUS
    <3> QED BY <1>3, <3>1, AccruesOnlyStep DEF setBigBangConfig
  <2>7. UNCHANGED <<registryVars, bigBangEthMarket, bigBangEthDebtRate, pauseVars>>
    BY <1>3 DEF setBigBangConfig
  <2>8. IInv'
    BY <2>5, <2>6, <2>7 DEF DebtStepOK, IInv, TypeOK, RegisteredAreListed, Listed,
                            registryVars, pauseVars
  <2> QED BY <2>6, <2>8 DEF DebtStepOK, StepOK, LedgerStep
<1> QED BY <1>1, <1>2, <1>3 DEF OwnerCall

LEMMA MintOK ==
  ASSUME IInv, mintOpenInterestDebt
  PROVE  StepOK
<1> DEFINE minted == [m \in Markets |-> IF m \in Reached THEN openInterestDebt[m] ELSE 0]
<1>1. /\ openInterestDebt \in [Markets -> Nat] /\ minted \in [Markets -> Nat]
      /\ openInterestDebt' \in [Markets -> Nat] /\ usdoSupply \in Nat
  BY DEF IInv, TypeOK, mintOpenInterestDebt
<1>2. openInterestDebt = [m \in Markets |-> openInterestDebt'[m] + minted[m]]
  <2>1. ASSUME NEW m \in Markets
        PROVE  openInterestDebt[m] = openInterestDebt'[m] + minted[m]
    BY <1>1 DEF mintOpenInterestDebt
  <2> QED BY <1>1, <2>1
<1> HIDE DEF minted
<1>3. SumOver(openInterestDebt) = SumOver(openInterestDebt') + SumOver(minted)
  <2>1. SumOver([m \in Markets |-> openInterestDebt'[m] + minted[m]])
          = SumOver(openInterestDebt') + SumOver(minted)
    BY <1>1, SumAdd, PenroseAssumption
  <2> QED BY <1>2, <2>1, Zenon
<1>4. SumOver(openInterestDebt') \in Nat /\ SumOver(minted) \in Nat
      /\ SumOver(openInterestDebt) \in Nat
  BY <1>1, SumBounds, PenroseAssumption
<1>5. usdoSupply' = usdoSupply + SumOver(minted)
      /\ UNCHANGED <<elastic, elapsed, registryVars, rateVars, pauseVars>>
  BY DEF mintOpenInterestDebt, minted
<1>6. IInv'
  BY <1>1, <1>4, <1>5 DEF IInv, TypeOK, RegisteredAreListed, Listed, ConfigsOrdered,
                          registryVars, rateVars, pauseVars
<1>7. SumOver(minted) \in 0..SumOver(openInterestDebt)
  BY <1>3, <1>4
<1>8. Ledger!MintOwed(SumOver(minted))
  BY <1>3, <1>4, <1>5 DEF Ledger!MintOwed
<1> QED BY <1>6, <1>7, <1>8 DEF StepOK, LedgerStep, Ledger!Next

LEMMA PenroseCallOK ==
  ASSUME IInv,
         \/ \E rate \in EthRates : setBigBangEthMarketDebtRate(rate)
         \/ \E m \in MainMarkets : setBigBangEthMarket(m)
         \/ \E state \in BOOLEAN : setPause(state)
         \/ Tick
  PROVE  StepOK
<1>1. ASSUME NEW rate \in EthRates, setBigBangEthMarketDebtRate(rate)
      PROVE  StepOK
  <2>1. /\ AccruesOnly({bigBangEthMarket} \cap Markets)
        /\ bigBangEthDebtRate' \in Nat
        /\ UNCHANGED <<registryVars, rateConfig, bigBangEthMarket, pauseVars>>
    BY <1>1, PenroseAssumption DEF setBigBangEthMarketDebtRate
  <2>2. DebtStepOK
    <3>1. {bigBangEthMarket} \cap Markets \in SUBSET Markets
      OBVIOUS
    <3> QED BY <2>1, <3>1, AccruesOnlyStep
  <2>3. IInv'
    BY <2>1, <2>2 DEF DebtStepOK, IInv, TypeOK, RegisteredAreListed, Listed, ConfigsOrdered,
                      registryVars, pauseVars
  <2> QED BY <2>2, <2>3 DEF DebtStepOK, StepOK, LedgerStep
<1>2. ASSUME NEW m \in MainMarkets, setBigBangEthMarket(m)
      PROVE  StepOK
  <2>1. /\ bigBangEthMarket' = m
        /\ UNCHANGED <<registryVars, rateConfig, bigBangEthDebtRate, pauseVars>>
    BY <1>2 DEF setBigBangEthMarket
  <2>2. \E S \in SUBSET Markets : AccruesOnly(S)
    <3> DEFINE others == IF bigBangEthMarket = None THEN {} ELSE Reached \ {bigBangEthMarket}
               S == IF others = {} THEN {} ELSE others \cup {bigBangEthMarket}
    <3>1. AccruesOnly(S)
      BY <1>2 DEF setBigBangEthMarket
    <3>2. S \in SUBSET Markets
      BY PenroseAssumption DEF IInv, TypeOK, Reached
    <3> QED BY <3>1, <3>2
  <2>3. DebtStepOK
    BY <2>2, AccruesOnlyStep
  <2>4. IInv'
    BY <2>1, <2>3 DEF DebtStepOK, IInv, TypeOK, RegisteredAreListed, Listed, ConfigsOrdered,
                      registryVars, pauseVars
  <2> QED BY <2>3, <2>4 DEF DebtStepOK, StepOK, LedgerStep
<1>3. ASSUME NEW state \in BOOLEAN, setPause(state)
      PROVE  StepOK
  <2>1. IInv'
    BY <1>3 DEF setPause, IInv, TypeOK, RegisteredAreListed, Listed, ConfigsOrdered,
                debtVars, registryVars, rateVars
  <2> QED BY <1>3, <2>1, UnchangedDebt DEF setPause, StepOK, debtVars
<1>4. ASSUME Tick
      PROVE  StepOK
  <2>1. elapsed' \in [Markets -> 0..MaxElapsed]
    BY <1>4, PenroseAssumption DEF Tick, IInv, TypeOK
  <2>2. IInv'
    BY <1>4, <2>1 DEF Tick, IInv, TypeOK, RegisteredAreListed, Listed, ConfigsOrdered,
                      registryVars, rateVars, pauseVars
  <2> QED BY <1>4, <2>2, UnchangedDebt DEF Tick, StepOK
<1> QED BY <1>1, <1>2, <1>3, <1>4

LEMMA StepsOK ==
  ASSUME IInv, [Next]_vars
  PROVE  StepOK
<1>1. CASE UNCHANGED vars
  <2>1. IInv'
    BY <1>1 DEF IInv, TypeOK, RegisteredAreListed, Listed, ConfigsOrdered,
                vars, debtVars, registryVars, rateVars, pauseVars
  <2> QED BY <1>1, <2>1, UnchangedDebt DEF StepOK, vars, debtVars
<1>2. CASE Next
  BY <1>2, MarketCallOK, OwnerCallOK, MintOK, PenroseCallOK DEF Next
<1> QED BY <1>1, <1>2

THEOREM Invariance == Spec => []IInv
<1>1. IInv /\ [Next]_vars => IInv'
  BY StepsOK DEF StepOK
<1> QED BY InitOK, <1>1, PTL DEF Spec

(* No call on any market and no setting takes a debt, an open interest or  *)
(* the registry out of its type.                                           *)
THEOREM TypeCorrect == Spec => []TypeOK
<1>1. IInv => TypeOK
  BY DEF IInv
<1> QED BY Invariance, <1>1, PTL

(* Penrose reaches every registered market, however markets were           *)
(* unregistered before.                                                    *)
THEOREM RegisteredStayListed == Spec => []RegisteredAreListed
<1>1. IInv => RegisteredAreListed
  BY DEF IInv
<1> QED BY Invariance, <1>1, PTL

(* No sequence of settings leads to a rate outside a market's bounds.      *)
THEOREM RatesStayInBounds == Spec => []RatesInBounds
<1>1. IInv => RatesInBounds
  BY RateInBounds DEF IInv, RatesInBounds
<1> QED BY Invariance, <1>1, PTL

(* All markets together implement the ledger of debt: what interest is     *)
(* charged in one call on many markets is one step of it, and minting the  *)
(* open interest of the reached markets another.                           *)
THEOREM PenroseImplementsLedger == Spec => ImplementsLedger
<1>1. Init => Ledger!Init
  BY SumOfZeros DEF Init, Ledger!Init
<1>2. IInv /\ [Next]_vars => [Ledger!Next]_(Ledger!ledgerVars)
  BY StepsOK DEF StepOK, LedgerStep
<1> QED BY Invariance, <1>1, <1>2, PTL DEF Spec, ImplementsLedger, Ledger!Spec

-----------------------------------------------------------------------------
(* Rates are not changed for time that already passed. *)

(* A market whose rate the property is about. *)
Rated(m) ==
  /\ isMarketRegistered[m]
  /\ m \notin MainMarkets \/ m = bigBangEthMarket
  /\ bigBangEthMarket # None
  /\ elapsed[m] > 0
  /\ elapsed'[m] = elapsed[m]

(* Charging the ETH market leaves the debt the other rates are read from   *)
(* what an accrual would have found.                                       *)
LEMMA EthDebtStays ==
  ASSUME IInv, NEW S \in SUBSET Markets, bigBangEthMarket \in S, Charges(S),
         bigBangEthMarket' = bigBangEthMarket,
         elastic'[bigBangEthMarket] = charged(S)[bigBangEthMarket]
  PROVE  accruedEthDebt' = accruedEthDebt
<1> DEFINE e == bigBangEthMarket
<1>1. e \in Markets /\ e # None /\ e \in MainMarkets
  BY PenroseAssumption DEF IInv, TypeOK
<1>2. elastic'[e] = elastic[e] + interest(e)
  BY <1>1 DEF charged
<1>3. rateOnAccrual(e) = bigBangEthDebtRate
  BY <1>1 DEF rateOnAccrual
<1>4. accruedEthDebt = elastic'[e]
  BY <1>1, <1>2, <1>3 DEF accruedEthDebt, interest
<1>5. elapsed'[e] = 0
  BY <1>1 DEF Charges
<1>6. interestOn(elastic'[e], bigBangEthDebtRate', elapsed'[e]) = 0
  BY <1>5 DEF interestOn
<1>7. elastic'[e] \in Nat
  <2>1. elastic[e] + interest(e) \in 0..MaxDebt
    BY <1>1, InterestOfMarket DEF IInv
  <2> QED BY <1>2, <2>1, DebtRateAssumption
<1>8. accruedEthDebt' = elastic'[e] + 0
  BY <1>1, <1>6 DEF accruedEthDebt
<1> QED BY <1>4, <1>7, <1>8

(* A call that charges the ETH market and changes neither the debt nor the *)
(* settings of `m` leaves its rate.                                        *)
LEMMA RateStays ==
  ASSUME IInv, NEW m \in Markets, Rated(m),
         NEW S \in SUBSET Markets, bigBangEthMarket \in S, Charges(S),
         bigBangEthMarket' = bigBangEthMarket,
         elastic'[bigBangEthMarket] = charged(S)[bigBangEthMarket],
         m \notin S => elastic'[m] = charged(S)[m] /\ rateConfig'[m] = rateConfig[m]
  PROVE  rateOnAccrual(m)' = rateOnAccrual(m)
<1>1. m \notin S
  BY DEF Rated, Charges
<1>2. m \notin MainMarkets
  BY <1>1 DEF Rated
<1>3. elastic'[m] = elastic[m] /\ rateConfig'[m] = rateConfig[m]
  BY <1>1 DEF charged
<1>4. accruedEthDebt' = accruedEthDebt
  BY EthDebtStays
<1> QED BY <1>2, <1>3, <1>4 DEF rateOnAccrual

LEMMA SettingsStay ==
  ASSUME NEW m \in Markets, UNCHANGED <<elastic, elapsed, rateVars>>
  PROVE  rateOnAccrual(m)' = rateOnAccrual(m)
  BY DEF rateOnAccrual, accruedEthDebt, rateVars

LEMMA MarketCallKeepsRates ==
  ASSUME IInv, NEW m0 \in Markets, MarketCall(m0), NEW m \in Markets, Rated(m)
  PROVE  rateOnAccrual(m)' = rateOnAccrual(m)
<1> DEFINE e == bigBangEthMarket
<1>1. e \in Markets /\ e' = e /\ rateConfig' = rateConfig
  BY PenroseAssumption DEF IInv, TypeOK, Rated, MarketCall, borrow, repay, removeCollateral,
                           accrue, rateVars
<1>2. ASSUME removeCollateral(m0)
      PROVE  rateOnAccrual(m)' = rateOnAccrual(m)
  <2> DEFINE S == {m0} \cup ({e} \cap Markets)
  <2>1. S \in SUBSET Markets /\ e \in S /\ Charges(S) /\ elastic' = charged(S)
    BY <1>1, <1>2 DEF removeCollateral, AccruesOnly
  <2> HIDE DEF S
  <2> QED BY <1>1, <2>1, RateStays
<1>3. ASSUME NEW amount, NEW fee, borrow(m0, amount, fee) \/ repay(m0, amount)
      PROVE  rateOnAccrual(m)' = rateOnAccrual(m)
  <2> DEFINE S == AccruedByCall(m0)
  <2>1. S \in SUBSET Markets /\ e \in S /\ m0 \in S /\ Charges(S)
    BY <1>1, <1>3 DEF AccruedByCall, Reached, borrow, repay
  <2>2. m0 # e
    <3>1. m \in Reached
      BY DEF Rated, IInv, RegisteredAreListed, Reached
    <3>2. m \notin S
      BY <2>1 DEF Rated, Charges
    <3> QED BY <3>1, <3>2 DEF AccruedByCall
  <2>3. \A k \in Markets \ {m0} : elastic'[k] = charged(S)[k]
    BY <1>3 DEF borrow, repay, charged
  <2> HIDE DEF S
  <2> QED BY <1>1, <2>1, <2>2, <2>3, RateStays
<1> QED BY <1>2, <1>3 DEF MarketCall, accrue

LEMMA OwnerCallKeepsRates ==
  ASSUME IInv, NEW m0 \in Markets, OwnerCall(m0), NEW m \in Markets, Rated(m)
  PROVE  rateOnAccrual(m)' = rateOnAccrual(m)
<1> DEFINE e == bigBangEthMarket
<1>1. CASE \/ updatePause(m0)
           \/ addBigBang(m0)
           \/ \E marketType \in {0, 1} : unregisterContract(m0, marketType)
  <2>1. UNCHANGED <<elastic, elapsed, rateVars>>
    BY <1>1 DEF updatePause, addBigBang, unregisterContract, debtVars
  <2> QED BY <2>1, SettingsStay
<1>2. ASSUME NEW min, NEW max, NEW ratio, setBigBangConfig(m0, min, max, ratio)
      PROVE  rateOnAccrual(m)' = rateOnAccrual(m)
  <2> DEFINE S == {m0} \cup ({e} \cap Markets)
  <2>1. e \in Markets /\ e' = e
    BY <1>2, PenroseAssumption DEF IInv, TypeOK, Rated, setBigBangConfig
  <2>2. S \in SUBSET Markets /\ e \in S /\ Charges(S) /\ elastic' = charged(S)
    BY <1>2, <2>1 DEF setBigBangConfig, AccruesOnly
  <2>3. m \notin S => rateConfig'[m] = rateConfig[m]
    BY <1>2 DEF setBigBangConfig
  <2> HIDE DEF S
  <2> QED BY <2>1, <2>2, <2>3, RateStays
<1> QED BY <1>1, <1>2 DEF OwnerCall

LEMMA PenroseCallKeepsRates ==
  ASSUME IInv, NEW m \in Markets, Rated(m),
         \/ \E rate \in EthRates : setBigBangEthMarketDebtRate(rate)
         \/ \E k \in MainMarkets : setBigBangEthMarket(k)
         \/ mintOpenInterestDebt
         \/ \E state \in BOOLEAN : setPause(state)
         \/ Tick
  PROVE  rateOnAccrual(m)' = rateOnAccrual(m)
<1> DEFINE e == bigBangEthMarket
<1>1. e \in Markets /\ e \in MainMarkets
  BY PenroseAssumption DEF IInv, TypeOK, Rated
<1>2. ASSUME NEW rate, setBigBangEthMarketDebtRate(rate)
      PROVE  rateOnAccrual(m)' = rateOnAccrual(m)
  <2> DEFINE S == {e} \cap Markets
  <2>1. S \in SUBSET Markets /\ e \in S /\ Charges(S) /\ elastic' = charged(S)
        /\ e' = e /\ rateConfig' = rateConfig
    BY <1>1, <1>2 DEF setBigBangEthMarketDebtRate, AccruesOnly
  <2> HIDE DEF S
  <2> QED BY <2>1, RateStays
<1>3. ASSUME NEW k, setBigBangEthMarket(k)
      PROVE  rateOnAccrual(m)' = rateOnAccrual(m)
  <2>1. CASE m = e
    BY <1>1, <1>3, <2>1 DEF setBigBangEthMarket, rateOnAccrual
  <2>2. CASE m # e
    <3>1. m \in Reached \ {e} /\ e # None
      BY <2>2 DEF Rated, IInv, RegisteredAreListed, Reached
    <3>2. Charges((Reached \ {e}) \cup {e})
      BY <1>3, <3>1 DEF setBigBangEthMarket, AccruesOnly
    <3> QED BY <3>1, <3>2 DEF Charges, Rated
  <2> QED BY <2>1, <2>2
<1>4. CASE mintOpenInterestDebt \/ \E state \in BOOLEAN : setPause(state)
  <2>1. UNCHANGED <<elastic, elapsed, rateVars>>
    BY <1>4 DEF mintOpenInterestDebt, setPause, debtVars
  <2> QED BY <2>1, SettingsStay
<1>5. CASE Tick
  <2>1. elapsed'[m] = elapsed[m] + 1 /\ elapsed[m] \in Int
    BY <1>5, PenroseAssumption DEF Tick, IInv, TypeOK
  <2> QED BY <2>1 DEF Rated
<1> QED BY <1>2, <1>3, <1>4, <1>5

(* Whatever is called on whichever market, and whatever the owner sets, no *)
(* registered market is charged a different rate for time that had passed. *)
THEOREM NeverRetroactive == Spec => RateNotRetroactive
<1> DEFINE Keeps == \A m \in Markets : Rated(m) => rateOnAccrual(m)' = rateOnAccrual(m)
<1>1. IInv /\ [Next]_vars => [Keeps]_vars
  <2> SUFFICES ASSUME IInv, Next, NEW m \in Markets, Rated(m)
               PROVE  rateOnAccrual(m)' = rateOnAccrual(m)
    OBVIOUS
  <2> QED BY MarketCallKeepsRates, OwnerCallKeepsRates, PenroseCallKeepsRates DEF Next
<1>2. [Keeps]_vars =>
        [ \A m \in Markets :
            (/\ isMarketRegistered[m]
             /\ m \notin MainMarkets \/ m = bigBangEthMarket
             /\ bigBangEthMarket # None
             /\ elapsed[m] > 0
             /\ elapsed'[m] = elapsed[m])
              => rateOnAccrual(m)' = rateOnAccrual(m) ]_vars
  BY DEF Rated
<1> HIDE DEF Keeps
<1> QED BY Invariance, <1>1, <1>2, PTL DEF Spec, RateNotRetroactive

=============================================================================
