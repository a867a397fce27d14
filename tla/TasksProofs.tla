----------------------------- MODULE TasksProofs -----------------------------
EXTENDS Tasks, Sequences, CommonTheorems

(* What every transaction of a sequence preserves, mining all of them does. *)
LEMMA FlowMinedClosed ==
  ASSUME NEW D, NEW l \in D, NEW n \in Nat, NEW txs, DOMAIN txs = 1 .. n,
         \A x \in D, i \in 1 .. n : Flow!Apply(x, txs[i]) \in D
  PROVE  Flow!Mined(l, txs) \in D
<1> DEFINE Body(g) == [s \in SUBSET (1 .. n) |->
                         IF s = {} THEN l
                         ELSE Flow!Apply(g[s \ {GreatestOf(s)}], txs[GreatestOf(s)])]
           it == CHOOSE g : g = Body(g)
<1>1. Flow!Mined(l, txs) = it[1 .. n]
  BY DEF Flow!Mined, Flow!FoldLeft, Flow!MapThenFoldSet, Flow!Max, GreatestOf
<1>2. \E g : g = Body(g)
  <2> DEFINE F == [p \in D \X (1 .. n) |-> Flow!Apply(p[1], txs[p[2]])]
  <2> HIDE DEF it
  <2>1. F \in [D \X (1 .. n) -> D]
    <3> SUFFICES ASSUME NEW p \in D \X (1 .. n) PROVE Flow!Apply(p[1], txs[p[2]]) \in D
      OBVIOUS
    <3>1. p[1] \in D /\ p[2] \in 1 .. n
      OBVIOUS
    <3> QED BY <3>1
  <2>2. PICK g \in [SUBSET (1 .. n) -> D] : IsFold(g, n, l, F)
    <3> HIDE DEF F, Body
    <3> QED BY <2>1, FoldExists
  <2>3. ASSUME NEW s \in SUBSET (1 .. n)
        PROVE  g[s] = IF s = {} THEN l
                      ELSE Flow!Apply(g[s \ {GreatestOf(s)}], txs[GreatestOf(s)])
    <3>1. CASE s = {}
      BY <2>2, <3>1 DEF IsFold
    <3>2. CASE s # {}
      <4>1. GreatestOf(s) \in 1 .. n
        BY <3>2, Greatest
      <4>2. g[s \ {GreatestOf(s)}] \in D
        BY <4>1
      <4>3. F[<<g[s \ {GreatestOf(s)}], GreatestOf(s)>>]
               = Flow!Apply(g[s \ {GreatestOf(s)}], txs[GreatestOf(s)])
        BY <4>1, <4>2
      <4> QED BY <2>2, <3>2, <4>3 DEF IsFold
    <3> QED BY <3>1, <3>2
  <2>4. g = Body(g)
    BY <2>3
  <2> QED BY <2>4
<1>3. it = Body(it)
  BY <1>2
<1> HIDE DEF it
<1>4. it[{}] \in D
  BY <1>3
<1>5. ASSUME NEW k \in 1 .. n, it[1 .. k - 1] \in D
      PROVE  it[1 .. k] \in D
  <2>1. /\ 1 .. k # {} /\ 1 .. k \in SUBSET (1 .. n)
        /\ GreatestOf(1 .. k) = k /\ (1 .. k) \ {k} = 1 .. k - 1
    BY GreatestOfPrefix
  <2>2. Body(it)[1 .. k] = Flow!Apply(it[1 .. k - 1], txs[k])
    BY <2>1
  <2>3. it[1 .. k] = Flow!Apply(it[1 .. k - 1], txs[k])
    <3> HIDE DEF Body
    <3> QED BY <1>3, <2>2
  <2> QED BY <1>5, <2>3
<1>6. it[1 .. n] \in D
  BY <1>4, <1>5, FoldPrefixes, Zenon
<1> QED BY <1>1, <1>6

LEMMA FlowAtBoth ==
  ASSUME NEW f, NEW g, NEW a
  PROVE  Flow!At(Flow!Both(f, g), a) = Flow!At(f, a) + Flow!At(g, a)
<1>1. CASE a \in DOMAIN f \cup DOMAIN g
  BY <1>1 DEF Flow!Both, Flow!At
<1>2. CASE a \notin DOMAIN f \cup DOMAIN g
  BY <1>2 DEF Flow!Both, Flow!At
<1> QED BY <1>1, <1>2

LEMMA FlowAtOne ==
  ASSUME NEW n, NEW a, NEW b
  PROVE  Flow!At(Flow!One(a, n), b) = IF b = a THEN n ELSE 0
  BY DEF Flow!One, Flow!At

LEMMA FlowAtNone ==
  ASSUME NEW a
  PROVE  Flow!At(Flow!None, a) = 0
  BY DEF Flow!None, Flow!At

(***************************************************************************)
(* SameChainFlow.  Whatever the task sends and does not wait for leaves    *)
(* the collateral alone, and every transaction moves things without        *)
(* creating or losing any.                                                 *)
(***************************************************************************)
FlowApprovable ==
  Flow!Markets \X {"wrapAllowance", "ybAllowance", "operator"} \cup {<<"usdo", "ybAllowance">>}
FlowPending ==
  {Flow!Sets(a, n) : a \in FlowApprovable, n \in {1, Full, Some}}
    \cup {Flow!withdraw(n) : n \in {Full, Some}}

FlowLedgers == [Flow!Accounts -> Nat]
FlowAccounted(l) ==
  /\ \A m \in Flow!Markets :
       l[<<m, "minted">>] = l[<<m, "token">>] + l[<<m, "toft">>] + l[<<m, "yb">>]
                              + l[<<m, "collateral">>]
  /\ l[<<"bb", "debt">>] =
       l[<<"usdo", "wallet">>] + l[<<"usdo", "yb">>] + l[<<"usdo", "pool">>]
         + l[<<"bb", "charged">>]
  /\ l[<<"sgl", "debt">>] + l[<<"usdo", "pool">>] =
       l[<<"usdo", "lent">>] + l[<<"sgl", "charged">>]

\* The ledgers that differ from l in nothing the task waits for.
FlowLike(l) ==
  {x \in FlowLedgers : /\ FlowAccounted(x)
                       /\ \A m \in Flow!Markets : x[<<m, "collateral">>] = l[<<m, "collateral">>]}

FlowMoves(tx, a) == Flow!At(tx.gives, a) - Flow!At(tx.takes, a)
FlowBalanced(tx) ==
  /\ \A a \in Flow!Accounts : Flow!At(tx.takes, a) \in Nat /\ Flow!At(tx.gives, a) \in Nat
  /\ DOMAIN tx.sets = {}
  /\ \A m \in Flow!Markets :
       FlowMoves(tx, <<m, "minted">>) =
         FlowMoves(tx, <<m, "token">>) + FlowMoves(tx, <<m, "toft">>)
           + FlowMoves(tx, <<m, "yb">>) + FlowMoves(tx, <<m, "collateral">>)
  /\ FlowMoves(tx, <<"bb", "debt">>) =
       FlowMoves(tx, <<"usdo", "wallet">>) + FlowMoves(tx, <<"usdo", "yb">>)
         + FlowMoves(tx, <<"usdo", "pool">>) + FlowMoves(tx, <<"bb", "charged">>)
  /\ FlowMoves(tx, <<"sgl", "debt">>) + FlowMoves(tx, <<"usdo", "pool">>) =
       FlowMoves(tx, <<"usdo", "lent">>) + FlowMoves(tx, <<"sgl", "charged">>)

FlowKinds == {"minted", "token", "toft", "yb", "collateral", "debt", "charged", "part"}

LEMMA FlowPlaces ==
  /\ \A m \in Flow!Markets : \A k \in FlowKinds :
       <<m, k>> \in Flow!Accounts
  /\ \A k \in {"wallet", "yb", "pool", "lent"} : <<"usdo", k>> \in Flow!Accounts
  /\ FlowApprovable \subseteq Flow!Accounts
  /\ "bb" \in Flow!Markets /\ "sgl" \in Flow!Markets
  BY DEF Flow!Accounts, Flow!Markets, FlowApprovable, FlowKinds

LEMMA FlowCollateralPlace ==
  \A m \in Flow!Markets : <<m, "collateral">> \in Flow!Accounts
  BY FlowPlaces DEF FlowKinds

(* A transaction that works takes no more than there is. *)
LEMMA FlowTakes ==
  ASSUME NEW l \in FlowLedgers, NEW tx, Flow!Works(l, tx), NEW a \in Flow!Accounts
  PROVE  Flow!At(tx.takes, a) <= l[a]
  BY DEF Flow!Works, Flow!At, FlowLedgers

(* A balanced transaction that works keeps the ledger accounted for. *)
LEMMA FlowBalancedKeeps ==
  ASSUME NEW l \in FlowLedgers, FlowAccounted(l), NEW tx, FlowBalanced(tx), Flow!Works(l, tx)
  PROVE  /\ Flow!After(l, tx) \in FlowLedgers /\ FlowAccounted(Flow!After(l, tx))
         /\ \A m \in Flow!Markets :
              Flow!After(l, tx)[<<m, "collateral">>] =
                l[<<m, "collateral">>] + FlowMoves(tx, <<m, "collateral">>)
<1> DEFINE r == Flow!After(l, tx)
<1>1. ASSUME NEW a \in Flow!Accounts
      PROVE  r[a] = l[a] + FlowMoves(tx, a) /\ r[a] \in Nat
  <2>1. r[a] = l[a] - Flow!At(tx.takes, a) + Flow!At(tx.gives, a)
    BY DEF Flow!After, FlowBalanced
  <2>2. Flow!At(tx.takes, a) \in Nat /\ Flow!At(tx.gives, a) \in Nat /\ l[a] \in Nat
    BY DEF FlowBalanced, FlowLedgers
  <2>3. Flow!At(tx.takes, a) <= l[a]
    BY FlowTakes
  <2> HIDE DEF r
  <2> QED BY <2>1, <2>2, <2>3 DEF FlowMoves
<1>2. r \in FlowLedgers
  BY <1>1 DEF FlowLedgers, Flow!After
<1> HIDE DEF r
<1>3. \A a \in Flow!Accounts : FlowMoves(tx, a) \in Int /\ l[a] \in Nat
  BY DEF FlowBalanced, FlowMoves, FlowLedgers
<1>4. FlowAccounted(r)
  <2>1. ASSUME NEW m \in Flow!Markets
        PROVE  r[<<m, "minted">>] = r[<<m, "token">>] + r[<<m, "toft">>] + r[<<m, "yb">>]
                                      + r[<<m, "collateral">>]
    <3>1. \A k \in {"minted", "token", "toft", "yb", "collateral"} :
            /\ r[<<m, k>>] = l[<<m, k>>] + FlowMoves(tx, <<m, k>>)
            /\ l[<<m, k>>] \in Nat /\ FlowMoves(tx, <<m, k>>) \in Int
      BY <1>1, <1>3, FlowPlaces DEF FlowKinds
    <3>2. l[<<m, "minted">>] = l[<<m, "token">>] + l[<<m, "toft">>] + l[<<m, "yb">>]
                                 + l[<<m, "collateral">>]
      BY DEF FlowAccounted
    <3>3. FlowMoves(tx, <<m, "minted">>) =
            FlowMoves(tx, <<m, "token">>) + FlowMoves(tx, <<m, "toft">>)
              + FlowMoves(tx, <<m, "yb">>) + FlowMoves(tx, <<m, "collateral">>)
      BY DEF FlowBalanced
    <3> QED BY ONLY <3>1, <3>2, <3>3
  <2> DEFINE moved(a) ==
        r[a] = l[a] + FlowMoves(tx, a) /\ l[a] \in Nat /\ FlowMoves(tx, a) \in Int
  <2>4. /\ moved(<<"bb", "debt">>) /\ moved(<<"sgl", "debt">>)
        /\ moved(<<"bb", "charged">>) /\ moved(<<"sgl", "charged">>)
        /\ moved(<<"usdo", "wallet">>) /\ moved(<<"usdo", "yb">>)
        /\ moved(<<"usdo", "pool">>) /\ moved(<<"usdo", "lent">>)
    <3>1. \A a \in Flow!Accounts : moved(a)
      BY <1>1, <1>3
    <3> HIDE DEF moved
    <3> QED BY <3>1, FlowPlaces DEF FlowKinds
  <2>2. r[<<"bb", "debt">>] =
          r[<<"usdo", "wallet">>] + r[<<"usdo", "yb">>] + r[<<"usdo", "pool">>]
            + r[<<"bb", "charged">>]
    <3>1. l[<<"bb", "debt">>] =
            l[<<"usdo", "wallet">>] + l[<<"usdo", "yb">>] + l[<<"usdo", "pool">>]
              + l[<<"bb", "charged">>]
      BY DEF FlowAccounted
    <3>2. FlowMoves(tx, <<"bb", "debt">>) =
            FlowMoves(tx, <<"usdo", "wallet">>) + FlowMoves(tx, <<"usdo", "yb">>)
              + FlowMoves(tx, <<"usdo", "pool">>) + FlowMoves(tx, <<"bb", "charged">>)
      BY DEF FlowBalanced
    <3> QED BY ONLY <2>4, <3>1, <3>2
  <2>3. r[<<"sgl", "debt">>] + r[<<"usdo", "pool">>] =
          r[<<"usdo", "lent">>] + r[<<"sgl", "charged">>]
    <3>1. l[<<"sgl", "debt">>] + l[<<"usdo", "pool">>] =
            l[<<"usdo", "lent">>] + l[<<"sgl", "charged">>]
      BY DEF FlowAccounted
    <3>2. FlowMoves(tx, <<"sgl", "debt">>) + FlowMoves(tx, <<"usdo", "pool">>) =
            FlowMoves(tx, <<"usdo", "lent">>) + FlowMoves(tx, <<"sgl", "charged">>)
      BY DEF FlowBalanced
    <3>3. \A k \in {"pool", "lent"} : moved(<<"usdo", k>>)
      BY <2>4
    <3>4. \A k \in {"debt", "charged"} : moved(<<"sgl", k>>)
      BY <2>4
    <3> QED BY ONLY <3>1, <3>2, <3>3, <3>4
  <2> QED BY <2>1, <2>2, <2>3 DEF FlowAccounted
<1> QED BY <1>1, <1>2, <1>4, FlowCollateralPlace DEF r

(* An approval moves nothing. *)
LEMMA FlowSetsKeeps ==
  ASSUME NEW l \in FlowLedgers, FlowAccounted(l), NEW a \in FlowApprovable, NEW n \in Nat
  PROVE  /\ Flow!After(l, Flow!Sets(a, n)) \in FlowLedgers
         /\ FlowAccounted(Flow!After(l, Flow!Sets(a, n)))
         /\ \A m \in Flow!Markets :
              Flow!After(l, Flow!Sets(a, n))[<<m, "collateral">>] = l[<<m, "collateral">>]
<1> DEFINE tx == Flow!Sets(a, n)
           r == Flow!After(l, tx)
<1>1. tx.sets = Flow!One(a, n) /\ tx.takes = Flow!None /\ tx.gives = Flow!None
  BY DEF Flow!Sets, Flow!Tx
<1>2. ASSUME NEW b \in Flow!Accounts PROVE r[b] = IF b = a THEN n ELSE l[b]
  <2>1. l[b] \in Nat
    BY DEF FlowLedgers
  <2> HIDE DEF tx
  <2>2. CASE b = a
    BY <1>1, <2>2 DEF Flow!After, Flow!One
  <2>3. CASE b # a
    BY <1>1, <2>1, <2>3, FlowAtNone DEF Flow!After, Flow!One
  <2> QED BY <2>2, <2>3
<1>3. r \in FlowLedgers
  BY <1>2 DEF FlowLedgers, Flow!After
<1> HIDE DEF r
<1>4. /\ \A m \in Flow!Markets : \A k \in FlowKinds :
           <<m, k>> # a
      /\ \A k \in {"wallet", "yb", "pool", "lent"} : <<"usdo", k>> # a
  BY DEF FlowApprovable, Flow!Markets, FlowKinds
<1>5. /\ \A m \in Flow!Markets : \A k \in FlowKinds :
           r[<<m, k>>] = l[<<m, k>>]
      /\ \A k \in {"wallet", "yb", "pool", "lent"} : r[<<"usdo", k>>] = l[<<"usdo", k>>]
  BY <1>2, <1>4, FlowPlaces
<1>6. FlowAccounted(r)
  BY <1>5, FlowPlaces DEF FlowAccounted, FlowKinds
<1> QED BY <1>3, <1>5, <1>6 DEF r, FlowKinds

(***************************************************************************)
(* What may be mined while the task runs.                                  *)
(***************************************************************************)
LEMMA FlowWithdrawBalanced ==
  ASSUME Flow!FlowAssumption, NEW n \in Nat
  PROVE  /\ FlowBalanced(Flow!withdraw(n))
         /\ \A m \in Flow!Markets : FlowMoves(Flow!withdraw(n), <<m, "collateral">>) = 0
<1> DEFINE tx == Flow!withdraw(n)
<1>1. /\ \A a : Flow!At(tx.takes, a) = IF a = <<"usdo", "yb">> THEN n ELSE 0
      /\ \A a : Flow!At(tx.gives, a) = IF a = <<"usdo", "wallet">> THEN n ELSE 0
      /\ DOMAIN tx.sets = {}
  BY FlowAtOne DEF Flow!withdraw, Flow!Tx, Flow!None
<1> HIDE DEF tx
<1>2. FlowBalanced(tx)
  <2>1. \A a \in Flow!Accounts : Flow!At(tx.takes, a) \in Nat /\ Flow!At(tx.gives, a) \in Nat
    BY <1>1
  <2>2. \A a : FlowMoves(tx, a) = (IF a = <<"usdo", "wallet">> THEN n ELSE 0)
                                   - (IF a = <<"usdo", "yb">> THEN n ELSE 0)
    BY <1>1 DEF FlowMoves
  <2>3. \A m \in Flow!Markets : \A k : FlowMoves(tx, <<m, k>>) = 0
    BY <2>2 DEF Flow!Markets
  <2>4. /\ FlowMoves(tx, <<"bb", "debt">>) = 0 /\ FlowMoves(tx, <<"sgl", "debt">>) = 0
        /\ FlowMoves(tx, <<"bb", "charged">>) = 0 /\ FlowMoves(tx, <<"sgl", "charged">>) = 0
        /\ FlowMoves(tx, <<"usdo", "wallet">>) = n /\ FlowMoves(tx, <<"usdo", "yb">>) = -n
        /\ FlowMoves(tx, <<"usdo", "pool">>) = 0 /\ FlowMoves(tx, <<"usdo", "lent">>) = 0
    BY <2>2
  <2> QED BY <1>1, <2>1, <2>3, <2>4 DEF FlowBalanced
<1>3. \A m \in Flow!Markets : FlowMoves(tx, <<m, "collateral">>) = 0
  BY <1>1 DEF FlowMoves, Flow!Markets
<1> QED BY <1>2, <1>3 DEF tx

LEMMA FlowPendingApply ==
  ASSUME Flow!FlowAssumption, NEW l, NEW x \in FlowLike(l), NEW tx \in FlowPending
  PROVE  Flow!Apply(x, tx) \in FlowLike(l)
<1>1. CASE ~Flow!Works(x, tx)
  BY <1>1 DEF Flow!Apply
<1>2. CASE Flow!Works(x, tx) /\ \E n \in {Full, Some} : tx = Flow!withdraw(n)
  <2>1. PICK n \in Nat : tx = Flow!withdraw(n)
    BY <1>2 DEF Flow!FlowAssumption
  <2>2. FlowBalanced(tx) /\ \A m \in Flow!Markets : FlowMoves(tx, <<m, "collateral">>) = 0
    BY <2>1, FlowWithdrawBalanced
  <2>3. x \in FlowLedgers /\ FlowAccounted(x)
    BY DEF FlowLike
  <2>4. /\ Flow!After(x, tx) \in FlowLedgers /\ FlowAccounted(Flow!After(x, tx))
        /\ \A m \in Flow!Markets :
             Flow!After(x, tx)[<<m, "collateral">>] =
               x[<<m, "collateral">>] + FlowMoves(tx, <<m, "collateral">>)
    BY <1>2, <2>2, <2>3, FlowBalancedKeeps
  <2>5. \A m \in Flow!Markets : x[<<m, "collateral">>] \in Nat
    BY <2>3, FlowCollateralPlace DEF FlowLedgers
  <2>6. Flow!Apply(x, tx) = Flow!After(x, tx)
    BY <1>2 DEF Flow!Apply
  <2> QED BY <2>2, <2>4, <2>5, <2>6 DEF FlowLike
<1>3. CASE Flow!Works(x, tx) /\ \E a \in FlowApprovable, n \in {1, Full, Some} : tx = Flow!Sets(a, n)
  <2>1. PICK a \in FlowApprovable, n \in Nat : tx = Flow!Sets(a, n)
    BY <1>3 DEF Flow!FlowAssumption
  <2>2. x \in FlowLedgers /\ FlowAccounted(x)
    BY DEF FlowLike
  <2>3. /\ Flow!After(x, tx) \in FlowLedgers /\ FlowAccounted(Flow!After(x, tx))
        /\ \A m \in Flow!Markets :
             Flow!After(x, tx)[<<m, "collateral">>] = x[<<m, "collateral">>]
    BY <2>1, <2>2, FlowSetsKeeps
  <2>4. Flow!Apply(x, tx) = Flow!After(x, tx)
    BY <1>3 DEF Flow!Apply
  <2> QED BY <2>3, <2>4 DEF FlowLike
<1> QED BY <1>1, <1>2, <1>3 DEF FlowPending

LEMMA FlowPendingMined ==
  ASSUME Flow!FlowAssumption, NEW l \in FlowLedgers, FlowAccounted(l),
         NEW txs \in Seq(FlowPending)
  PROVE  Flow!Mined(l, txs) \in FlowLike(l)
<1>1. l \in FlowLike(l)
  BY DEF FlowLike
<1>2. Len(txs) \in Nat /\ DOMAIN txs = 1 .. Len(txs)
  OBVIOUS
<1>3. ASSUME NEW x \in FlowLike(l), NEW i \in 1 .. Len(txs)
      PROVE  Flow!Apply(x, txs[i]) \in FlowLike(l)
  <2>1. txs[i] \in FlowPending
    OBVIOUS
  <2> QED BY <2>1, FlowPendingApply
<1> QED BY <1>1, <1>2, <1>3, FlowMinedClosed, Zenon

LEMMA FlowFreeMintBalanced ==
  ASSUME Flow!FlowAssumption, NEW m \in Flow!Markets
  PROVE  /\ FlowBalanced(Flow!freeMint(m))
         /\ \A k \in Flow!Markets :
              FlowMoves(Flow!freeMint(m), <<k, "collateral">>) = 0
<1> DEFINE tx == Flow!freeMint(m)
<1>1. /\ \A a : Flow!At(tx.takes, a) = 0
      /\ \A a : Flow!At(tx.gives, a) = (IF a = <<m, "token">> THEN MintLimit ELSE 0)
                                       + (IF a = <<m, "minted">> THEN MintLimit ELSE 0)
      /\ DOMAIN tx.sets = {}
  BY FlowAtOne, FlowAtBoth, FlowAtNone DEF Flow!freeMint, Flow!Tx, Flow!None
<1> HIDE DEF tx
<1>2. MintLimit \in Nat
  BY DEF Flow!FlowAssumption
<1>3. \A a : FlowMoves(tx, a) =
        ((IF a = <<m, "token">> THEN MintLimit ELSE 0)
           + (IF a = <<m, "minted">> THEN MintLimit ELSE 0))
          - (0)
  BY <1>1 DEF FlowMoves
<1>4. \A k \in Flow!Markets :
         /\ FlowMoves(tx, <<k, "minted">>) = (IF k = m THEN MintLimit ELSE 0)
         /\ FlowMoves(tx, <<k, "token">>) = (IF k = m THEN MintLimit ELSE 0)
         /\ FlowMoves(tx, <<k, "toft">>) = 0
         /\ FlowMoves(tx, <<k, "yb">>) = 0
         /\ FlowMoves(tx, <<k, "collateral">>) = 0
         /\ FlowMoves(tx, <<k, "debt">>) = 0
         /\ FlowMoves(tx, <<k, "charged">>) = 0
  BY <1>2, <1>3 DEF Flow!Markets
<1>5. /\ FlowMoves(tx, <<"usdo", "wallet">>) = 0
      /\ FlowMoves(tx, <<"usdo", "yb">>) = 0
      /\ FlowMoves(tx, <<"usdo", "pool">>) = 0
      /\ FlowMoves(tx, <<"usdo", "lent">>) = 0
  BY <1>2, <1>3 DEF Flow!Markets
<1>6. FlowBalanced(tx)
  BY <1>1, <1>2, <1>4, <1>5, FlowPlaces DEF FlowBalanced, Flow!Markets
<1> QED BY <1>2, <1>4, <1>6 DEF tx

LEMMA FlowWrapBalanced ==
  ASSUME Flow!FlowAssumption, NEW m \in Flow!Markets
  PROVE  /\ FlowBalanced(Flow!wrap(m))
         /\ \A k \in Flow!Markets :
              FlowMoves(Flow!wrap(m), <<k, "collateral">>) = 0
<1> DEFINE tx == Flow!wrap(m)
<1>1. /\ \A a : Flow!At(tx.takes, a) = (IF a = <<m, "token">> THEN Full ELSE 0)
                                       + (IF a = <<m, "wrapAllowance">> THEN Full ELSE 0)
      /\ \A a : Flow!At(tx.gives, a) = (IF a = <<m, "toft">> THEN Full ELSE 0)
      /\ DOMAIN tx.sets = {}
  BY FlowAtOne, FlowAtBoth, FlowAtNone DEF Flow!wrap, Flow!Tx, Flow!None
<1> HIDE DEF tx
<1>2. Full \in Nat
  BY DEF Flow!FlowAssumption
<1>3. \A a : FlowMoves(tx, a) =
        ((IF a = <<m, "toft">> THEN Full ELSE 0))
          - ((IF a = <<m, "token">> THEN Full ELSE 0)
               + (IF a = <<m, "wrapAllowance">> THEN Full ELSE 0))
  BY <1>1 DEF FlowMoves
<1>4. \A k \in Flow!Markets :
         /\ FlowMoves(tx, <<k, "minted">>) = 0
         /\ FlowMoves(tx, <<k, "token">>) = 0 - (IF k = m THEN Full ELSE 0)
         /\ FlowMoves(tx, <<k, "toft">>) = (IF k = m THEN Full ELSE 0)
         /\ FlowMoves(tx, <<k, "yb">>) = 0
         /\ FlowMoves(tx, <<k, "collateral">>) = 0
         /\ FlowMoves(tx, <<k, "debt">>) = 0
         /\ FlowMoves(tx, <<k, "charged">>) = 0
  BY <1>2, <1>3 DEF Flow!Markets
<1>5. /\ FlowMoves(tx, <<"usdo", "wallet">>) = 0
      /\ FlowMoves(tx, <<"usdo", "yb">>) = 0
      /\ FlowMoves(tx, <<"usdo", "pool">>) = 0
      /\ FlowMoves(tx, <<"usdo", "lent">>) = 0
  BY <1>2, <1>3 DEF Flow!Markets
<1>6. FlowBalanced(tx)
  BY <1>1, <1>2, <1>4, <1>5, FlowPlaces DEF FlowBalanced, Flow!Markets
<1> QED BY <1>2, <1>4, <1>6 DEF tx

LEMMA FlowDepositBalanced ==
  ASSUME Flow!FlowAssumption, NEW m \in Flow!Markets
  PROVE  /\ FlowBalanced(Flow!depositCollateral(m))
         /\ \A k \in Flow!Markets :
              FlowMoves(Flow!depositCollateral(m), <<k, "collateral">>) = 0
<1> DEFINE tx == Flow!depositCollateral(m)
<1>1. /\ \A a : Flow!At(tx.takes, a) = (IF a = <<m, "toft">> THEN Full ELSE 0)
                                       + (IF a = <<m, "ybAllowance">> THEN Full ELSE 0)
      /\ \A a : Flow!At(tx.gives, a) = (IF a = <<m, "yb">> THEN Full ELSE 0)
      /\ DOMAIN tx.sets = {}
  BY FlowAtOne, FlowAtBoth, FlowAtNone DEF Flow!depositCollateral, Flow!Tx, Flow!None
<1> HIDE DEF tx
<1>2. Full \in Nat
  BY DEF Flow!FlowAssumption
<1>3. \A a : FlowMoves(tx, a) =
        ((IF a = <<m, "yb">> THEN Full ELSE 0))
          - ((IF a = <<m, "toft">> THEN Full ELSE 0)
               + (IF a = <<m, "ybAllowance">> THEN Full ELSE 0))
  BY <1>1 DEF FlowMoves
<1>4. \A k \in Flow!Markets :
         /\ FlowMoves(tx, <<k, "minted">>) = 0
         /\ FlowMoves(tx, <<k, "token">>) = 0
         /\ FlowMoves(tx, <<k, "toft">>) = 0 - (IF k = m THEN Full ELSE 0)
         /\ FlowMoves(tx, <<k, "yb">>) = (IF k = m THEN Full ELSE 0)
         /\ FlowMoves(tx, <<k, "collateral">>) = 0
         /\ FlowMoves(tx, <<k, "debt">>) = 0
         /\ FlowMoves(tx, <<k, "charged">>) = 0
  BY <1>2, <1>3 DEF Flow!Markets
<1>5. /\ FlowMoves(tx, <<"usdo", "wallet">>) = 0
      /\ FlowMoves(tx, <<"usdo", "yb">>) = 0
      /\ FlowMoves(tx, <<"usdo", "pool">>) = 0
      /\ FlowMoves(tx, <<"usdo", "lent">>) = 0
  BY <1>2, <1>3 DEF Flow!Markets
<1>6. FlowBalanced(tx)
  BY <1>1, <1>2, <1>4, <1>5, FlowPlaces DEF FlowBalanced, Flow!Markets
<1> QED BY <1>2, <1>4, <1>6 DEF tx

LEMMA FlowAddBalanced ==
  ASSUME Flow!FlowAssumption, NEW m \in Flow!Markets
  PROVE  /\ FlowBalanced(Flow!addCollateral(m))
         /\ \A k \in Flow!Markets :
              FlowMoves(Flow!addCollateral(m), <<k, "collateral">>) = IF k = m THEN Full ELSE 0
<1> DEFINE tx == Flow!addCollateral(m)
<1>1. /\ \A a : Flow!At(tx.takes, a) = (IF a = <<m, "yb">> THEN Full ELSE 0)
                                       + (IF a = <<m, "operator">> THEN 1 ELSE 0)
      /\ \A a : Flow!At(tx.gives, a) = (IF a = <<m, "collateral">> THEN Full ELSE 0)
                                       + (IF a = <<m, "operator">> THEN 1 ELSE 0)
      /\ DOMAIN tx.sets = {}
  BY FlowAtOne, FlowAtBoth, FlowAtNone DEF Flow!addCollateral, Flow!Tx, Flow!None
<1> HIDE DEF tx
<1>2. Full \in Nat
  BY DEF Flow!FlowAssumption
<1>3. \A a : FlowMoves(tx, a) =
        ((IF a = <<m, "collateral">> THEN Full ELSE 0)
           + (IF a = <<m, "operator">> THEN 1 ELSE 0))
          - ((IF a = <<m, "yb">> THEN Full ELSE 0)
               + (IF a = <<m, "operator">> THEN 1 ELSE 0))
  BY <1>1 DEF FlowMoves
<1>4. \A k \in Flow!Markets :
         /\ FlowMoves(tx, <<k, "minted">>) = 0
         /\ FlowMoves(tx, <<k, "token">>) = 0
         /\ FlowMoves(tx, <<k, "toft">>) = 0
         /\ FlowMoves(tx, <<k, "yb">>) = 0 - (IF k = m THEN Full ELSE 0)
         /\ FlowMoves(tx, <<k, "collateral">>) = (IF k = m THEN Full ELSE 0)
         /\ FlowMoves(tx, <<k, "debt">>) = 0
         /\ FlowMoves(tx, <<k, "charged">>) = 0
  BY <1>2, <1>3 DEF Flow!Markets
<1>5. /\ FlowMoves(tx, <<"usdo", "wallet">>) = 0
      /\ FlowMoves(tx, <<"usdo", "yb">>) = 0
      /\ FlowMoves(tx, <<"usdo", "pool">>) = 0
      /\ FlowMoves(tx, <<"usdo", "lent">>) = 0
  BY <1>2, <1>3 DEF Flow!Markets
<1>6. FlowBalanced(tx)
  <2>1. \A a \in Flow!Accounts : Flow!At(tx.takes, a) \in Nat /\ Flow!At(tx.gives, a) \in Nat
    BY <1>1, <1>2
  <2>2. ASSUME NEW k \in Flow!Markets
        PROVE  FlowMoves(tx, <<k, "minted">>) =
                 FlowMoves(tx, <<k, "token">>) + FlowMoves(tx, <<k, "toft">>)
                   + FlowMoves(tx, <<k, "yb">>) + FlowMoves(tx, <<k, "collateral">>)
    <3> DEFINE moved(kind) == FlowMoves(tx, <<k, kind>>)
    <3>1. CASE k = m
      <4>1. /\ moved("minted") = 0 /\ moved("token") = 0 /\ moved("toft") = 0
            /\ moved("yb") = 0 - Full /\ moved("collateral") = Full
        BY <1>4, <3>1
      <4> HIDE DEF moved
      <4>2. moved("minted") = moved("token") + moved("toft") + moved("yb") + moved("collateral")
        BY <1>2, <4>1
      <4> QED BY <4>2 DEF moved
    <3>2. CASE k # m
      <4>1. /\ moved("minted") = 0 /\ moved("token") = 0 /\ moved("toft") = 0
            /\ moved("yb") = 0 - 0 /\ moved("collateral") = 0
        BY <1>4, <3>2
      <4> HIDE DEF moved
      <4>2. moved("minted") = moved("token") + moved("toft") + moved("yb") + moved("collateral")
        BY <4>1
      <4> QED BY <4>2 DEF moved
    <3> QED BY <3>1, <3>2
  <2>3. /\ FlowMoves(tx, <<"bb", "debt">>) = 0 /\ FlowMoves(tx, <<"sgl", "debt">>) = 0
        /\ FlowMoves(tx, <<"bb", "charged">>) = 0 /\ FlowMoves(tx, <<"sgl", "charged">>) = 0
    BY <1>4, FlowPlaces
  <2> QED BY <1>1, <1>5, <2>1, <2>2, <2>3 DEF FlowBalanced
<1> QED BY <1>2, <1>4, <1>6 DEF tx

(***************************************************************************)
(* Loans and repayments.  What a market charges, and the parts it counts   *)
(* them in, are numbers of its own.                                        *)
(***************************************************************************)
LEMMA FlowCeilNat ==
  ASSUME NEW a \in Nat, NEW b \in Nat, b # 0
  PROVE  Flow!CeilDiv(a, b) \in Nat
<1>1. a \div b \in Nat
  BY FloorDiv
<1> QED BY <1>1 DEF Flow!CeilDiv

LEMMA FlowRoundedNat ==
  ASSUME NEW e \in Nat, NEW b \in Nat, NEW n \in Nat, NEW t, t.elastic = e, t.base = b
  PROVE  Flow!ToBase(t, n, TRUE) \in Nat /\ Flow!ToElastic(t, n, TRUE) \in Nat
<1>1. n * b \in Nat /\ n * e \in Nat
  OBVIOUS
<1>2. Flow!ToBase(t, n, TRUE) = IF e = 0 THEN n ELSE Flow!CeilDiv(n * b, e)
  BY DEF Flow!ToBase, Flow!RoundedDiv
<1>3. Flow!ToElastic(t, n, TRUE) = IF b = 0 THEN n ELSE Flow!CeilDiv(n * e, b)
  BY DEF Flow!ToElastic, Flow!RoundedDiv
<1>4. e # 0 => Flow!CeilDiv(n * b, e) \in Nat
  BY <1>1, FlowCeilNat
<1>5. b # 0 => Flow!CeilDiv(n * e, b) \in Nat
  BY <1>1, FlowCeilNat
<1> QED BY <1>2, <1>3, <1>4, <1>5

FlowParts(m) == Flow!ToBase(Flow!TotalBorrow(m), Flow!Borrowed(m) + fees[m], TRUE)
FlowCost == Flow!ToElastic(Flow!TotalBorrow("sgl"), Flow!Repaid, TRUE)

LEMMA FlowDebts ==
  ASSUME ledger \in FlowLedgers, NEW m \in Flow!Markets
  PROVE  ledger[<<m, "debt">>] \in Nat /\ ledger[<<m, "part">>] \in Nat
  BY FlowPlaces DEF FlowLedgers, FlowKinds

LEMMA FlowLoanNat ==
  ASSUME Flow!FlowAssumption, ledger \in FlowLedgers, fees \in Fees, NEW m \in Flow!Markets
  PROVE  /\ Full \in Nat /\ Some \in Nat /\ Flow!Borrowed(m) \in Nat
         /\ fees[m] \in Nat /\ FlowParts(m) \in Nat
<1>1. Full \in Nat /\ Some \in Nat /\ Flow!Borrowed(m) \in Nat
  BY DEF Flow!FlowAssumption, Flow!Borrowed
<1>2. fees[m] \in Nat
  BY DEF Flow!FlowAssumption
<1>3. Flow!Borrowed(m) + fees[m] \in Nat
  BY <1>1, <1>2
<1>4. /\ Flow!TotalBorrow(m).elastic = ledger[<<m, "debt">>]
      /\ Flow!TotalBorrow(m).base = ledger[<<m, "part">>]
  BY DEF Flow!TotalBorrow
<1>5. ledger[<<m, "debt">>] \in Nat /\ ledger[<<m, "part">>] \in Nat
  BY FlowDebts
<1>6. FlowParts(m) \in Nat
  BY <1>3, <1>4, <1>5, FlowRoundedNat DEF FlowParts
<1> QED BY <1>1, <1>2, <1>6

LEMMA FlowCostNat ==
  ASSUME Flow!FlowAssumption, ledger \in FlowLedgers
  PROVE  Flow!Repaid \in Nat /\ FlowCost \in Nat
<1>1. ledger[<<"sgl", "debt">>] \in Nat /\ ledger[<<"sgl", "part">>] \in Nat
  BY FlowDebts, FlowPlaces
<1>2. Some \div 2 \in Nat
  BY DEF Flow!FlowAssumption
<1>3. Flow!Repaid \in Nat
  BY <1>1, <1>2 DEF Flow!Repaid
<1>4. /\ Flow!TotalBorrow("sgl").elastic = ledger[<<"sgl", "debt">>]
      /\ Flow!TotalBorrow("sgl").base = ledger[<<"sgl", "part">>]
  BY DEF Flow!TotalBorrow
<1> QED BY <1>1, <1>3, <1>4, FlowRoundedNat DEF FlowCost

LEMMA FlowLoanAt ==
  ASSUME NEW m, NEW takes, NEW gives
  PROVE  /\ \A a : Flow!At(Flow!loan(m, takes, gives).takes, a) =
                     Flow!At(takes, a)
                       + Flow!At(IF m = "bb" THEN Flow!None
                                 ELSE Flow!One(<<"usdo", "pool">>, Some), a)
         /\ \A a : Flow!At(Flow!loan(m, takes, gives).gives, a) =
                     Flow!At(gives, a)
                       + (((IF a = <<m, "debt">> THEN Flow!Borrowed(m) + fees[m] ELSE 0)
                            + (IF a = <<m, "charged">> THEN fees[m] ELSE 0))
                          + (IF a = <<m, "part">> THEN FlowParts(m) ELSE 0))
         /\ DOMAIN Flow!loan(m, takes, gives).sets = {}
<1> DEFINE owed == Flow!Borrowed(m) + fees[m]
           lent == IF m = "bb" THEN Flow!None ELSE Flow!One(<<"usdo", "pool">>, Some)
           owes == Flow!One(<<m, "debt">>, owed)
           charged == Flow!One(<<m, "charged">>, fees[m])
           part == Flow!One(<<m, "part">>, FlowParts(m))
<1>1. /\ Flow!loan(m, takes, gives).takes = Flow!Both(takes, lent)
      /\ Flow!loan(m, takes, gives).gives =
           Flow!Both(gives, Flow!Both(Flow!Both(owes, charged), part))
      /\ DOMAIN Flow!loan(m, takes, gives).sets = {}
  BY DEF Flow!loan, Flow!Tx, Flow!None, FlowParts
<1>2. \A a : /\ Flow!At(owes, a) = IF a = <<m, "debt">> THEN owed ELSE 0
             /\ Flow!At(charged, a) = IF a = <<m, "charged">> THEN fees[m] ELSE 0
             /\ Flow!At(part, a) = IF a = <<m, "part">> THEN FlowParts(m) ELSE 0
  BY FlowAtOne
<1> HIDE DEF lent, owes, charged, part
<1>3. \A a : Flow!At(Flow!Both(takes, lent), a) = Flow!At(takes, a) + Flow!At(lent, a)
  BY FlowAtBoth
<1>4. \A a : Flow!At(Flow!Both(gives, Flow!Both(Flow!Both(owes, charged), part)), a) =
               Flow!At(gives, a)
                 + ((Flow!At(owes, a) + Flow!At(charged, a)) + Flow!At(part, a))
  BY FlowAtBoth
<1> QED BY <1>1, <1>2, <1>3, <1>4 DEF lent

LEMMA FlowBorrowBigBangBalanced ==
  ASSUME Flow!FlowAssumption, ledger \in FlowLedgers, fees \in Fees
  PROVE  /\ FlowBalanced(Flow!borrow("bb"))
         /\ \A k \in Flow!Markets :
              FlowMoves(Flow!borrow("bb"), <<k, "collateral">>) = 0
<1> DEFINE tx == Flow!borrow("bb")
           takes == Flow!None
           gives == Flow!One(<<"usdo", "yb">>, Full)
           fee == fees["bb"]
           part == FlowParts("bb")
<1>1. Full \in Nat /\ Some \in Nat /\ fee \in Nat /\ part \in Nat
  BY FlowLoanNat, FlowPlaces
<1>2. tx = Flow!loan("bb", takes, gives) /\ Flow!Borrowed("bb") = Full
  BY DEF Flow!borrow, Flow!Borrowed
<1>3. \A a : Flow!At(takes, a) = 0
  BY <1>1, FlowAtOne, FlowAtBoth, FlowAtNone
<1>4. \A a : Flow!At(gives, a) = (IF a = <<"usdo", "yb">> THEN Full ELSE 0)
  BY <1>1, FlowAtOne, FlowAtBoth
<1> HIDE DEF tx, takes, gives, fee, part
<1>5. \A a : Flow!At(tx.takes, a) =
              0
  BY <1>1, <1>2, <1>3, FlowLoanAt, FlowAtOne, FlowAtNone
<1>6. \A a : Flow!At(tx.gives, a) =
              (IF a = <<"usdo", "yb">> THEN Full ELSE 0)
              + (IF a = <<"bb", "debt">> THEN Full + fee ELSE 0)
              + (IF a = <<"bb", "charged">> THEN fee ELSE 0)
              + (IF a = <<"bb", "part">> THEN part ELSE 0)
  BY <1>1, <1>2, <1>4, FlowLoanAt DEF fee, part
<1>7. DOMAIN tx.sets = {}
  BY <1>2, FlowLoanAt
<1>8. \A a : FlowMoves(tx, a) =
        ((IF a = <<"usdo", "yb">> THEN Full ELSE 0)
         + (IF a = <<"bb", "debt">> THEN Full + fee ELSE 0)
         + (IF a = <<"bb", "charged">> THEN fee ELSE 0)
         + (IF a = <<"bb", "part">> THEN part ELSE 0))
          - (0)
  BY <1>5, <1>6 DEF FlowMoves
<1>9. \A k \in Flow!Markets :
         /\ FlowMoves(tx, <<k, "minted">>) = 0
         /\ FlowMoves(tx, <<k, "token">>) = 0
         /\ FlowMoves(tx, <<k, "toft">>) = 0
         /\ FlowMoves(tx, <<k, "yb">>) = 0
         /\ FlowMoves(tx, <<k, "collateral">>) = 0
         /\ FlowMoves(tx, <<k, "debt">>) = (IF k = "bb" THEN Full + fee ELSE 0)
         /\ FlowMoves(tx, <<k, "charged">>) = (IF k = "bb" THEN fee ELSE 0)
  BY <1>1, <1>8 DEF Flow!Markets
<1>10. /\ FlowMoves(tx, <<"usdo", "wallet">>) = 0
       /\ FlowMoves(tx, <<"usdo", "yb">>) = Full
       /\ FlowMoves(tx, <<"usdo", "pool">>) = 0
       /\ FlowMoves(tx, <<"usdo", "lent">>) = 0
  BY <1>1, <1>8
<1>11. \A a \in Flow!Accounts : Flow!At(tx.takes, a) \in Nat /\ Flow!At(tx.gives, a) \in Nat
  BY <1>1, <1>5, <1>6
<1>12. FlowBalanced(tx)
  BY <1>1, <1>7, <1>9, <1>10, <1>11, FlowPlaces DEF FlowBalanced, Flow!Markets
<1> QED BY <1>1, <1>9, <1>12 DEF tx

LEMMA FlowBorrowSingularityBalanced ==
  ASSUME Flow!FlowAssumption, ledger \in FlowLedgers, fees \in Fees
  PROVE  /\ FlowBalanced(Flow!borrow("sgl"))
         /\ \A k \in Flow!Markets :
              FlowMoves(Flow!borrow("sgl"), <<k, "collateral">>) = 0
<1> DEFINE tx == Flow!borrow("sgl")
           takes == Flow!None
           gives == Flow!One(<<"usdo", "yb">>, Some)
           fee == fees["sgl"]
           part == FlowParts("sgl")
<1>1. Full \in Nat /\ Some \in Nat /\ fee \in Nat /\ part \in Nat
  BY FlowLoanNat, FlowPlaces
<1>2. tx = Flow!loan("sgl", takes, gives) /\ Flow!Borrowed("sgl") = Some
  BY DEF Flow!borrow, Flow!Borrowed
<1>3. \A a : Flow!At(takes, a) = 0
  BY <1>1, FlowAtOne, FlowAtBoth, FlowAtNone
<1>4. \A a : Flow!At(gives, a) = (IF a = <<"usdo", "yb">> THEN Some ELSE 0)
  BY <1>1, FlowAtOne, FlowAtBoth
<1> HIDE DEF tx, takes, gives, fee, part
<1>5. \A a : Flow!At(tx.takes, a) =
              (IF a = <<"usdo", "pool">> THEN Some ELSE 0)
  BY <1>1, <1>2, <1>3, FlowLoanAt, FlowAtOne, FlowAtNone
<1>6. \A a : Flow!At(tx.gives, a) =
              (IF a = <<"usdo", "yb">> THEN Some ELSE 0)
              + (IF a = <<"sgl", "debt">> THEN Some + fee ELSE 0)
              + (IF a = <<"sgl", "charged">> THEN fee ELSE 0)
              + (IF a = <<"sgl", "part">> THEN part ELSE 0)
  BY <1>1, <1>2, <1>4, FlowLoanAt DEF fee, part
<1>7. DOMAIN tx.sets = {}
  BY <1>2, FlowLoanAt
<1>8. \A a : FlowMoves(tx, a) =
        ((IF a = <<"usdo", "yb">> THEN Some ELSE 0)
         + (IF a = <<"sgl", "debt">> THEN Some + fee ELSE 0)
         + (IF a = <<"sgl", "charged">> THEN fee ELSE 0)
         + (IF a = <<"sgl", "part">> THEN part ELSE 0))
          - ((IF a = <<"usdo", "pool">> THEN Some ELSE 0))
  BY <1>5, <1>6 DEF FlowMoves
<1>9. \A k \in Flow!Markets :
         /\ FlowMoves(tx, <<k, "minted">>) = 0
         /\ FlowMoves(tx, <<k, "token">>) = 0
         /\ FlowMoves(tx, <<k, "toft">>) = 0
         /\ FlowMoves(tx, <<k, "yb">>) = 0
         /\ FlowMoves(tx, <<k, "collateral">>) = 0
         /\ FlowMoves(tx, <<k, "debt">>) = (IF k = "sgl" THEN Some + fee ELSE 0)
         /\ FlowMoves(tx, <<k, "charged">>) = (IF k = "sgl" THEN fee ELSE 0)
  BY <1>1, <1>8 DEF Flow!Markets
<1>10. /\ FlowMoves(tx, <<"usdo", "wallet">>) = 0
       /\ FlowMoves(tx, <<"usdo", "yb">>) = Some
       /\ FlowMoves(tx, <<"usdo", "pool">>) = 0 - Some
       /\ FlowMoves(tx, <<"usdo", "lent">>) = 0
  BY <1>1, <1>8
<1>11. \A a \in Flow!Accounts : Flow!At(tx.takes, a) \in Nat /\ Flow!At(tx.gives, a) \in Nat
  BY <1>1, <1>5, <1>6
<1>12. FlowBalanced(tx)
  BY <1>1, <1>7, <1>9, <1>10, <1>11, FlowPlaces DEF FlowBalanced, Flow!Markets
<1> QED BY <1>1, <1>9, <1>12 DEF tx

LEMMA FlowDepositUsdoBalanced ==
  ASSUME Flow!FlowAssumption, NEW n \in Nat
  PROVE  /\ FlowBalanced(Flow!depositUsdo(n))
         /\ \A k \in Flow!Markets :
              FlowMoves(Flow!depositUsdo(n), <<k, "collateral">>) = 0
<1> DEFINE tx == Flow!depositUsdo(n)
<1>1. /\ \A a : Flow!At(tx.takes, a) = (IF a = <<"usdo", "wallet">> THEN n ELSE 0)
                                       + (IF a = <<"usdo", "ybAllowance">> THEN n ELSE 0)
      /\ \A a : Flow!At(tx.gives, a) = (IF a = <<"usdo", "yb">> THEN n ELSE 0)
      /\ DOMAIN tx.sets = {}
  BY FlowAtOne, FlowAtBoth, FlowAtNone DEF Flow!depositUsdo, Flow!Tx, Flow!None
<1> HIDE DEF tx
<1>2. n \in Nat
  BY DEF Flow!FlowAssumption
<1>3. \A a : FlowMoves(tx, a) =
        ((IF a = <<"usdo", "yb">> THEN n ELSE 0))
          - ((IF a = <<"usdo", "wallet">> THEN n ELSE 0)
               + (IF a = <<"usdo", "ybAllowance">> THEN n ELSE 0))
  BY <1>1 DEF FlowMoves
<1>4. \A k \in Flow!Markets :
         /\ FlowMoves(tx, <<k, "minted">>) = 0
         /\ FlowMoves(tx, <<k, "token">>) = 0
         /\ FlowMoves(tx, <<k, "toft">>) = 0
         /\ FlowMoves(tx, <<k, "yb">>) = 0
         /\ FlowMoves(tx, <<k, "collateral">>) = 0
         /\ FlowMoves(tx, <<k, "debt">>) = 0
         /\ FlowMoves(tx, <<k, "charged">>) = 0
  BY <1>2, <1>3 DEF Flow!Markets
<1>5. /\ FlowMoves(tx, <<"usdo", "wallet">>) = 0 - n
      /\ FlowMoves(tx, <<"usdo", "yb">>) = n
      /\ FlowMoves(tx, <<"usdo", "pool">>) = 0
      /\ FlowMoves(tx, <<"usdo", "lent">>) = 0
  BY <1>2, <1>3
<1>6. FlowBalanced(tx)
  BY <1>1, <1>2, <1>4, <1>5, FlowPlaces DEF FlowBalanced, Flow!Markets
<1> QED BY <1>2, <1>4, <1>6 DEF tx

LEMMA FlowAddAssetBalanced ==
  ASSUME Flow!FlowAssumption
  PROVE  /\ FlowBalanced(Flow!addAsset)
         /\ \A k \in Flow!Markets :
              FlowMoves(Flow!addAsset, <<k, "collateral">>) = 0
<1> DEFINE tx == Flow!addAsset
<1>1. /\ \A a : Flow!At(tx.takes, a) = (IF a = <<"usdo", "yb">> THEN Full ELSE 0)
                                       + (IF a = <<"sgl", "operator">> THEN 1 ELSE 0)
      /\ \A a : Flow!At(tx.gives, a) = (IF a = <<"usdo", "pool">> THEN Full ELSE 0)
                                       + (IF a = <<"usdo", "lent">> THEN Full ELSE 0)
                                       + (IF a = <<"sgl", "operator">> THEN 1 ELSE 0)
      /\ DOMAIN tx.sets = {}
  BY FlowAtOne, FlowAtBoth, FlowAtNone DEF Flow!addAsset, Flow!Tx, Flow!None
<1> HIDE DEF tx
<1>2. Full \in Nat
  BY DEF Flow!FlowAssumption
<1>3. \A a : FlowMoves(tx, a) =
        ((IF a = <<"usdo", "pool">> THEN Full ELSE 0)
           + (IF a = <<"usdo", "lent">> THEN Full ELSE 0)
           + (IF a = <<"sgl", "operator">> THEN 1 ELSE 0))
          - ((IF a = <<"usdo", "yb">> THEN Full ELSE 0)
               + (IF a = <<"sgl", "operator">> THEN 1 ELSE 0))
  BY <1>1 DEF FlowMoves
<1>4. \A k \in Flow!Markets :
         /\ FlowMoves(tx, <<k, "minted">>) = 0
         /\ FlowMoves(tx, <<k, "token">>) = 0
         /\ FlowMoves(tx, <<k, "toft">>) = 0
         /\ FlowMoves(tx, <<k, "yb">>) = 0
         /\ FlowMoves(tx, <<k, "collateral">>) = 0
         /\ FlowMoves(tx, <<k, "debt">>) = 0
         /\ FlowMoves(tx, <<k, "charged">>) = 0
  BY <1>2, <1>3 DEF Flow!Markets
<1>5. /\ FlowMoves(tx, <<"usdo", "wallet">>) = 0
      /\ FlowMoves(tx, <<"usdo", "yb">>) = 0 - Full
      /\ FlowMoves(tx, <<"usdo", "pool">>) = Full
      /\ FlowMoves(tx, <<"usdo", "lent">>) = Full
  BY <1>2, <1>3
<1>6. FlowBalanced(tx)
  BY <1>1, <1>2, <1>4, <1>5, FlowPlaces DEF FlowBalanced, Flow!Markets
<1> QED BY <1>2, <1>4, <1>6 DEF tx

LEMMA FlowBurstLendBalanced ==
  ASSUME Flow!FlowAssumption
  PROVE  /\ FlowBalanced(Flow!burstLend)
         /\ \A k \in Flow!Markets :
              FlowMoves(Flow!burstLend, <<k, "collateral">>) = 0
<1> DEFINE tx == Flow!burstLend
<1>1. /\ \A a : Flow!At(tx.takes, a) = (IF a = <<"usdo", "wallet">> THEN Full ELSE 0)
                                       + (IF a = <<"usdo", "ybAllowance">> THEN Full ELSE 0)
      /\ \A a : Flow!At(tx.gives, a) = (IF a = <<"usdo", "pool">> THEN Full ELSE 0)
                                       + (IF a = <<"usdo", "lent">> THEN Full ELSE 0)
      /\ DOMAIN tx.sets = {}
  BY FlowAtOne, FlowAtBoth, FlowAtNone DEF Flow!burstLend, Flow!Tx, Flow!None
<1> HIDE DEF tx
<1>2. Full \in Nat
  BY DEF Flow!FlowAssumption
<1>3. \A a : FlowMoves(tx, a) =
        ((IF a = <<"usdo", "pool">> THEN Full ELSE 0)
           + (IF a = <<"usdo", "lent">> THEN Full ELSE 0))
          - ((IF a = <<"usdo", "wallet">> THEN Full ELSE 0)
               + (IF a = <<"usdo", "ybAllowance">> THEN Full ELSE 0))
  BY <1>1 DEF FlowMoves
<1>4. \A k \in Flow!Markets :
         /\ FlowMoves(tx, <<k, "minted">>) = 0
         /\ FlowMoves(tx, <<k, "token">>) = 0
         /\ FlowMoves(tx, <<k, "toft">>) = 0
         /\ FlowMoves(tx, <<k, "yb">>) = 0
         /\ FlowMoves(tx, <<k, "collateral">>) = 0
         /\ FlowMoves(tx, <<k, "debt">>) = 0
         /\ FlowMoves(tx, <<k, "charged">>) = 0
  BY <1>2, <1>3 DEF Flow!Markets
<1>5. /\ FlowMoves(tx, <<"usdo", "wallet">>) = 0 - Full
      /\ FlowMoves(tx, <<"usdo", "yb">>) = 0
      /\ FlowMoves(tx, <<"usdo", "pool">>) = Full
      /\ FlowMoves(tx, <<"usdo", "lent">>) = Full
  BY <1>2, <1>3
<1>6. FlowBalanced(tx)
  BY <1>1, <1>2, <1>4, <1>5, FlowPlaces DEF FlowBalanced, Flow!Markets
<1> QED BY <1>2, <1>4, <1>6 DEF tx

LEMMA FlowBurstBigBangBalanced ==
  ASSUME Flow!FlowAssumption, ledger \in FlowLedgers, fees \in Fees
  PROVE  /\ FlowBalanced(Flow!burstBorrow("bb"))
         /\ \A k \in Flow!Markets :
              FlowMoves(Flow!burstBorrow("bb"), <<k, "collateral">>) = IF k = "bb" THEN Full ELSE 0
<1> DEFINE tx == Flow!burstBorrow("bb")
           takes == Flow!Both(Flow!Both(Flow!One(<<"bb", "token">>, Full), Flow!One(<<"bb", "wrapAllowance">>, Full)),
                            Flow!One(<<"bb", "ybAllowance">>, Full))
           gives == Flow!Both(Flow!One(<<"bb", "collateral">>, Full), Flow!One(<<"usdo", "wallet">>, Full))
           fee == fees["bb"]
           part == FlowParts("bb")
<1>1. Full \in Nat /\ Some \in Nat /\ fee \in Nat /\ part \in Nat
  BY FlowLoanNat, FlowPlaces
<1>2. tx = Flow!loan("bb", takes, gives) /\ Flow!Borrowed("bb") = Full
  BY DEF Flow!burstBorrow, Flow!Borrowed
<1>3. \A a : Flow!At(takes, a) = (IF a = <<"bb", "token">> THEN Full ELSE 0)
                              + (IF a = <<"bb", "wrapAllowance">> THEN Full ELSE 0)
                              + (IF a = <<"bb", "ybAllowance">> THEN Full ELSE 0)
  BY <1>1, FlowAtOne, FlowAtBoth, FlowAtNone
<1>4. \A a : Flow!At(gives, a) = (IF a = <<"bb", "collateral">> THEN Full ELSE 0)
                              + (IF a = <<"usdo", "wallet">> THEN Full ELSE 0)
  BY <1>1, FlowAtOne, FlowAtBoth
<1> HIDE DEF tx, takes, gives, fee, part
<1>5. \A a : Flow!At(tx.takes, a) =
              (IF a = <<"bb", "token">> THEN Full ELSE 0)
              + (IF a = <<"bb", "wrapAllowance">> THEN Full ELSE 0)
              + (IF a = <<"bb", "ybAllowance">> THEN Full ELSE 0)
  BY <1>1, <1>2, <1>3, FlowLoanAt, FlowAtOne, FlowAtNone
<1>6. \A a : Flow!At(tx.gives, a) =
              (IF a = <<"bb", "collateral">> THEN Full ELSE 0)
              + (IF a = <<"usdo", "wallet">> THEN Full ELSE 0)
              + (IF a = <<"bb", "debt">> THEN Full + fee ELSE 0)
              + (IF a = <<"bb", "charged">> THEN fee ELSE 0)
              + (IF a = <<"bb", "part">> THEN part ELSE 0)
  BY <1>1, <1>2, <1>4, FlowLoanAt DEF fee, part
<1>7. DOMAIN tx.sets = {}
  BY <1>2, FlowLoanAt
<1>8. \A a : FlowMoves(tx, a) =
        ((IF a = <<"bb", "collateral">> THEN Full ELSE 0)
         + (IF a = <<"usdo", "wallet">> THEN Full ELSE 0)
         + (IF a = <<"bb", "debt">> THEN Full + fee ELSE 0)
         + (IF a = <<"bb", "charged">> THEN fee ELSE 0)
         + (IF a = <<"bb", "part">> THEN part ELSE 0))
          - ((IF a = <<"bb", "token">> THEN Full ELSE 0)
               + (IF a = <<"bb", "wrapAllowance">> THEN Full ELSE 0)
               + (IF a = <<"bb", "ybAllowance">> THEN Full ELSE 0))
  BY <1>5, <1>6 DEF FlowMoves
<1>9. \A k \in Flow!Markets :
         /\ FlowMoves(tx, <<k, "minted">>) = 0
         /\ FlowMoves(tx, <<k, "token">>) = 0 - (IF k = "bb" THEN Full ELSE 0)
         /\ FlowMoves(tx, <<k, "toft">>) = 0
         /\ FlowMoves(tx, <<k, "yb">>) = 0
         /\ FlowMoves(tx, <<k, "collateral">>) = (IF k = "bb" THEN Full ELSE 0)
         /\ FlowMoves(tx, <<k, "debt">>) = (IF k = "bb" THEN Full + fee ELSE 0)
         /\ FlowMoves(tx, <<k, "charged">>) = (IF k = "bb" THEN fee ELSE 0)
  BY <1>1, <1>8 DEF Flow!Markets
<1>10. /\ FlowMoves(tx, <<"usdo", "wallet">>) = Full
       /\ FlowMoves(tx, <<"usdo", "yb">>) = 0
       /\ FlowMoves(tx, <<"usdo", "pool">>) = 0
       /\ FlowMoves(tx, <<"usdo", "lent">>) = 0
  BY <1>1, <1>8
<1>11. \A a \in Flow!Accounts : Flow!At(tx.takes, a) \in Nat /\ Flow!At(tx.gives, a) \in Nat
  BY <1>1, <1>5, <1>6
<1>12. FlowBalanced(tx)
  BY <1>1, <1>7, <1>9, <1>10, <1>11, FlowPlaces DEF FlowBalanced, Flow!Markets
<1> QED BY <1>1, <1>9, <1>12 DEF tx

LEMMA FlowBurstSingularityBalanced ==
  ASSUME Flow!FlowAssumption, ledger \in FlowLedgers, fees \in Fees
  PROVE  /\ FlowBalanced(Flow!burstBorrow("sgl"))
         /\ \A k \in Flow!Markets :
              FlowMoves(Flow!burstBorrow("sgl"), <<k, "collateral">>) = IF k = "sgl" THEN Full ELSE 0
<1> DEFINE tx == Flow!burstBorrow("sgl")
           takes == Flow!Both(Flow!Both(Flow!One(<<"sgl", "token">>, Full), Flow!One(<<"sgl", "wrapAllowance">>, Full)),
                            Flow!One(<<"sgl", "ybAllowance">>, Full))
           gives == Flow!Both(Flow!One(<<"sgl", "collateral">>, Full), Flow!One(<<"usdo", "wallet">>, Some))
           fee == fees["sgl"]
           part == FlowParts("sgl")
<1>1. Full \in Nat /\ Some \in Nat /\ fee \in Nat /\ part \in Nat
  BY FlowLoanNat, FlowPlaces
<1>2. tx = Flow!loan("sgl", takes, gives) /\ Flow!Borrowed("sgl") = Some
  BY DEF Flow!burstBorrow, Flow!Borrowed
<1>3. \A a : Flow!At(takes, a) = (IF a = <<"sgl", "token">> THEN Full ELSE 0)
                              + (IF a = <<"sgl", "wrapAllowance">> THEN Full ELSE 0)
                              + (IF a = <<"sgl", "ybAllowance">> THEN Full ELSE 0)
  BY <1>1, FlowAtOne, FlowAtBoth, FlowAtNone
<1>4. \A a : Flow!At(gives, a) = (IF a = <<"sgl", "collateral">> THEN Full ELSE 0)
                              + (IF a = <<"usdo", "wallet">> THEN Some ELSE 0)
  BY <1>1, FlowAtOne, FlowAtBoth
<1> HIDE DEF tx, takes, gives, fee, part
<1>5. \A a : Flow!At(tx.takes, a) =
              (IF a = <<"sgl", "token">> THEN Full ELSE 0)
              + (IF a = <<"sgl", "wrapAllowance">> THEN Full ELSE 0)
              + (IF a = <<"sgl", "ybAllowance">> THEN Full ELSE 0)
              + (IF a = <<"usdo", "pool">> THEN Some ELSE 0)
  <2>1. \A a : Flow!At(IF "sgl" = "bb" THEN Flow!None ELSE Flow!One(<<"usdo", "pool">>, Some), a)
                 = IF a = <<"usdo", "pool">> THEN Some ELSE 0
    BY FlowAtOne
  <2>2. \A a : Flow!At(tx.takes, a) =
                Flow!At(takes, a) + IF a = <<"usdo", "pool">> THEN Some ELSE 0
    BY <1>2, <2>1, FlowLoanAt
  <2> QED BY <1>1, <1>3, <2>2
<1>6. \A a : Flow!At(tx.gives, a) =
              (IF a = <<"sgl", "collateral">> THEN Full ELSE 0)
              + (IF a = <<"usdo", "wallet">> THEN Some ELSE 0)
              + (IF a = <<"sgl", "debt">> THEN Some + fee ELSE 0)
              + (IF a = <<"sgl", "charged">> THEN fee ELSE 0)
              + (IF a = <<"sgl", "part">> THEN part ELSE 0)
  BY <1>1, <1>2, <1>4, FlowLoanAt DEF fee, part
<1>7. DOMAIN tx.sets = {}
  BY <1>2, FlowLoanAt
<1>8. \A a : FlowMoves(tx, a) =
        ((IF a = <<"sgl", "collateral">> THEN Full ELSE 0)
         + (IF a = <<"usdo", "wallet">> THEN Some ELSE 0)
         + (IF a = <<"sgl", "debt">> THEN Some + fee ELSE 0)
         + (IF a = <<"sgl", "charged">> THEN fee ELSE 0)
         + (IF a = <<"sgl", "part">> THEN part ELSE 0))
          - ((IF a = <<"sgl", "token">> THEN Full ELSE 0)
               + (IF a = <<"sgl", "wrapAllowance">> THEN Full ELSE 0)
               + (IF a = <<"sgl", "ybAllowance">> THEN Full ELSE 0)
               + (IF a = <<"usdo", "pool">> THEN Some ELSE 0))
  BY <1>5, <1>6 DEF FlowMoves
<1>9. \A k \in Flow!Markets :
         /\ FlowMoves(tx, <<k, "minted">>) = 0
         /\ FlowMoves(tx, <<k, "token">>) = 0 - (IF k = "sgl" THEN Full ELSE 0)
         /\ FlowMoves(tx, <<k, "toft">>) = 0
         /\ FlowMoves(tx, <<k, "yb">>) = 0
         /\ FlowMoves(tx, <<k, "collateral">>) = (IF k = "sgl" THEN Full ELSE 0)
         /\ FlowMoves(tx, <<k, "debt">>) = (IF k = "sgl" THEN Some + fee ELSE 0)
         /\ FlowMoves(tx, <<k, "charged">>) = (IF k = "sgl" THEN fee ELSE 0)
  BY <1>1, <1>8 DEF Flow!Markets
<1>10. /\ FlowMoves(tx, <<"usdo", "wallet">>) = Some
       /\ FlowMoves(tx, <<"usdo", "yb">>) = 0
       /\ FlowMoves(tx, <<"usdo", "pool">>) = 0 - Some
       /\ FlowMoves(tx, <<"usdo", "lent">>) = 0
  BY <1>1, <1>8
<1>11. \A a \in Flow!Accounts : Flow!At(tx.takes, a) \in Nat /\ Flow!At(tx.gives, a) \in Nat
  BY <1>1, <1>5, <1>6
<1>12. FlowBalanced(tx)
  BY <1>1, <1>7, <1>9, <1>10, <1>11, FlowPlaces DEF FlowBalanced, Flow!Markets
<1> QED BY <1>1, <1>9, <1>12 DEF tx

LEMMA FlowRepayBalanced ==
  ASSUME Flow!FlowAssumption, ledger \in FlowLedgers
  PROVE  /\ FlowBalanced(Flow!repay)
         /\ \A k \in Flow!Markets :
              FlowMoves(Flow!repay, <<k, "collateral">>) = 0
<1> DEFINE tx == Flow!repay
           cost == FlowCost
           part == Flow!Repaid
<1>1. cost \in Nat /\ part \in Nat
  BY FlowCostNat
<1>2. /\ tx.takes = Flow!Both(Flow!Both(Flow!One(<<"usdo", "yb">>, cost),
                                       Flow!One(<<"sgl", "operator">>, 1)),
                             Flow!Both(Flow!One(<<"sgl", "debt">>, cost),
                                       Flow!One(<<"sgl", "part">>, part)))
      /\ tx.gives = Flow!Both(Flow!One(<<"usdo", "pool">>, cost), Flow!One(<<"sgl", "operator">>, 1))
      /\ DOMAIN tx.sets = {}
  BY DEF Flow!repay, Flow!repayment, Flow!Tx, Flow!None, FlowCost
<1> HIDE DEF tx, cost, part
<1>3. \A a : Flow!At(tx.takes, a) =
              (IF a = <<"usdo", "yb">> THEN cost ELSE 0)
              + (IF a = <<"sgl", "operator">> THEN 1 ELSE 0)
              + (IF a = <<"sgl", "debt">> THEN cost ELSE 0)
              + (IF a = <<"sgl", "part">> THEN part ELSE 0)
  BY <1>1, <1>2, FlowAtOne, FlowAtBoth
<1>4. \A a : Flow!At(tx.gives, a) =
              (IF a = <<"usdo", "pool">> THEN cost ELSE 0)
              + (IF a = <<"sgl", "operator">> THEN 1 ELSE 0)
  BY <1>1, <1>2, FlowAtOne, FlowAtBoth
<1>5. \A a : FlowMoves(tx, a) =
        ((IF a = <<"usdo", "pool">> THEN cost ELSE 0)
         + (IF a = <<"sgl", "operator">> THEN 1 ELSE 0))
          - ((IF a = <<"usdo", "yb">> THEN cost ELSE 0)
             + (IF a = <<"sgl", "operator">> THEN 1 ELSE 0)
             + (IF a = <<"sgl", "debt">> THEN cost ELSE 0)
             + (IF a = <<"sgl", "part">> THEN part ELSE 0))
  BY <1>3, <1>4 DEF FlowMoves
<1>6. \A k \in Flow!Markets :
         /\ FlowMoves(tx, <<k, "minted">>) = 0
         /\ FlowMoves(tx, <<k, "token">>) = 0
         /\ FlowMoves(tx, <<k, "toft">>) = 0
         /\ FlowMoves(tx, <<k, "yb">>) = 0
         /\ FlowMoves(tx, <<k, "collateral">>) = 0
         /\ FlowMoves(tx, <<k, "debt">>) = 0 - (IF k = "sgl" THEN cost ELSE 0)
         /\ FlowMoves(tx, <<k, "charged">>) = 0
  BY <1>1, <1>5 DEF Flow!Markets
<1>7. /\ FlowMoves(tx, <<"usdo", "wallet">>) = 0
      /\ FlowMoves(tx, <<"usdo", "yb">>) = 0 - cost
      /\ FlowMoves(tx, <<"usdo", "pool">>) = cost
      /\ FlowMoves(tx, <<"usdo", "lent">>) = 0
  BY <1>1, <1>5
<1>8. \A a \in Flow!Accounts : Flow!At(tx.takes, a) \in Nat /\ Flow!At(tx.gives, a) \in Nat
  BY <1>1, <1>3, <1>4
<1>9. FlowBalanced(tx)
  BY <1>1, <1>2, <1>6, <1>7, <1>8, FlowPlaces DEF FlowBalanced, Flow!Markets
<1> QED BY <1>6, <1>9 DEF tx

(***************************************************************************)
(* The inductive invariant of the flow: what it did not wait for is of the *)
(* kinds above, and the collateral is what its program counter says.       *)
(***************************************************************************)
FlowOnce(m) ==
  IF m = "bb"
  THEN {"bb"} \X {"borrow", "withdraw", "again", "fund", "approve", "lend"}
         \cup {"sgl"} \X {"mint", "wrap", "deposit", "add", "borrow", "withdraw", "again",
                          "fund", "repay"}
         \cup {<<"magnetar", "bb", "mint">>, <<"magnetar", "bb", "burst">>}
  ELSE {"sgl"} \X {"borrow", "withdraw", "again", "fund", "repay"}
         \cup {<<"magnetar", "bb", "mint">>, <<"magnetar", "bb", "burst">>,
               <<"magnetar", "sgl", "mint">>, <<"magnetar", "lend">>,
               <<"magnetar", "sgl", "burst">>}
FlowTwice(m) ==
  IF m = "bb"
  THEN {<<"magnetar", "sgl", "mint">>, <<"magnetar", "lend">>, <<"magnetar", "sgl", "burst">>,
        Flow!Done}
  ELSE {Flow!Done}
FlowGot(at, m) == IF at \in FlowTwice(m) THEN 2 * Full ELSE IF at \in FlowOnce(m) THEN Full ELSE 0

FlowHas(l, b, at) ==
  at # Flow!Thrown => \A m \in Flow!Markets :
                        l[<<m, "collateral">>] = b[<<m, "collateral">>] + FlowGot(at, m)

FlowInv ==
  /\ ledger \in FlowLedgers /\ FlowAccounted(ledger)
  /\ before \in FlowLedgers
  /\ pool \in Seq(FlowPending)
  /\ FlowHas(ledger, before, pc)
  /\ fees \in Fees /\ runs \in 1 .. MaxRuns

(* How far a step takes the task: no further if it moves no collateral. *)
FlowGets(to, tx) ==
  \A m \in Flow!Markets : FlowGot(to, m) = FlowGot(pc, m) + FlowMoves(tx, <<m, "collateral">>)

LEMMA FlowGotNat ==
  ASSUME Flow!FlowAssumption, NEW at, NEW m
  PROVE  FlowGot(at, m) \in Nat
  BY DEF Flow!FlowAssumption, FlowGot

(* A transaction the task waits for, on top of what it did not wait for. *)
LEMMA FlowAppliedHas ==
  ASSUME Flow!FlowAssumption, FlowInv, pc # Flow!Thrown,
         NEW sent \in Seq(FlowPending), NEW tx, FlowBalanced(tx), NEW to, FlowGets(to, tx)
  PROVE  LET mined == Flow!Mined(ledger, sent)
             l == Flow!Apply(mined, tx)
         IN  /\ l \in FlowLedgers /\ FlowAccounted(l)
             /\ Flow!Works(mined, tx) => FlowHas(l, before, to)
<1> DEFINE mined == Flow!Mined(ledger, sent)
           l == Flow!Apply(mined, tx)
<1>1. mined \in FlowLike(ledger)
  BY FlowPendingMined DEF FlowInv
<1>2. mined \in FlowLedgers /\ FlowAccounted(mined)
  BY <1>1 DEF FlowLike
<1>3. \A m \in Flow!Markets : mined[<<m, "collateral">>] = ledger[<<m, "collateral">>]
  BY <1>1 DEF FlowLike
<1> HIDE DEF mined
<1>4. CASE ~Flow!Works(mined, tx)
  <2>1. l = mined
    BY <1>4 DEF Flow!Apply
  <2> QED BY <2>1, <1>2, <1>4 DEF mined
<1>5. CASE Flow!Works(mined, tx)
  <2>1. l = Flow!After(mined, tx)
    BY <1>5 DEF Flow!Apply
  <2>2. /\ Flow!After(mined, tx) \in FlowLedgers /\ FlowAccounted(Flow!After(mined, tx))
        /\ \A m \in Flow!Markets :
             Flow!After(mined, tx)[<<m, "collateral">>] =
               mined[<<m, "collateral">>] + FlowMoves(tx, <<m, "collateral">>)
    BY <1>2, <1>5, FlowBalancedKeeps
  <2> HIDE DEF l
  <2>3. ASSUME NEW m \in Flow!Markets
        PROVE  l[<<m, "collateral">>] = before[<<m, "collateral">>] + FlowGot(to, m)
    <3>1. ledger[<<m, "collateral">>] = before[<<m, "collateral">>] + FlowGot(pc, m)
      BY DEF FlowInv, FlowHas
    <3>2. FlowGot(to, m) = FlowGot(pc, m) + FlowMoves(tx, <<m, "collateral">>)
      BY DEF FlowGets
    <3>3. l[<<m, "collateral">>] =
            ledger[<<m, "collateral">>] + FlowMoves(tx, <<m, "collateral">>)
      BY <1>3, <2>1, <2>2
    <3>4. before[<<m, "collateral">>] \in Nat /\ FlowGot(pc, m) \in Nat
      BY FlowCollateralPlace, FlowGotNat DEF FlowInv, FlowLedgers
    <3>5. FlowMoves(tx, <<m, "collateral">>) \in Int
      <4>1. /\ Flow!At(tx.takes, <<m, "collateral">>) \in Nat
            /\ Flow!At(tx.gives, <<m, "collateral">>) \in Nat
        BY FlowCollateralPlace DEF FlowBalanced
      <4> QED BY <4>1 DEF FlowMoves
    <3> QED BY ONLY <3>1, <3>2, <3>3, <3>4, <3>5
  <2> QED BY <2>1, <2>2, <2>3 DEF FlowHas, l, mined
<1> QED BY <1>4, <1>5 DEF mined

LEMMA FlowAwaitStep ==
  ASSUME Flow!FlowAssumption, FlowInv, pc # Flow!Thrown,
         NEW approvals \in Seq(FlowPending), NEW tx, FlowBalanced(tx), NEW to, FlowGets(to, tx),
         Flow!Await(approvals, tx, to)
  PROVE  FlowInv'
<1> DEFINE sent == pool \o approvals
           mined == Flow!Mined(ledger, sent)
<1>1. sent \in Seq(FlowPending)
  BY DEF FlowInv
<1>2. /\ Flow!Apply(mined, tx) \in FlowLedgers /\ FlowAccounted(Flow!Apply(mined, tx))
      /\ Flow!Works(mined, tx) => FlowHas(Flow!Apply(mined, tx), before, to)
  BY <1>1, FlowAppliedHas
<1>3. fees' = fees /\ before' = before /\ runs' = runs
  BY DEF Flow!Await, Flow!Go
<1>4. CASE ledger' = Flow!Apply(mined, tx) /\ pool' = <<>>
             /\ Flow!Go(IF Flow!Works(mined, tx) THEN to ELSE Flow!Thrown)
  <2> HIDE DEF mined, sent
  <2>1. CASE Flow!Works(mined, tx)
    BY <1>2, <1>3, <1>4, <2>1 DEF Flow!Go, FlowInv
  <2>2. CASE ~Flow!Works(mined, tx)
    BY <1>2, <1>3, <1>4, <2>2 DEF Flow!Go, FlowInv, FlowHas
  <2> QED BY <2>1, <2>2
<1>5. CASE pool' = sent /\ ledger' = ledger /\ Flow!Go(Flow!Thrown)
  BY <1>1, <1>3, <1>5 DEF Flow!Go, FlowInv, FlowHas
<1> QED BY <1>4, <1>5 DEF Flow!Await

LEMMA FlowBurstStep ==
  ASSUME Flow!FlowAssumption, FlowInv, pc # Flow!Thrown,
         NEW approvals \in Seq(FlowPending), NEW tx, FlowBalanced(tx), NEW to, FlowGets(to, tx),
         Flow!Burst(approvals, tx, to)
  PROVE  FlowInv'
<1> DEFINE sent == pool \o approvals
           mined == Flow!Mined(ledger, sent)
<1>1. sent \in Seq(FlowPending)
  BY DEF FlowInv
<1>2. /\ Flow!Apply(mined, tx) \in FlowLedgers /\ FlowAccounted(Flow!Apply(mined, tx))
      /\ Flow!Works(mined, tx) => FlowHas(Flow!Apply(mined, tx), before, to)
  BY <1>1, FlowAppliedHas
<1>3. /\ ledger' = Flow!Apply(mined, tx) /\ pool' = <<>>
      /\ fees' = fees /\ before' = before /\ runs' = runs
      /\ pc' = IF Flow!Works(mined, tx) THEN to ELSE Flow!Thrown
  BY DEF Flow!Burst, Flow!Go
<1> HIDE DEF mined, sent
<1>4. CASE Flow!Works(mined, tx)
  BY <1>2, <1>3, <1>4 DEF FlowInv
<1>5. CASE ~Flow!Works(mined, tx)
  BY <1>2, <1>3, <1>5 DEF FlowInv, FlowHas
<1> QED BY <1>4, <1>5

LEMMA FlowSkipStep ==
  ASSUME FlowInv, pc # Flow!Thrown, NEW to,
         to = Flow!Thrown \/ \A m \in Flow!Markets : FlowGot(to, m) = FlowGot(pc, m),
         Flow!Skip(to)
  PROVE  FlowInv'
  BY DEF Flow!Skip, Flow!Go, FlowInv, FlowHas

LEMMA FlowSendStep ==
  ASSUME FlowInv, pc # Flow!Thrown, NEW tx \in FlowPending, NEW to,
         \A m \in Flow!Markets : FlowGot(to, m) = FlowGot(pc, m),
         Flow!Send(tx, to)
  PROVE  FlowInv'
<1>1. CASE pool' = Append(pool, tx) /\ ledger' = ledger /\ Flow!Go(to)
  <2>1. pool' \in Seq(FlowPending)
    BY <1>1 DEF FlowInv
  <2> QED BY <1>1, <2>1 DEF Flow!Go, FlowInv, FlowHas
<1>2. CASE pool' = pool /\ ledger' = ledger /\ Flow!Go(Flow!Thrown)
  BY <1>2 DEF Flow!Go, FlowInv, FlowHas
<1> QED BY <1>1, <1>2 DEF Flow!Send

LEMMA FlowMineStep ==
  ASSUME Flow!FlowAssumption, FlowInv, Flow!Mine
  PROVE  FlowInv'
<1>1. Head(pool) \in FlowPending /\ Tail(pool) \in Seq(FlowPending)
  BY DEF Flow!Mine, FlowInv
<1>2. ledger' \in FlowLike(ledger)
  <2>1. ledger \in FlowLike(ledger)
    BY DEF FlowInv, FlowLike
  <2> QED BY <1>1, <2>1, FlowPendingApply DEF Flow!Mine
<1>3. FlowHas(ledger', before, pc)
  BY <1>2 DEF FlowLike, FlowInv, FlowHas
<1> QED BY <1>1, <1>2, <1>3 DEF Flow!Mine, FlowInv, FlowLike

(* Where the stages of the task stand. *)
LEMMA FlowStages ==
  ASSUME NEW k \in Flow!Markets
  PROVE  /\ FlowGot(<<"begin">>, k) = 0
         /\ FlowGot(<<"bb", "mint">>, k) = 0
         /\ \A m \in Flow!Markets :
              /\ FlowGot(<<m, "wrap">>, k) = FlowGot(<<m, "mint">>, k)
              /\ FlowGot(<<m, "deposit">>, k) = FlowGot(<<m, "mint">>, k)
              /\ FlowGot(<<m, "add">>, k) = FlowGot(<<m, "mint">>, k)
              /\ FlowGot(<<m, "withdraw">>, k) = FlowGot(<<m, "borrow">>, k)
              /\ FlowGot(<<m, "again">>, k) = FlowGot(<<m, "borrow">>, k)
              /\ FlowGot(<<m, "fund">>, k) = FlowGot(<<m, "borrow">>, k)
         /\ FlowGot(<<"bb", "approve">>, k) = FlowGot(<<"bb", "fund">>, k)
         /\ FlowGot(<<"bb", "lend">>, k) = FlowGot(<<"bb", "fund">>, k)
         /\ FlowGot(<<"sgl", "mint">>, k) = FlowGot(<<"bb", "fund">>, k)
         /\ FlowGot(<<"sgl", "repay">>, k) = FlowGot(<<"sgl", "fund">>, k)
         /\ FlowGot(<<"magnetar", "bb", "mint">>, k) = FlowGot(<<"sgl", "fund">>, k)
         /\ FlowGot(<<"magnetar", "bb", "burst">>, k) = FlowGot(<<"magnetar", "bb", "mint">>, k)
         /\ FlowGot(<<"magnetar", "lend">>, k) = FlowGot(<<"magnetar", "sgl", "mint">>, k)
         /\ FlowGot(<<"magnetar", "sgl", "burst">>, k) = FlowGot(<<"magnetar", "lend">>, k)
  BY DEF FlowGot, FlowOnce, FlowTwice, Flow!Markets, Flow!Done

(* Collateral is added, and a burst adds it, at four stages. *)
LEMMA FlowAdding ==
  ASSUME Flow!FlowAssumption, NEW k \in Flow!Markets
  PROVE  /\ \A m \in Flow!Markets :
              FlowGot(<<m, "borrow">>, k) = FlowGot(<<m, "add">>, k) + (IF k = m THEN Full ELSE 0)
         /\ FlowGot(<<"magnetar", "sgl", "mint">>, k) =
              FlowGot(<<"magnetar", "bb", "burst">>, k) + (IF k = "bb" THEN Full ELSE 0)
         /\ FlowGot(Flow!Done, k) =
              FlowGot(<<"magnetar", "sgl", "burst">>, k) + (IF k = "sgl" THEN Full ELSE 0)
<1>1. Full \in Nat
  BY DEF Flow!FlowAssumption
<1>2. /\ FlowGot(<<"bb", "add">>, k) = 0
      /\ FlowGot(<<"bb", "borrow">>, k) = IF k = "bb" THEN Full ELSE 0
      /\ FlowGot(<<"sgl", "add">>, k) = IF k = "bb" THEN Full ELSE 0
      /\ FlowGot(<<"sgl", "borrow">>, k) = Full
      /\ FlowGot(<<"magnetar", "bb", "burst">>, k) = Full
      /\ FlowGot(<<"magnetar", "sgl", "mint">>, k) = IF k = "bb" THEN 2 * Full ELSE Full
      /\ FlowGot(<<"magnetar", "sgl", "burst">>, k) = IF k = "bb" THEN 2 * Full ELSE Full
      /\ FlowGot(Flow!Done, k) = 2 * Full
  BY DEF FlowGot, FlowOnce, FlowTwice, Flow!Markets, Flow!Done
<1>3. ASSUME NEW m \in Flow!Markets
      PROVE  FlowGot(<<m, "borrow">>, k) = FlowGot(<<m, "add">>, k) + (IF k = m THEN Full ELSE 0)
  <2>1. CASE m = "bb"
    BY <1>1, <1>2, <2>1
  <2>2. CASE m = "sgl"
    BY <1>1, <1>2, <2>2 DEF Flow!Markets
  <2> QED BY <2>1, <2>2 DEF Flow!Markets
<1> QED BY <1>1, <1>2, <1>3 DEF Flow!Markets

LEMMA FlowNotThrown ==
  /\ \A m \in Flow!Markets : \A k : <<m, k>> # Flow!Thrown
  /\ <<"begin">> # Flow!Thrown
  /\ \A m \in Flow!Markets : \A k : <<"magnetar", m, k>> # Flow!Thrown
  /\ <<"magnetar", "lend">> # Flow!Thrown
  BY DEF Flow!Thrown, Flow!Markets

(* Approvals are what may be sent without waiting. *)
LEMMA FlowApprovals ==
  /\ \A m \in Flow!Markets, n \in {1, Full, Some} :
       /\ Flow!Sets(<<m, "wrapAllowance">>, n) \in FlowPending
       /\ Flow!Sets(<<m, "ybAllowance">>, n) \in FlowPending
       /\ Flow!Sets(<<m, "operator">>, n) \in FlowPending
  /\ \A n \in {1, Full, Some} : Flow!Sets(<<"usdo", "ybAllowance">>, n) \in FlowPending
  /\ Flow!withdraw(Full) \in FlowPending /\ Flow!withdraw(Some) \in FlowPending
<1>1. /\ \A m \in Flow!Markets : \A k \in {"wrapAllowance", "ybAllowance", "operator"} :
           <<m, k>> \in FlowApprovable
      /\ <<"usdo", "ybAllowance">> \in FlowApprovable
  BY DEF FlowApprovable
<1> QED BY <1>1 DEF FlowPending

LEMMA FlowBorrowBalanced ==
  ASSUME Flow!FlowAssumption, ledger \in FlowLedgers, fees \in Fees, NEW m \in Flow!Markets
  PROVE  /\ FlowBalanced(Flow!borrow(m))
         /\ \A k \in Flow!Markets : FlowMoves(Flow!borrow(m), <<k, "collateral">>) = 0
<1>1. m = "bb" \/ m = "sgl"
  BY DEF Flow!Markets
<1> QED BY <1>1, FlowBorrowBigBangBalanced, FlowBorrowSingularityBalanced

(* Where the task stands is the same, and nothing is added. *)
LEMMA FlowStays ==
  ASSUME Flow!FlowAssumption, NEW to, NEW tx,
         \A k \in Flow!Markets : /\ FlowGot(to, k) = FlowGot(pc, k)
                                 /\ FlowMoves(tx, <<k, "collateral">>) = 0
  PROVE  FlowGets(to, tx)
<1> SUFFICES ASSUME NEW m \in Flow!Markets
             PROVE  FlowGot(to, m) = FlowGot(pc, m) + FlowMoves(tx, <<m, "collateral">>)
  BY DEF FlowGets
<1>1. FlowGot(pc, m) \in Nat /\ FlowMoves(tx, <<m, "collateral">>) = 0
  BY FlowGotNat
<1> QED BY <1>1

LEMMA FlowMarketStep ==
  ASSUME Flow!FlowAssumption, FlowInv, NEW m \in Flow!Markets, Flow!IndividualActions(m)
  PROVE  FlowInv'
<1> DEFINE at(k) == pc = <<m, k>>
<1>1. \A to, tx : (\A k \in Flow!Markets : /\ FlowGot(to, k) = FlowGot(pc, k)
                                           /\ FlowMoves(tx, <<k, "collateral">>) = 0)
                    => FlowGets(to, tx)
  BY FlowStays
<1>2. <<>> \in Seq(FlowPending)
  OBVIOUS
<1>3. \A x \in FlowPending : <<x>> \in Seq(FlowPending)
  OBVIOUS
<1>4. /\ Flow!Borrowed(m) \in {Full, Some} /\ Flow!Borrowed(m) \in Nat
      /\ ledger \in FlowLedgers /\ fees \in Fees
  BY DEF Flow!Borrowed, Flow!FlowAssumption, FlowInv
<1>5. CASE Flow!Mint(m)
  <2>1. pc = <<m, "mint">> /\ pc # Flow!Thrown
    BY <1>5, FlowNotThrown DEF Flow!Mint
  <2>2. \A k \in Flow!Markets : FlowGot(<<m, "wrap">>, k) = FlowGot(pc, k)
    BY <2>1, FlowStages
  <2>3. CASE Flow!Await(<<>>, Flow!freeMint(m), <<m, "wrap">>)
    BY <1>1, <1>2, <2>1, <2>2, <2>3, FlowFreeMintBalanced, FlowAwaitStep
  <2>4. CASE Flow!Skip(<<m, "wrap">>)
    BY <2>1, <2>2, <2>4, FlowSkipStep
  <2> QED BY <1>5, <2>3, <2>4 DEF Flow!Mint
<1>6. CASE Flow!Wrap(m)
  <2>1. pc = <<m, "wrap">> /\ pc # Flow!Thrown
    BY <1>6, FlowNotThrown DEF Flow!Wrap
  <2>2. \A k \in Flow!Markets : FlowGot(<<m, "deposit">>, k) = FlowGot(pc, k)
    BY <2>1, FlowStages
  <2>3. <<Flow!Sets(<<m, "wrapAllowance">>, Full)>> \in Seq(FlowPending)
    BY <1>3, FlowApprovals
  <2>4. Flow!Await(<<Flow!Sets(<<m, "wrapAllowance">>, Full)>>, Flow!wrap(m), <<m, "deposit">>)
    BY <1>6 DEF Flow!Wrap
  <2> QED BY <1>1, <2>1, <2>2, <2>3, <2>4, FlowWrapBalanced, FlowAwaitStep
<1>7. CASE Flow!DepositCollateral(m)
  <2>1. pc = <<m, "deposit">> /\ pc # Flow!Thrown
    BY <1>7, FlowNotThrown DEF Flow!DepositCollateral
  <2>2. \A k \in Flow!Markets : FlowGot(<<m, "add">>, k) = FlowGot(pc, k)
    BY <2>1, FlowStages
  <2>3. <<Flow!Sets(<<m, "ybAllowance">>, Full)>> \in Seq(FlowPending)
    BY <1>3, FlowApprovals
  <2>4. Flow!Await(<<Flow!Sets(<<m, "ybAllowance">>, Full)>>, Flow!depositCollateral(m), <<m, "add">>)
    BY <1>7 DEF Flow!DepositCollateral
  <2> QED BY <1>1, <2>1, <2>2, <2>3, <2>4, FlowDepositBalanced, FlowAwaitStep
<1>8. CASE Flow!AddCollateral(m)
  <2> DEFINE approvals == IF m = "bb" /\ ledger[<<m, "operator">>] = 0
                          THEN <<Flow!Sets(<<m, "operator">>, 1)>> ELSE <<>>
  <2>1. pc = <<m, "add">> /\ pc # Flow!Thrown
    BY <1>8, FlowNotThrown DEF Flow!AddCollateral
  <2>2. FlowGets(<<m, "borrow">>, Flow!addCollateral(m))
    BY <2>1, FlowAdding, FlowAddBalanced DEF FlowGets
  <2>3. approvals \in Seq(FlowPending)
    BY <1>2, <1>3, FlowApprovals
  <2>4. Flow!Await(approvals, Flow!addCollateral(m), <<m, "borrow">>)
    BY <1>8 DEF Flow!AddCollateral
  <2> HIDE DEF approvals
  <2> QED BY <2>1, <2>2, <2>3, <2>4, FlowAddBalanced, FlowAwaitStep
<1>9. CASE Flow!Borrow(m)
  <2>1. pc = <<m, "borrow">> /\ pc # Flow!Thrown
    BY <1>9, FlowNotThrown DEF Flow!Borrow
  <2>2. \A k \in Flow!Markets : FlowGot(<<m, "withdraw">>, k) = FlowGot(pc, k)
    BY <2>1, FlowStages
  <2>3. Flow!Await(<<>>, Flow!borrow(m), <<m, "withdraw">>)
    BY <1>9 DEF Flow!Borrow
  <2> QED BY <1>1, <1>2, <1>4, <2>1, <2>2, <2>3, FlowBorrowBalanced, FlowAwaitStep
<1>10. CASE Flow!Withdraw(m)
  <2>1. pc = <<m, "withdraw">> /\ pc # Flow!Thrown
    BY <1>10, FlowNotThrown DEF Flow!Withdraw
  <2>2. \A k \in Flow!Markets : FlowGot(<<m, "again">>, k) = FlowGot(pc, k)
    BY <2>1, FlowStages
  <2>3. Flow!withdraw(Flow!Borrowed(m)) \in FlowPending
    BY <1>4, FlowApprovals
  <2>4. Flow!Send(Flow!withdraw(Flow!Borrowed(m)), <<m, "again">>)
    BY <1>10 DEF Flow!Withdraw
  <2> QED BY <2>1, <2>2, <2>3, <2>4, FlowSendStep
<1>11. CASE Flow!WithdrawAgain(m)
  <2>1. pc = <<m, "again">> /\ pc # Flow!Thrown
    BY <1>11, FlowNotThrown DEF Flow!WithdrawAgain
  <2>2. \A k \in Flow!Markets : FlowGot(<<m, "fund">>, k) = FlowGot(pc, k)
    BY <2>1, FlowStages
  <2>3. CASE Flow!Await(<<>>, Flow!withdraw(Flow!Borrowed(m)), <<m, "fund">>)
    BY <1>1, <1>2, <1>4, <2>1, <2>2, <2>3, FlowWithdrawBalanced, FlowAwaitStep
  <2>4. CASE Flow!Skip(<<m, "fund">>)
    BY <2>1, <2>2, <2>4, FlowSkipStep
  <2> QED BY <1>11, <2>3, <2>4 DEF Flow!WithdrawAgain
<1> QED BY <1>5, <1>6, <1>7, <1>8, <1>9, <1>10, <1>11 DEF Flow!IndividualActions

LEMMA FlowLendStep ==
  ASSUME Flow!FlowAssumption, FlowInv,
         \/ Flow!FundLending \/ Flow!ApproveSingularity \/ Flow!Lend
         \/ Flow!FundRepayment \/ Flow!Repay
  PROVE  FlowInv'
<1>1. \A to, tx : (\A k \in Flow!Markets : /\ FlowGot(to, k) = FlowGot(pc, k)
                                           /\ FlowMoves(tx, <<k, "collateral">>) = 0)
                    => FlowGets(to, tx)
  BY FlowStays
<1>2. <<>> \in Seq(FlowPending)
  OBVIOUS
<1>3. \A x \in FlowPending : <<x>> \in Seq(FlowPending)
  OBVIOUS
<1>4. Full \in Nat /\ Some \in Nat /\ ledger \in FlowLedgers
  BY DEF Flow!FlowAssumption, FlowInv
<1>5. CASE Flow!FundLending
  <2>1. pc = <<"bb", "fund">> /\ pc # Flow!Thrown
    BY <1>5, FlowNotThrown, FlowPlaces DEF Flow!FundLending
  <2>2. \A k \in Flow!Markets : FlowGot(<<"bb", "approve">>, k) = FlowGot(pc, k)
    BY <2>1, FlowStages, FlowPlaces
  <2>3. <<Flow!Sets(<<"usdo", "ybAllowance">>, Full)>> \in Seq(FlowPending)
    BY <1>3, FlowApprovals
  <2>4. CASE Flow!Await(<<Flow!Sets(<<"usdo", "ybAllowance">>, Full)>>, Flow!depositUsdo(Full), <<"bb", "approve">>)
    BY <1>1, <1>4, <2>1, <2>2, <2>3, <2>4, FlowDepositUsdoBalanced, FlowAwaitStep
  <2>5. CASE Flow!Skip(<<"bb", "approve">>)
    BY <2>1, <2>2, <2>5, FlowSkipStep
  <2> QED BY <1>5, <2>4, <2>5 DEF Flow!FundLending
<1>6. CASE Flow!ApproveSingularity
  <2>1. pc = <<"bb", "approve">> /\ pc # Flow!Thrown
    BY <1>6, FlowNotThrown, FlowPlaces DEF Flow!ApproveSingularity
  <2>2. \A k \in Flow!Markets : FlowGot(<<"bb", "lend">>, k) = FlowGot(pc, k)
    BY <2>1, FlowStages, FlowPlaces
  <2>3. Flow!Sets(<<"sgl", "operator">>, 1) \in FlowPending
    BY FlowApprovals, FlowPlaces
  <2>4. CASE Flow!Send(Flow!Sets(<<"sgl", "operator">>, 1), <<"bb", "lend">>)
    BY <2>1, <2>2, <2>3, <2>4, FlowSendStep
  <2>5. CASE Flow!Skip(<<"bb", "lend">>)
    BY <2>1, <2>2, <2>5, FlowSkipStep
  <2> QED BY <1>6, <2>4, <2>5 DEF Flow!ApproveSingularity
<1>7. CASE Flow!Lend
  <2>1. pc = <<"bb", "lend">> /\ pc # Flow!Thrown
    BY <1>7, FlowNotThrown, FlowPlaces DEF Flow!Lend
  <2>2. \A k \in Flow!Markets : FlowGot(<<"sgl", "mint">>, k) = FlowGot(pc, k)
    BY <2>1, FlowStages, FlowPlaces
  <2>3. <<>> \in Seq(FlowPending)
    BY <1>3, FlowApprovals
  <2>4. CASE Flow!Await(<<>>, Flow!addAsset, <<"sgl", "mint">>)
    BY <1>1, <1>4, <2>1, <2>2, <2>3, <2>4, FlowAddAssetBalanced, FlowAwaitStep
  <2>5. CASE Flow!Skip(<<"sgl", "mint">>)
    BY <2>1, <2>2, <2>5, FlowSkipStep
  <2> QED BY <1>7, <2>4, <2>5 DEF Flow!Lend
<1>8. CASE Flow!FundRepayment
  <2>1. pc = <<"sgl", "fund">> /\ pc # Flow!Thrown
    BY <1>8, FlowNotThrown, FlowPlaces DEF Flow!FundRepayment
  <2>2. \A k \in Flow!Markets : FlowGot(<<"sgl", "repay">>, k) = FlowGot(pc, k)
    BY <2>1, FlowStages, FlowPlaces
  <2>3. <<Flow!Sets(<<"usdo", "ybAllowance">>, Some)>> \in Seq(FlowPending)
    BY <1>3, FlowApprovals
  <2>4. CASE Flow!Await(<<Flow!Sets(<<"usdo", "ybAllowance">>, Some)>>, Flow!depositUsdo(Some), <<"sgl", "repay">>)
    BY <1>1, <1>4, <2>1, <2>2, <2>3, <2>4, FlowDepositUsdoBalanced, FlowAwaitStep
  <2>5. CASE Flow!Skip(<<"sgl", "repay">>)
    BY <2>1, <2>2, <2>5, FlowSkipStep
  <2> QED BY <1>8, <2>4, <2>5 DEF Flow!FundRepayment
<1>9. CASE Flow!Repay
  <2>1. pc = <<"sgl", "repay">> /\ pc # Flow!Thrown
    BY <1>9, FlowNotThrown, FlowPlaces DEF Flow!Repay
  <2>2. \A k \in Flow!Markets : FlowGot(<<"magnetar", "bb", "mint">>, k) = FlowGot(pc, k)
    BY <2>1, FlowStages, FlowPlaces
  <2>3. <<>> \in Seq(FlowPending)
    BY <1>3, FlowApprovals
  <2>4. CASE Flow!Await(<<>>, Flow!repay, <<"magnetar", "bb", "mint">>)
    BY <1>1, <1>4, <2>1, <2>2, <2>3, <2>4, FlowRepayBalanced, FlowAwaitStep
  <2>5. CASE Flow!Skip(<<"magnetar", "bb", "mint">>)
    BY <2>1, <2>2, <2>5, FlowSkipStep
  <2> QED BY <1>9, <2>4, <2>5 DEF Flow!Repay
<1> QED BY <1>5, <1>6, <1>7, <1>8, <1>9

LEMMA FlowMagnetarStep ==
  ASSUME Flow!FlowAssumption, FlowInv,
         (\E m \in Flow!Markets : Flow!Magnetar(m)) \/ Flow!BurstLend
  PROVE  FlowInv'
<1>1. \A to, tx : (\A k \in Flow!Markets : /\ FlowGot(to, k) = FlowGot(pc, k)
                                           /\ FlowMoves(tx, <<k, "collateral">>) = 0)
                    => FlowGets(to, tx)
  BY FlowStays
<1>2. <<>> \in Seq(FlowPending)
  OBVIOUS
<1>3. ASSUME NEW m \in Flow!Markets, Flow!MintForBurst(m)
      PROVE  FlowInv'
  <2> DEFINE to == IF m = "bb" THEN <<"magnetar", m, "burst">> ELSE <<"magnetar", "lend">>
  <2>1. pc = <<"magnetar", m, "mint">> /\ pc # Flow!Thrown
    BY <1>3, FlowNotThrown DEF Flow!MintForBurst
  <2>2. m = "bb" \/ m = "sgl"
    BY DEF Flow!Markets
  <2>3. \A k \in Flow!Markets : FlowGot(to, k) = FlowGot(pc, k)
    BY <2>1, <2>2, FlowStages
  <2>4. Flow!Await(<<>>, Flow!freeMint(m), to) \/ Flow!Skip(to)
    BY <1>3 DEF Flow!MintForBurst
  <2> HIDE DEF to
  <2>5. CASE Flow!Await(<<>>, Flow!freeMint(m), to)
    BY <1>1, <1>2, <2>1, <2>3, <2>5, FlowFreeMintBalanced, FlowAwaitStep
  <2>6. CASE Flow!Skip(to)
    BY <2>1, <2>3, <2>6, FlowSkipStep
  <2> QED BY <2>4, <2>5, <2>6
<1>4. ASSUME NEW m \in Flow!Markets, Flow!BurstBorrow(m)
      PROVE  FlowInv'
  <2> DEFINE to == IF m = "bb" THEN <<"magnetar", "sgl", "mint">> ELSE Flow!Done
             sets == <<Flow!Sets(<<m, "wrapAllowance">>, Full), Flow!Sets(<<m, "ybAllowance">>, Full),
                       Flow!Sets(<<m, "operator">>, 1)>>
  <2>1. pc = <<"magnetar", m, "burst">> /\ pc # Flow!Thrown
    BY <1>4, FlowNotThrown DEF Flow!BurstBorrow
  <2>2. m = "bb" \/ m = "sgl"
    BY DEF Flow!Markets
  <2>3. FlowGets(to, Flow!burstBorrow(m)) /\ FlowBalanced(Flow!burstBorrow(m))
    <3>1. ledger \in FlowLedgers /\ fees \in Fees
      BY DEF FlowInv
    <3> QED BY <2>1, <2>2, <3>1, FlowAdding, FlowBurstBigBangBalanced,
               FlowBurstSingularityBalanced DEF FlowGets
  <2>4. sets \in Seq(FlowPending)
    BY FlowApprovals
  <2>5. Flow!Burst(sets, Flow!burstBorrow(m), to)
    BY <1>4 DEF Flow!BurstBorrow
  <2> HIDE DEF to, sets
  <2> QED BY <2>1, <2>3, <2>4, <2>5, FlowBurstStep
<1>5. CASE Flow!BurstLend
  <2> DEFINE to == <<"magnetar", "sgl", "burst">>
             sets == <<Flow!Sets(<<"usdo", "ybAllowance">>, Full), Flow!Sets(<<"sgl", "operator">>, 1)>>
  <2>1. pc = <<"magnetar", "lend">> /\ pc # Flow!Thrown
    BY <1>5, FlowNotThrown DEF Flow!BurstLend
  <2>2. \A k \in Flow!Markets : FlowGot(to, k) = FlowGot(pc, k)
    BY <2>1, FlowStages
  <2>3. sets \in Seq(FlowPending)
    <3>1. /\ Flow!Sets(<<"usdo", "ybAllowance">>, Full) \in FlowPending
          /\ Flow!Sets(<<"sgl", "operator">>, 1) \in FlowPending
      BY FlowApprovals, FlowPlaces
    <3> QED BY <3>1
  <2>4. Flow!Burst(sets, Flow!burstLend, to)
    BY <1>5 DEF Flow!BurstLend
  <2> HIDE DEF to, sets
  <2> QED BY <1>1, <2>1, <2>2, <2>3, <2>4, FlowBurstLendBalanced, FlowBurstStep
<1> QED BY <1>3, <1>4, <1>5 DEF Flow!Magnetar

(* Before anything is added there is what there was. *)
LEMMA FlowStarts ==
  ASSUME NEW l \in FlowLedgers
  PROVE  FlowHas(l, l, <<"begin">>)
<1> SUFFICES ASSUME NEW m \in Flow!Markets
             PROVE  l[<<m, "collateral">>] = l[<<m, "collateral">>] + FlowGot(<<"begin">>, m)
  BY DEF FlowHas
<1>1. FlowGot(<<"begin">>, m) = 0
  BY FlowStages
<1>2. l[<<m, "collateral">>] \in Nat
  BY FlowCollateralPlace DEF FlowLedgers
<1> QED BY <1>1, <1>2

LEMMA FlowInvInit ==
  ASSUME Flow!FlowAssumption, Flow!Init
  PROVE  FlowInv
<1>1. ledger \in FlowLedgers /\ before = ledger /\ \A a \in Flow!Accounts : ledger[a] = 0
  BY DEF Flow!Init, FlowLedgers
<1>5. /\ \A m \in Flow!Markets :
           \A k \in FlowKinds : ledger[<<m, k>>] = 0
      /\ \A k \in {"wallet", "yb", "pool", "lent"} : ledger[<<"usdo", k>>] = 0
  BY <1>1, FlowPlaces
<1>2. FlowAccounted(ledger)
  <2>1. \A m \in Flow!Markets :
          /\ ledger[<<m, "minted">>] = 0 /\ ledger[<<m, "token">>] = 0
          /\ ledger[<<m, "toft">>] = 0 /\ ledger[<<m, "yb">>] = 0
          /\ ledger[<<m, "collateral">>] = 0 /\ ledger[<<m, "debt">>] = 0
          /\ ledger[<<m, "charged">>] = 0
    BY <1>5 DEF FlowKinds
  <2>2. /\ ledger[<<"usdo", "wallet">>] = 0 /\ ledger[<<"usdo", "yb">>] = 0
        /\ ledger[<<"usdo", "pool">>] = 0 /\ ledger[<<"usdo", "lent">>] = 0
    BY <1>5
  <2>3. /\ ledger[<<"bb", "debt">>] = 0 /\ ledger[<<"sgl", "debt">>] = 0
        /\ ledger[<<"bb", "charged">>] = 0 /\ ledger[<<"sgl", "charged">>] = 0
    BY <2>1, FlowPlaces
  <2>4. ASSUME NEW m \in Flow!Markets
        PROVE  ledger[<<m, "minted">>] = ledger[<<m, "token">>] + ledger[<<m, "toft">>]
                 + ledger[<<m, "yb">>] + ledger[<<m, "collateral">>]
    <3> DEFINE at(k) == ledger[<<m, k>>]
    <3>1. at("minted") = 0 /\ at("token") = 0 /\ at("toft") = 0 /\ at("yb") = 0
          /\ at("collateral") = 0
      BY <2>1
    <3> HIDE DEF at
    <3>2. at("minted") = at("token") + at("toft") + at("yb") + at("collateral")
      BY ONLY <3>1
    <3> QED BY <3>2 DEF at
  <2>5. /\ ledger[<<"bb", "debt">>] =
             ledger[<<"usdo", "wallet">>] + ledger[<<"usdo", "yb">>] + ledger[<<"usdo", "pool">>]
               + ledger[<<"bb", "charged">>]
        /\ ledger[<<"sgl", "debt">>] + ledger[<<"usdo", "pool">>] =
             ledger[<<"usdo", "lent">>] + ledger[<<"sgl", "charged">>]
    BY ONLY <2>2, <2>3
  <2> QED BY <2>4, <2>5 DEF FlowAccounted
<1>3. FlowHas(ledger, before, pc)
  BY <1>1, FlowStarts DEF Flow!Init
<1>4. pool \in Seq(FlowPending) /\ fees \in Fees /\ runs \in 1 .. MaxRuns
  BY DEF Flow!Init, Flow!FlowAssumption
<1> QED BY <1>1, <1>2, <1>3, <1>4 DEF FlowInv

(* Interest is owed and counted as charged. *)
LEMMA FlowAccrueStep ==
  ASSUME Flow!FlowAssumption, FlowInv, NEW m \in Flow!Markets, NEW n \in Interest, Flow!accrue(m, n)
  PROVE  FlowInv'
<1> DEFINE more(a) == IF a \in {<<m, "debt">>, <<m, "charged">>} THEN n ELSE 0
<1>1. n \in Nat /\ ledger \in FlowLedgers
  BY DEF Flow!FlowAssumption, FlowInv
<1>2. \A a \in Flow!Accounts : ledger'[a] = ledger[a] + more(a) /\ ledger'[a] \in Nat
  BY <1>1 DEF Flow!accrue, FlowLedgers
<1>3. ledger' \in FlowLedgers
  BY <1>2 DEF Flow!accrue, FlowLedgers
<1>4. \A a \in Flow!Accounts : ledger[a] \in Nat
  BY <1>1 DEF FlowLedgers
<1>5. \A k \in Flow!Markets : \A kind \in FlowKinds :
        /\ ledger'[<<k, kind>>] = ledger[<<k, kind>>] + more(<<k, kind>>)
        /\ ledger[<<k, kind>>] \in Nat
  BY <1>2, <1>4, FlowPlaces
<1>6. \A kind \in {"wallet", "yb", "pool", "lent"} :
        /\ ledger'[<<"usdo", kind>>] = ledger[<<"usdo", kind>>]
        /\ ledger[<<"usdo", kind>>] \in Nat
  <2>1. ASSUME NEW kind \in {"wallet", "yb", "pool", "lent"}
        PROVE  more(<<"usdo", kind>>) = 0
    BY DEF Flow!Markets
  <2> HIDE DEF more
  <2> QED BY <1>2, <1>4, <2>1, FlowPlaces
<1>7. \A k \in Flow!Markets : \A kind \in {"minted", "token", "toft", "yb", "collateral"} :
        ledger'[<<k, kind>>] = ledger[<<k, kind>>]
  <2> SUFFICES ASSUME NEW k \in Flow!Markets,
                      NEW kind \in {"minted", "token", "toft", "yb", "collateral"}
               PROVE  ledger'[<<k, kind>>] = ledger[<<k, kind>>]
    OBVIOUS
  <2>1. more(<<k, kind>>) = 0
    OBVIOUS
  <2>2. kind \in FlowKinds
    BY DEF FlowKinds
  <2> HIDE DEF more
  <2>3. /\ ledger'[<<k, kind>>] = ledger[<<k, kind>>] + more(<<k, kind>>)
        /\ ledger[<<k, kind>>] \in Nat
    BY <1>5, <2>2
  <2> QED BY <2>1, <2>3
<1>8. \A k \in Flow!Markets :
        /\ ledger'[<<k, "debt">>] = ledger[<<k, "debt">>] + (IF k = m THEN n ELSE 0)
        /\ ledger'[<<k, "charged">>] = ledger[<<k, "charged">>] + (IF k = m THEN n ELSE 0)
        /\ ledger[<<k, "debt">>] \in Nat /\ ledger[<<k, "charged">>] \in Nat
  BY <1>5 DEF FlowKinds
<1>9. FlowAccounted(ledger')
  <2>1. \A k \in Flow!Markets :
          ledger'[<<k, "minted">>] = ledger'[<<k, "token">>] + ledger'[<<k, "toft">>]
                                       + ledger'[<<k, "yb">>] + ledger'[<<k, "collateral">>]
    BY <1>7 DEF FlowInv, FlowAccounted
  <2>2. /\ ledger'[<<"bb", "debt">>] =
             ledger'[<<"usdo", "wallet">>] + ledger'[<<"usdo", "yb">>]
               + ledger'[<<"usdo", "pool">>] + ledger'[<<"bb", "charged">>]
        /\ ledger'[<<"sgl", "debt">>] + ledger'[<<"usdo", "pool">>] =
             ledger'[<<"usdo", "lent">>] + ledger'[<<"sgl", "charged">>]
    <3> DEFINE was(a) == ledger[a]
               is(a) == ledger'[a]
               bb == IF "bb" = m THEN n ELSE 0
               sgl == IF "sgl" = m THEN n ELSE 0
    <3>1. /\ is(<<"bb", "debt">>) = was(<<"bb", "debt">>) + bb
          /\ is(<<"bb", "charged">>) = was(<<"bb", "charged">>) + bb
          /\ is(<<"sgl", "debt">>) = was(<<"sgl", "debt">>) + sgl
          /\ is(<<"sgl", "charged">>) = was(<<"sgl", "charged">>) + sgl
          /\ was(<<"bb", "debt">>) \in Nat /\ was(<<"bb", "charged">>) \in Nat
          /\ was(<<"sgl", "debt">>) \in Nat /\ was(<<"sgl", "charged">>) \in Nat
      BY <1>8, FlowPlaces
    <3>2. /\ is(<<"usdo", "wallet">>) = was(<<"usdo", "wallet">>)
          /\ is(<<"usdo", "yb">>) = was(<<"usdo", "yb">>)
          /\ is(<<"usdo", "pool">>) = was(<<"usdo", "pool">>)
          /\ is(<<"usdo", "lent">>) = was(<<"usdo", "lent">>)
          /\ was(<<"usdo", "wallet">>) \in Nat /\ was(<<"usdo", "yb">>) \in Nat
          /\ was(<<"usdo", "pool">>) \in Nat /\ was(<<"usdo", "lent">>) \in Nat
      BY <1>6
    <3>3. /\ was(<<"bb", "debt">>) =
               was(<<"usdo", "wallet">>) + was(<<"usdo", "yb">>) + was(<<"usdo", "pool">>)
                 + was(<<"bb", "charged">>)
          /\ was(<<"sgl", "debt">>) + was(<<"usdo", "pool">>) =
               was(<<"usdo", "lent">>) + was(<<"sgl", "charged">>)
      BY DEF FlowInv, FlowAccounted
    <3>4. bb \in Nat /\ sgl \in Nat
      BY <1>1
    <3> HIDE DEF was, is, bb, sgl
    <3>5. /\ is(<<"bb", "debt">>) =
               is(<<"usdo", "wallet">>) + is(<<"usdo", "yb">>) + is(<<"usdo", "pool">>)
                 + is(<<"bb", "charged">>)
          /\ is(<<"sgl", "debt">>) + is(<<"usdo", "pool">>) =
               is(<<"usdo", "lent">>) + is(<<"sgl", "charged">>)
      BY ONLY <3>1, <3>2, <3>3, <3>4
    <3> QED BY <3>5 DEF is
  <2> QED BY <2>1, <2>2 DEF FlowAccounted
<1>10. FlowHas(ledger', before, pc)
  BY <1>7 DEF FlowInv, FlowHas
<1> QED BY <1>3, <1>9, <1>10 DEF FlowInv, Flow!accrue

LEMMA FlowInvNext ==
  ASSUME Flow!FlowAssumption, FlowInv, Flow!Next
  PROVE  FlowInv'
<1>1. CASE Flow!Begin
  <2> DEFINE to == IF EntryPoints THEN <<"bb", "mint">> ELSE Flow!Thrown
  <2>1. pc = <<"begin">> /\ pc # Flow!Thrown /\ Flow!Skip(to)
    BY <1>1, FlowNotThrown DEF Flow!Begin
  <2>2. to = Flow!Thrown \/ \A m \in Flow!Markets : FlowGot(to, m) = FlowGot(pc, m)
    BY <2>1, FlowStages
  <2> HIDE DEF to
  <2> QED BY <2>1, <2>2, FlowSkipStep
<1>2. CASE Flow!Rerun
  <2>1. FlowHas(ledger', before', pc')
    BY <1>2, FlowStarts DEF Flow!Rerun, FlowInv
  <2>2. runs' \in 1 .. MaxRuns
    BY <1>2 DEF Flow!Rerun, FlowInv, Flow!FlowAssumption
  <2> QED BY <1>2, <2>1, <2>2 DEF Flow!Rerun, FlowInv
<1>3. ASSUME NEW f \in Fees, Flow!FeesChange(f)
      PROVE  FlowInv'
  BY <1>3 DEF Flow!FeesChange, FlowInv
<1> QED BY <1>1, <1>2, <1>3, FlowMarketStep, FlowLendStep, FlowMagnetarStep, FlowMineStep,
           FlowAccrueStep DEF Flow!Next, Flow!sameChainFlowTest__task

(* What the invariant says of the flow. *)
LEMMA FlowInvGives ==
  ASSUME Flow!FlowAssumption, FlowInv
  PROVE  /\ Flow!TypeOK /\ Flow!CollateralAccounted /\ Flow!UsdoAccounted
         /\ Flow!WaitsForMarkets /\ Flow!DoneMeansCollateral
<1>1. ASSUME NEW i \in 1 .. Len(pool)
      PROVE  /\ DOMAIN pool[i].sets \subseteq Flow!Accounts
             /\ DOMAIN pool[i].gives \subseteq {<<"usdo", "wallet">>}
  <2>1. pool[i] \in FlowPending
    BY DEF FlowInv
  <2>2. CASE \E n \in {Full, Some} : pool[i] = Flow!withdraw(n)
    BY <2>2 DEF Flow!withdraw, Flow!Tx, Flow!One, Flow!None
  <2>3. CASE \E a \in FlowApprovable, n \in {1, Full, Some} : pool[i] = Flow!Sets(a, n)
    BY <2>3, FlowPlaces DEF Flow!Sets, Flow!Tx, Flow!One, Flow!None
  <2> QED BY <2>1, <2>2, <2>3 DEF FlowPending
<1>2. Flow!TypeOK
  BY <1>1 DEF FlowInv, FlowLedgers, Flow!TypeOK
<1>3. Flow!CollateralAccounted /\ Flow!UsdoAccounted
  BY DEF FlowInv, FlowAccounted, Flow!CollateralAccounted, Flow!UsdoAccounted
<1>4. Flow!DoneMeansCollateral
  BY DEF FlowInv, FlowHas, FlowGot, FlowTwice, Flow!Thrown, Flow!Done, Flow!Markets,
         Flow!DoneMeansCollateral
<1> QED BY <1>1, <1>2, <1>3, <1>4 DEF Flow!WaitsForMarkets

(***************************************************************************)
(* MockSwapper.                                                            *)
(***************************************************************************)
(* What every transaction of a sequence preserves, mining all of them does. *)
LEMMA SwapperMinedClosed ==
  ASSUME NEW D, NEW l \in D, NEW n \in Nat, NEW txs, DOMAIN txs = 1 .. n,
         \A x \in D, i \in 1 .. n : Swapper!Apply(x, txs[i]) \in D
  PROVE  Swapper!Mined(l, txs) \in D
<1> DEFINE Body(g) == [s \in SUBSET (1 .. n) |->
                         IF s = {} THEN l
                         ELSE Swapper!Apply(g[s \ {GreatestOf(s)}], txs[GreatestOf(s)])]
           it == CHOOSE g : g = Body(g)
<1>1. Swapper!Mined(l, txs) = it[1 .. n]
  BY DEF Swapper!Mined, Swapper!FoldLeft, Swapper!MapThenFoldSet, Swapper!Max, GreatestOf
<1>2. \E g : g = Body(g)
  <2> DEFINE F == [p \in D \X (1 .. n) |-> Swapper!Apply(p[1], txs[p[2]])]
  <2> HIDE DEF it
  <2>1. F \in [D \X (1 .. n) -> D]
    <3> SUFFICES ASSUME NEW p \in D \X (1 .. n) PROVE Swapper!Apply(p[1], txs[p[2]]) \in D
      OBVIOUS
    <3>1. p[1] \in D /\ p[2] \in 1 .. n
      OBVIOUS
    <3> QED BY <3>1
  <2>2. PICK g \in [SUBSET (1 .. n) -> D] : IsFold(g, n, l, F)
    <3> HIDE DEF F, Body
    <3> QED BY <2>1, FoldExists
  <2>3. ASSUME NEW s \in SUBSET (1 .. n)
        PROVE  g[s] = IF s = {} THEN l
                      ELSE Swapper!Apply(g[s \ {GreatestOf(s)}], txs[GreatestOf(s)])
    <3>1. CASE s = {}
      BY <2>2, <3>1 DEF IsFold
    <3>2. CASE s # {}
      <4>1. GreatestOf(s) \in 1 .. n
        BY <3>2, Greatest
      <4>2. g[s \ {GreatestOf(s)}] \in D
        BY <4>1
      <4>3. F[<<g[s \ {GreatestOf(s)}], GreatestOf(s)>>]
               = Swapper!Apply(g[s \ {GreatestOf(s)}], txs[GreatestOf(s)])
        BY <4>1, <4>2
      <4> QED BY <2>2, <3>2, <4>3 DEF IsFold
    <3> QED BY <3>1, <3>2
  <2>4. g = Body(g)
    BY <2>3
  <2> QED BY <2>4
<1>3. it = Body(it)
  BY <1>2
<1> HIDE DEF it
<1>4. it[{}] \in D
  BY <1>3
<1>5. ASSUME NEW k \in 1 .. n, it[1 .. k - 1] \in D
      PROVE  it[1 .. k] \in D
  <2>1. /\ 1 .. k # {} /\ 1 .. k \in SUBSET (1 .. n)
        /\ GreatestOf(1 .. k) = k /\ (1 .. k) \ {k} = 1 .. k - 1
    BY GreatestOfPrefix
  <2>2. Body(it)[1 .. k] = Swapper!Apply(it[1 .. k - 1], txs[k])
    BY <2>1
  <2>3. it[1 .. k] = Swapper!Apply(it[1 .. k - 1], txs[k])
    <3> HIDE DEF Body
    <3> QED BY <1>3, <2>2
  <2> QED BY <1>5, <2>3
<1>6. it[1 .. n] \in D
  BY <1>4, <1>5, FoldPrefixes, Zenon
<1> QED BY <1>1, <1>6

\* What the swappers hold, and its sums from the first one on.
SwapperTotal(s) == Swapper!FoldLeft(+, 0, s)
RunningSums(r, s) ==
  /\ r \in [0 .. Len(s) -> Nat]
  /\ r[0] = 0 /\ \A k \in 1 .. Len(s) : r[k] = r[k - 1] + s[k]

LEMMA SwapperTotalRuns ==
  ASSUME NEW s \in Seq(Nat)
  PROVE  \E r : RunningSums(r, s) /\ SwapperTotal(s) = r[Len(s)]
<1> DEFINE n == Len(s)
           Body(g) == [t \in SUBSET (1 .. n) |->
                         IF t = {} THEN 0 ELSE g[t \ {GreatestOf(t)}] + s[GreatestOf(t)]]
           it == CHOOSE g : g = Body(g)
<1>1. DOMAIN s = 1 .. n /\ n \in Nat /\ \A i \in 1 .. n : s[i] \in Nat
  OBVIOUS
<1>2. SwapperTotal(s) = it[1 .. n]
  BY <1>1 DEF SwapperTotal, Swapper!FoldLeft, Swapper!MapThenFoldSet, Swapper!Max, GreatestOf
<1> HIDE DEF n
<1>3. \E g \in [SUBSET (1 .. n) -> Nat] : g = Body(g)
  <2> DEFINE F == [p \in Nat \X (1 .. n) |-> p[1] + s[p[2]]]
  <2> HIDE DEF it
  <2>1. F \in [Nat \X (1 .. n) -> Nat]
    <3> SUFFICES ASSUME NEW p \in Nat \X (1 .. n) PROVE p[1] + s[p[2]] \in Nat
      OBVIOUS
    <3>1. p[1] \in Nat /\ p[2] \in 1 .. n
      OBVIOUS
    <3> QED BY <1>1, <3>1
  <2>2. PICK g \in [SUBSET (1 .. n) -> Nat] : IsFold(g, n, 0, F)
    <3> HIDE DEF F, Body
    <3> QED BY <1>1, <2>1, FoldExists
  <2>3. ASSUME NEW t \in SUBSET (1 .. n)
        PROVE  g[t] = IF t = {} THEN 0 ELSE g[t \ {GreatestOf(t)}] + s[GreatestOf(t)]
    <3>1. CASE t = {}
      BY <2>2, <3>1 DEF IsFold
    <3>2. CASE t # {}
      <4>1. GreatestOf(t) \in 1 .. n
        BY <1>1, <3>2, Greatest
      <4>2. g[t \ {GreatestOf(t)}] \in Nat
        BY <4>1
      <4>3. F[<<g[t \ {GreatestOf(t)}], GreatestOf(t)>>]
               = g[t \ {GreatestOf(t)}] + s[GreatestOf(t)]
        BY <4>1, <4>2
      <4> QED BY <2>2, <3>2, <4>3 DEF IsFold
    <3> QED BY <3>1, <3>2
  <2>4. g = Body(g)
    BY <2>3
  <2> QED BY <2>4
<1>4. it = Body(it)
  BY <1>3
<1> HIDE DEF it
<1>5. it[{}] = 0
  BY <1>4
<1>6. ASSUME NEW k \in 1 .. n
      PROVE  it[1 .. k] = it[1 .. k - 1] + s[k]
  <2>1. /\ 1 .. k # {} /\ 1 .. k \in SUBSET (1 .. n)
        /\ GreatestOf(1 .. k) = k /\ (1 .. k) \ {k} = 1 .. k - 1
    BY <1>1, GreatestOfPrefix
  <2>2. Body(it)[1 .. k] = it[1 .. k - 1] + s[k]
    BY <2>1
  <2> HIDE DEF Body
  <2> QED BY <1>4, <2>2
<1> DEFINE r == [k \in 0 .. n |-> it[1 .. k]]
<1>7. r[0] = 0
  <2>1. 1 .. 0 = {}
    OBVIOUS
  <2> QED BY <1>1, <1>5, <2>1
<1>8. ASSUME NEW k \in 1 .. n PROVE r[k] = r[k - 1] + s[k]
  BY <1>1, <1>6
<1>9. r \in [0 .. n -> Nat]
  <2> HIDE DEF r
  <2> DEFINE S == {k \in 0 .. n : r[k] \in Nat}
  <2>1. 0 \in S
    BY <1>1, <1>7
  <2>2. ASSUME NEW k \in 1 .. n, k - 1 \in S PROVE k \in S
    BY <1>1, <1>8, <2>2
  <2>3. ASSUME NEW k \in 0 .. n PROVE r[k] \in Nat
    <3>1. \A j \in 1 .. k : j - 1 \in S => j \in S
      BY <1>1, <2>2
    <3> HIDE DEF S
    <3>2. k \in S
      BY <1>1, <2>1, <3>1, Prefixes
    <3> QED BY <3>2 DEF S
  <2> QED BY <2>3 DEF r
<1>10. SwapperTotal(s) = r[n]
  BY <1>1, <1>2
<1> QED BY <1>7, <1>8, <1>9, <1>10 DEF RunningSums, n

LEMMA SwapperTotalEmpty ==
  SwapperTotal(<<>>) = 0
<1>1. <<>> \in Seq(Nat) /\ Len(<<>>) = 0
  OBVIOUS
<1>2. PICK r : RunningSums(r, <<>>) /\ SwapperTotal(<<>>) = r[0]
  BY <1>1, SwapperTotalRuns
<1> QED BY <1>2 DEF RunningSums

(* A swapper that is deployed holds nothing. *)
LEMMA SwapperTotalAppend ==
  ASSUME NEW s \in Seq(Nat)
  PROVE  /\ SwapperTotal(Append(s, 0)) = SwapperTotal(s) /\ SwapperTotal(s) \in Nat
<1> DEFINE t == Append(s, 0)
           n == Len(s)
<1>1. t \in Seq(Nat) /\ Len(t) = n + 1 /\ n \in Nat /\ t[n + 1] = 0
      /\ \A i \in 1 .. n : t[i] = s[i] /\ s[i] \in Nat
  OBVIOUS
<1>2. PICK r : RunningSums(r, s) /\ SwapperTotal(s) = r[n]
  BY SwapperTotalRuns
<1>3. PICK q : RunningSums(q, t) /\ SwapperTotal(t) = q[n + 1]
  BY <1>1, SwapperTotalRuns
<1> HIDE DEF t, n
<1> DEFINE S == {k \in 0 .. n : q[k] = r[k]}
<1>4. /\ r \in [0 .. n -> Nat] /\ r[0] = 0 /\ \A k \in 1 .. n : r[k] = r[k - 1] + s[k]
      /\ q \in [0 .. n + 1 -> Nat] /\ q[0] = 0 /\ \A k \in 1 .. n + 1 : q[k] = q[k - 1] + t[k]
  BY <1>1, <1>2, <1>3 DEF RunningSums, n
<1>5. 0 \in S
  BY <1>1, <1>4
<1>6. ASSUME NEW k \in 1 .. n, k - 1 \in S PROVE k \in S
  BY <1>1, <1>4, <1>6
<1> HIDE DEF S
<1>7. n \in S
  BY <1>1, <1>5, <1>6, Prefixes
<1>8. q[n] = r[n] /\ r[n] \in Nat
  BY <1>1, <1>4, <1>7 DEF S
<1>9. q[n + 1] = q[n] + 0
  BY <1>1, <1>4
<1> QED BY <1>2, <1>3, <1>8, <1>9 DEF t

(* What one swapper gets more, they all have more. *)
LEMMA SwapperTotalGrows ==
  ASSUME NEW s \in Seq(Nat), NEW i \in 1 .. Len(s)
  PROVE  SwapperTotal([s EXCEPT ![i] = s[i] + 1]) = SwapperTotal(s) + 1
<1> DEFINE t == [s EXCEPT ![i] = s[i] + 1]
           n == Len(s)
<1>1. /\ t \in Seq(Nat) /\ Len(t) = n /\ n \in Nat /\ i \in 1 .. n
      /\ \A j \in 1 .. n : s[j] \in Nat /\ t[j] = IF j = i THEN s[j] + 1 ELSE s[j]
  OBVIOUS
<1>2. PICK r : RunningSums(r, s) /\ SwapperTotal(s) = r[n]
  BY SwapperTotalRuns
<1>3. PICK q : RunningSums(q, t) /\ SwapperTotal(t) = q[n]
  BY <1>1, SwapperTotalRuns
<1> HIDE DEF t, n
<1> DEFINE more(k) == IF k < i THEN 0 ELSE 1
           S == {k \in 0 .. n : q[k] = r[k] + more(k)}
<1>4. /\ r \in [0 .. n -> Nat] /\ r[0] = 0 /\ \A k \in 1 .. n : r[k] = r[k - 1] + s[k]
      /\ q \in [0 .. n -> Nat] /\ q[0] = 0 /\ \A k \in 1 .. n : q[k] = q[k - 1] + t[k]
  BY <1>1, <1>2, <1>3 DEF RunningSums, n
<1>5. 0 \in S
  BY <1>1, <1>4
<1>6. ASSUME NEW k \in 1 .. n, k - 1 \in S PROVE k \in S
  <2>1. q[k] = q[k - 1] + t[k] /\ r[k] = r[k - 1] + s[k] /\ s[k] \in Nat
    BY <1>1, <1>4
  <2>5. r[k - 1] \in Nat
    <3>1. k - 1 \in 0 .. n
      BY <1>1
    <3> QED BY <1>4, <3>1
  <2>2. q[k - 1] = r[k - 1] + more(k - 1)
    BY <1>6
  <2>3. t[k] = IF k = i THEN s[k] + 1 ELSE s[k]
    BY <1>1
  <2>4. q[k] = r[k] + more(k)
    <3>1. CASE k < i
      <4> DEFINE a == r[k - 1]  b == s[k]  c == q[k - 1]  d == t[k]
      <4>1. c = a + 0 /\ d = b /\ more(k) = 0
        BY <1>1, <2>2, <2>3, <3>1
      <4>2. a \in Nat /\ b \in Nat /\ q[k] = c + d /\ r[k] = a + b
        BY <2>1, <2>5
      <4> HIDE DEF more, a, b, c, d
      <4>3. q[k] = r[k] + more(k)
        BY <4>1, <4>2
      <4> QED BY <4>3
    <3>2. CASE k = i
      <4> DEFINE a == r[k - 1]  b == s[k]  c == q[k - 1]  d == t[k]
      <4>1. c = a + 0 /\ d = b + 1 /\ more(k) = 1
        BY <1>1, <2>2, <2>3, <3>2
      <4>2. a \in Nat /\ b \in Nat /\ q[k] = c + d /\ r[k] = a + b
        BY <2>1, <2>5
      <4> HIDE DEF more, a, b, c, d
      <4>3. q[k] = r[k] + more(k)
        BY <4>1, <4>2
      <4> QED BY <4>3
    <3>3. CASE k > i
      <4> DEFINE a == r[k - 1]  b == s[k]  c == q[k - 1]  d == t[k]
      <4>1. c = a + 1 /\ d = b /\ more(k) = 1
        BY <1>1, <2>2, <2>3, <3>3
      <4>2. a \in Nat /\ b \in Nat /\ q[k] = c + d /\ r[k] = a + b
        BY <2>1, <2>5
      <4> HIDE DEF more, a, b, c, d
      <4>3. q[k] = r[k] + more(k)
        BY <4>1, <4>2
      <4> QED BY <4>3
    <3> QED BY <1>1, <3>1, <3>2, <3>3
  <2> QED BY <1>1, <2>4
<1> HIDE DEF S
<1>7. n \in S
  BY <1>1, <1>5, <1>6, Prefixes
<1>8. q[n] = r[n] + 1
  BY <1>1, <1>7 DEF S
<1> QED BY <1>2, <1>3, <1>8 DEF t

\* The ledgers with n swappers on which the tOFTs are backed, f under way.
SwapperLedgers ==
  [token : Nat, minted : Nat, wrapAllowance : 0 .. 1, locked : Nat,
   toft : [Swapper!Chains -> Nat], ybAllowance : 0 .. 1, swappers : Seq(Nat)]
SwapperBacked(l, f) ==
  l.locked = l.toft["main"] + l.toft["side"] + f + SwapperTotal(l.swappers)
SwapperLike(n, f) ==
  {l \in SwapperLedgers : Len(l.swappers) = n /\ SwapperBacked(l, f)}
\* What is sent and not waited for, with n swappers.
SwapperPending(n) ==
  {Swapper!Tx("mintTo"), Swapper!Tx("approveYieldBox")}
    \cup {Swapper!depositAsset(i) : i \in 1 .. n}

SwapperInv ==
  /\ host \in Swapper!Chains
  /\ swapLedger \in SwapperLedgers
  /\ flight \in Nat /\ done \in Nat
  /\ SwapperBacked(swapLedger, flight)
  /\ swapPool \in [Swapper!Chains -> Seq(SwapperPending(Len(swapLedger.swappers)))]
  /\ file.swapper \in 0 .. Len(swapLedger.swappers)
  /\ file = [swapper |-> file.swapper, yieldBox |-> file.yieldBox]
  /\ swapPc \in {"approveYieldBox", "deposit"} => target \in 1 .. Len(swapLedger.swappers)
  /\ hasty \in 0 .. MaxHasty /\ swapCrashes \in 0 .. MaxCrashes

(* Each transaction keeps the backing; one that sends takes from the chain. *)
LEMMA SwapperPendingApply ==
  ASSUME NEW n \in Nat, NEW f \in Nat, NEW l \in SwapperLike(n, f), NEW tx \in SwapperPending(n)
  PROVE  Swapper!Apply(l, tx) \in SwapperLike(n, f)
<1>1. /\ l \in SwapperLedgers /\ Len(l.swappers) = n /\ SwapperBacked(l, f)
  BY DEF SwapperLike
<1>2. CASE ~Swapper!Works(l, tx)
  BY <1>2 DEF Swapper!Apply
<1>3. CASE tx = Swapper!Tx("mintTo")
  <2>1. tx.fn = "mintTo"
    BY <1>3 DEF Swapper!Tx
  <2>2. Swapper!Apply(l, tx) = [l EXCEPT !.token = l.token + 1, !.minted = l.minted + 1]
    BY <2>1 DEF Swapper!Apply, Swapper!Works, Swapper!After
  <2> DEFINE r == Swapper!Apply(l, tx)
  <2>3. /\ r.token = l.token + 1 /\ r.minted = l.minted + 1
        /\ r.wrapAllowance = l.wrapAllowance /\ r.ybAllowance = l.ybAllowance
        /\ r.locked = l.locked /\ r.toft = l.toft /\ r.swappers = l.swappers
    BY <1>1, <2>2 DEF SwapperLedgers
  <2>4. r = [token |-> r.token, minted |-> r.minted, wrapAllowance |-> r.wrapAllowance,
             locked |-> r.locked, toft |-> r.toft, ybAllowance |-> r.ybAllowance,
             swappers |-> r.swappers]
    BY <1>1, <2>2 DEF SwapperLedgers
  <2> HIDE DEF r
  <2>5. r \in SwapperLedgers
    BY <1>1, <2>3, <2>4 DEF SwapperLedgers
  <2>6. SwapperBacked(r, f)
    BY <1>1, <2>3, Zenon DEF SwapperBacked
  <2> QED BY <1>1, <2>3, <2>5, <2>6 DEF SwapperLike, r
<1>4. CASE tx = Swapper!Tx("approveYieldBox")
  <2>1. tx.fn = "approveYieldBox"
    BY <1>4 DEF Swapper!Tx
  <2>2. Swapper!Apply(l, tx) = [l EXCEPT !.ybAllowance = 1]
    BY <2>1 DEF Swapper!Apply, Swapper!Works, Swapper!After
  <2> DEFINE r == Swapper!Apply(l, tx)
  <2>3. /\ r.token = l.token /\ r.minted = l.minted
        /\ r.wrapAllowance = l.wrapAllowance /\ r.ybAllowance = 1
        /\ r.locked = l.locked /\ r.toft = l.toft /\ r.swappers = l.swappers
    BY <1>1, <2>2 DEF SwapperLedgers
  <2>4. r = [token |-> r.token, minted |-> r.minted, wrapAllowance |-> r.wrapAllowance,
             locked |-> r.locked, toft |-> r.toft, ybAllowance |-> r.ybAllowance,
             swappers |-> r.swappers]
    BY <1>1, <2>2 DEF SwapperLedgers
  <2> HIDE DEF r
  <2>5. r \in SwapperLedgers
    BY <1>1, <2>3, <2>4 DEF SwapperLedgers
  <2>6. SwapperBacked(r, f)
    BY <1>1, <2>3, Zenon DEF SwapperBacked
  <2> QED BY <1>1, <2>3, <2>5, <2>6 DEF SwapperLike, r
<1>5. CASE Swapper!Works(l, tx) /\ \E i \in 1 .. n : tx = Swapper!depositAsset(i)
  <2>1. PICK i \in 1 .. n : tx = Swapper!depositAsset(i)
    BY <1>5
  <2>2. tx.fn = "depositAsset" /\ tx.to = i
    BY <2>1 DEF Swapper!depositAsset
  <2>3. l.toft["main"] > 0 /\ l.ybAllowance > 0
    BY <1>5, <2>2 DEF Swapper!Works
  <2> DEFINE r == Swapper!After(l, tx)
  <2>4. r = [l EXCEPT !.toft["main"] = @ - 1, !.ybAllowance = @ - 1,
                      !.swappers[i] = @ + 1]
    BY <2>2 DEF Swapper!After
  <2> HIDE DEF r
  <2>5. /\ r.token = l.token /\ r.minted = l.minted /\ r.wrapAllowance = l.wrapAllowance
        /\ r.locked = l.locked
        /\ r.toft = [l.toft EXCEPT !["main"] = l.toft["main"] - 1]
        /\ r.ybAllowance = l.ybAllowance - 1
        /\ r.swappers = [l.swappers EXCEPT ![i] = l.swappers[i] + 1]
    BY <1>1, <2>4 DEF SwapperLedgers
  <2>6. r = [token |-> r.token, minted |-> r.minted, wrapAllowance |-> r.wrapAllowance,
             locked |-> r.locked, toft |-> r.toft, ybAllowance |-> r.ybAllowance,
             swappers |-> r.swappers]
    BY <1>1, <2>4 DEF SwapperLedgers
  <2>7. l.toft["main"] \in Nat /\ l.toft["side"] \in Nat /\ l.toft \in [Swapper!Chains -> Nat]
        /\ l.ybAllowance \in 0 .. 1 /\ l.locked \in Nat
    BY <1>1 DEF SwapperLedgers, Swapper!Chains
  <2>8. /\ r.toft \in [Swapper!Chains -> Nat] /\ r.toft["side"] = l.toft["side"]
        /\ r.toft["main"] = l.toft["main"] - 1
    BY <2>3, <2>5, <2>7 DEF Swapper!Chains
  <2>9. /\ r.swappers \in Seq(Nat) /\ Len(r.swappers) = n
        /\ SwapperTotal(r.swappers) = SwapperTotal(l.swappers) + 1
        /\ SwapperTotal(l.swappers) \in Nat
    <3>1. l.swappers \in Seq(Nat)
      BY <1>1 DEF SwapperLedgers
    <3>2. SwapperTotal([l.swappers EXCEPT ![i] = l.swappers[i] + 1]) = SwapperTotal(l.swappers) + 1
      BY <1>1, <3>1, SwapperTotalGrows
    <3> QED BY <1>1, <2>5, <3>1, <3>2, SwapperTotalAppend
  <2>10. SwapperBacked(r, f)
    <3>1. l.locked = l.toft["main"] + l.toft["side"] + f + SwapperTotal(l.swappers)
      BY <1>1 DEF SwapperBacked
    <3>2. r.locked = r.toft["main"] + r.toft["side"] + f + SwapperTotal(r.swappers)
      <4> DEFINE L == l.locked  M == l.toft["main"]  S == l.toft["side"]
                 T == SwapperTotal(l.swappers)
                 M1 == r.toft["main"]  T1 == SwapperTotal(r.swappers)
      <4>1. M1 = M - 1 /\ T1 = T + 1 /\ M \in Nat /\ S \in Nat /\ T \in Nat /\ L = M + S + f + T
        BY <2>7, <2>8, <2>9, <3>1
      <4>2. r.locked = L /\ r.toft["side"] = S
        BY <2>5, <2>8
      <4> HIDE DEF L, M, S, T, M1, T1
      <4>3. L = M1 + S + f + T1
        BY <4>1
      <4> QED BY <4>2, <4>3 DEF M1, T1
    <3> QED BY <3>2 DEF SwapperBacked
  <2>11. r.ybAllowance \in 0 .. 1
    BY <2>3, <2>5, <2>7
  <2>12. r \in SwapperLedgers
    <3>1. r.token \in Nat /\ r.minted \in Nat /\ r.wrapAllowance \in 0 .. 1 /\ r.locked \in Nat
      BY <1>1, <2>5 DEF SwapperLedgers
    <3> QED BY <2>6, <2>8, <2>9, <2>11, <3>1 DEF SwapperLedgers
  <2>13. Swapper!Apply(l, tx) = r
    BY <1>5 DEF Swapper!Apply, r
  <2> QED BY <2>9, <2>10, <2>12, <2>13 DEF SwapperLike
<1> QED BY <1>2, <1>3, <1>4, <1>5 DEF SwapperPending

LEMMA SwapperPendingMined ==
  ASSUME NEW n \in Nat, NEW f \in Nat, NEW l \in SwapperLike(n, f),
         NEW txs \in Seq(SwapperPending(n))
  PROVE  Swapper!Mined(l, txs) \in SwapperLike(n, f)
<1>1. Len(txs) \in Nat /\ DOMAIN txs = 1 .. Len(txs)
  OBVIOUS
<1>2. ASSUME NEW x \in SwapperLike(n, f), NEW i \in 1 .. Len(txs)
      PROVE  Swapper!Apply(x, txs[i]) \in SwapperLike(n, f)
  <2>1. txs[i] \in SwapperPending(n)
    OBVIOUS
  <2> QED BY <2>1, SwapperPendingApply
<1> QED BY <1>1, <1>2, SwapperMinedClosed, Zenon

(* The transactions the task waits for; tOFTs that are sent are under way. *)
LEMMA SwapperAwaited ==
  ASSUME NEW n \in Nat, NEW f \in Nat, NEW l \in SwapperLike(n, f), host \in Swapper!Chains,
         NEW tx \in {Swapper!Tx("approve"), Swapper!Tx("wrap"), Swapper!Tx("sendFrom")}
  PROVE  Swapper!Apply(l, tx) \in
           SwapperLike(n, f + (IF tx.fn = "sendFrom" /\ Swapper!Works(l, tx) THEN 1 ELSE 0))
<1> DEFINE r == Swapper!Apply(l, tx)
           more == IF tx.fn = "sendFrom" /\ Swapper!Works(l, tx) THEN 1 ELSE 0
<1>1. l \in SwapperLedgers /\ Len(l.swappers) = n /\ SwapperBacked(l, f)
  BY DEF SwapperLike
<1>2. /\ l.toft["main"] \in Nat /\ l.toft["side"] \in Nat /\ l.toft \in [Swapper!Chains -> Nat]
      /\ l.token \in Nat /\ l.minted \in Nat /\ l.locked \in Nat
      /\ l.wrapAllowance \in 0 .. 1 /\ l.ybAllowance \in 0 .. 1
      /\ l.swappers \in Seq(Nat) /\ SwapperTotal(l.swappers) \in Nat
  <2>1. l.swappers \in Seq(Nat)
    BY <1>1 DEF SwapperLedgers
  <2> QED BY <1>1, <2>1, SwapperTotalAppend DEF SwapperLedgers, Swapper!Chains
<1>3. l.locked = l.toft["main"] + l.toft["side"] + f + SwapperTotal(l.swappers)
  BY <1>1 DEF SwapperBacked
<1>4. CASE tx.fn \in {"wrap", "sendFrom"} /\ ~Swapper!Works(l, tx)
  <2>1. r = l /\ more = 0
    BY <1>4 DEF Swapper!Apply
  <2>2. f + 0 = f
    OBVIOUS
  <2> QED BY <2>1, <2>2
<1>5. CASE tx.fn = "approve"
  <2>1. r = [l EXCEPT !.wrapAllowance = 1] /\ more = 0
    BY <1>5 DEF Swapper!Apply, Swapper!Works, Swapper!After
  <2>2. /\ r.token = l.token /\ r.minted = l.minted
        /\ r.wrapAllowance = 1 /\ r.ybAllowance = l.ybAllowance
        /\ r.locked = l.locked /\ r.toft = l.toft /\ r.swappers = l.swappers
        /\ r = [token |-> r.token, minted |-> r.minted, wrapAllowance |-> r.wrapAllowance,
                locked |-> r.locked, toft |-> r.toft, ybAllowance |-> r.ybAllowance,
                swappers |-> r.swappers]
    BY <1>1, <2>1 DEF SwapperLedgers
  <2>3. f + 0 = f
    OBVIOUS
  <2> HIDE DEF r, more
  <2>4. r \in SwapperLedgers
    BY <1>2, <2>2 DEF SwapperLedgers
  <2>5. SwapperBacked(r, f)
    BY <1>1, <2>2, Zenon DEF SwapperBacked
  <2> QED BY <1>1, <2>1, <2>2, <2>3, <2>4, <2>5 DEF SwapperLike, r, more
<1>6. CASE tx.fn = "wrap" /\ Swapper!Works(l, tx)
  <2>1. l.token > 0 /\ l.wrapAllowance > 0 /\ more = 0
    BY <1>6 DEF Swapper!Works
  <2>2. r = [l EXCEPT !.token = @ - 1, !.wrapAllowance = @ - 1, !.locked = @ + 1,
                      !.toft[host] = @ + 1]
    BY <1>6 DEF Swapper!Apply, Swapper!After
  <2>3. /\ r.token = l.token - 1 /\ r.minted = l.minted
        /\ r.wrapAllowance = l.wrapAllowance - 1 /\ r.ybAllowance = l.ybAllowance
        /\ r.locked = l.locked + 1 /\ r.toft = [l.toft EXCEPT ![host] = l.toft[host] + 1]
        /\ r.swappers = l.swappers
        /\ r = [token |-> r.token, minted |-> r.minted, wrapAllowance |-> r.wrapAllowance,
                locked |-> r.locked, toft |-> r.toft, ybAllowance |-> r.ybAllowance,
                swappers |-> r.swappers]
    BY <1>1, <2>2 DEF SwapperLedgers
  <2> HIDE DEF r, more
  <2>4. /\ r.toft \in [Swapper!Chains -> Nat]
        /\ \/ r.toft["main"] = l.toft["main"] + 1 /\ r.toft["side"] = l.toft["side"]
           \/ r.toft["side"] = l.toft["side"] + 1 /\ r.toft["main"] = l.toft["main"]
    BY <1>2, <2>3 DEF Swapper!Chains
  <2>5. r \in SwapperLedgers
    <3>1. r.token \in Nat /\ r.wrapAllowance \in 0 .. 1 /\ r.locked \in Nat
      <4> DEFINE a == l.token  b == l.wrapAllowance  c == l.locked
      <4>1. /\ r.token = a - 1 /\ r.wrapAllowance = b - 1 /\ r.locked = c + 1
            /\ a \in Nat /\ a > 0 /\ b \in 0 .. 1 /\ b > 0 /\ c \in Nat
        BY <1>2, <2>1, <2>3
      <4> HIDE DEF a, b, c
      <4> QED BY <4>1
    <3> QED BY <1>2, <2>3, <2>4, <3>1 DEF SwapperLedgers
  <2>6. SwapperBacked(r, f)
    <3> DEFINE M == l.toft["main"]  S == l.toft["side"]  T == SwapperTotal(l.swappers)
               M1 == r.toft["main"]  S1 == r.toft["side"]  L == l.locked  L1 == r.locked
    <3>1. /\ L1 = L + 1 /\ L = M + S + f + T /\ M \in Nat /\ S \in Nat /\ T \in Nat
          /\ (M1 = M + 1 /\ S1 = S) \/ (S1 = S + 1 /\ M1 = M)
      BY <1>2, <1>3, <2>3, <2>4
    <3> HIDE DEF M, S, T, M1, S1, L, L1
    <3>2. L1 = M1 + S1 + f + T
      BY <3>1
    <3> QED BY <2>3, <3>2 DEF M1, S1, T, L1, SwapperBacked
  <2>7. f + 0 = f
    OBVIOUS
  <2> QED BY <1>1, <2>1, <2>3, <2>5, <2>6, <2>7 DEF SwapperLike, r, more
<1>7. CASE tx.fn = "sendFrom" /\ Swapper!Works(l, tx)
  <2>1. l.toft[host] > 0 /\ more = 1
    BY <1>7 DEF Swapper!Works
  <2>2. r = [l EXCEPT !.toft[host] = @ - 1]
    BY <1>7 DEF Swapper!Apply, Swapper!After
  <2>3. /\ r.token = l.token /\ r.minted = l.minted
        /\ r.wrapAllowance = l.wrapAllowance /\ r.ybAllowance = l.ybAllowance
        /\ r.locked = l.locked /\ r.toft = [l.toft EXCEPT ![host] = l.toft[host] - 1]
        /\ r.swappers = l.swappers
        /\ r = [token |-> r.token, minted |-> r.minted, wrapAllowance |-> r.wrapAllowance,
                locked |-> r.locked, toft |-> r.toft, ybAllowance |-> r.ybAllowance,
                swappers |-> r.swappers]
    BY <1>1, <2>2 DEF SwapperLedgers
  <2> HIDE DEF r, more
  <2>4. /\ r.toft \in [Swapper!Chains -> Nat]
        /\ \/ r.toft["main"] = l.toft["main"] - 1 /\ r.toft["side"] = l.toft["side"]
           \/ r.toft["side"] = l.toft["side"] - 1 /\ r.toft["main"] = l.toft["main"]
    BY <1>2, <2>1, <2>3 DEF Swapper!Chains
  <2>5. r \in SwapperLedgers
    BY <1>2, <2>3, <2>4 DEF SwapperLedgers
  <2>6. SwapperBacked(r, f + 1)
    <3> DEFINE M == l.toft["main"]  S == l.toft["side"]  T == SwapperTotal(l.swappers)
               M1 == r.toft["main"]  S1 == r.toft["side"]  L == l.locked  L1 == r.locked
    <3>1. /\ L1 = L /\ L = M + S + f + T /\ M \in Nat /\ S \in Nat /\ T \in Nat
          /\ (M1 = M - 1 /\ S1 = S) \/ (S1 = S - 1 /\ M1 = M)
      BY <1>2, <1>3, <2>3, <2>4
    <3> HIDE DEF M, S, T, M1, S1, L, L1
    <3>2. L1 = M1 + S1 + (f + 1) + T
      BY <3>1
    <3> QED BY <2>3, <3>2 DEF M1, S1, T, L1, SwapperBacked
  <2> QED BY <1>1, <2>1, <2>3, <2>5, <2>6 DEF SwapperLike, r, more
<1> QED
  <2>1. tx.fn \in {"approve", "wrap", "sendFrom"}
    BY DEF Swapper!Tx
  <2> QED BY <1>4, <1>5, <1>6, <1>7, <2>1

LEMMA SwapperInvLike ==
  SwapperInv => /\ Len(swapLedger.swappers) \in Nat /\ flight \in Nat
                /\ swapLedger \in SwapperLike(Len(swapLedger.swappers), flight)
  BY DEF SwapperInv, SwapperLike, SwapperLedgers

\* What the steps of the task leave alone, and how they stop.
SwapperRests == UNCHANGED <<host, file, chain, hasty, swapCrashes>>

LEMMA SwapperThrowStep ==
  ASSUME SwapperInv, SwapperRests, Swapper!Throw, UNCHANGED target
  PROVE  SwapperInv'
  BY DEF SwapperInv, SwapperRests, Swapper!Throw

LEMMA SwapperSendStep ==
  ASSUME SwapperInv, SwapperRests, UNCHANGED target,
         NEW c \in Swapper!Chains, NEW tx \in SwapperPending(Len(swapLedger.swappers)), NEW to,
         to = "deposit" => swapPc = "approveYieldBox", to # "approveYieldBox",
         Swapper!SendOn(c, tx, to)
  PROVE  SwapperInv'
<1>1. CASE Swapper!Throw
  BY <1>1, SwapperThrowStep
<1>2. CASE /\ swapPool' = [swapPool EXCEPT ![c] = Append(swapPool[c], tx)] /\ swapPc' = to
           /\ UNCHANGED <<swapLedger, flight, swapEnded, done>>
  <2> DEFINE P == SwapperPending(Len(swapLedger.swappers))
  <2>1. swapPool[c] \in Seq(P)
    BY DEF SwapperInv
  <2>2. Append(swapPool[c], tx) \in Seq(P)
    BY <2>1
  <2>3. swapPool' \in [Swapper!Chains -> Seq(P)]
    BY <1>2, <2>2 DEF SwapperInv
  <2> HIDE DEF P
  <2>4. swapPool' \in [Swapper!Chains -> Seq(SwapperPending(Len(swapLedger'.swappers)))]
    BY <1>2, <2>3 DEF P
  <2>5. swapPc' \in {"approveYieldBox", "deposit"} => target' \in 1 .. Len(swapLedger'.swappers)
    BY <1>2 DEF SwapperInv
  <2> QED BY <1>2, <2>4, <2>5 DEF SwapperInv, SwapperRests
<1> QED BY <1>1, <1>2 DEF Swapper!SendOn

LEMMA SwapperAwaitStep ==
  ASSUME SwapperInv, SwapperRests, UNCHANGED target,
         NEW tx \in {Swapper!Tx("approve"), Swapper!Tx("wrap"), Swapper!Tx("sendFrom")},
         NEW to, to \notin {"approveYieldBox", "deposit"},
         Swapper!Await(tx, to)
  PROVE  SwapperInv'
<1>1. CASE Swapper!Throw
  BY <1>1, SwapperThrowStep
<1> DEFINE l == Swapper!Mined(swapLedger, swapPool[host])
           n == Len(swapLedger.swappers)
<1>2. CASE /\ swapLedger' = Swapper!Apply(l, tx) /\ swapPool' = [swapPool EXCEPT ![host] = <<>>]
           /\ flight' = flight + (IF tx.fn = "sendFrom" /\ Swapper!Works(l, tx) THEN 1 ELSE 0)
           /\ IF Swapper!Works(l, tx) THEN swapPc' = to /\ UNCHANGED swapEnded
              ELSE swapPc' = "idle" /\ swapEnded' = "thrown"
           /\ UNCHANGED done
  <2>1. host \in Swapper!Chains /\ swapPool[host] \in Seq(SwapperPending(n))
    BY DEF SwapperInv
  <2>2. l \in SwapperLike(n, flight) /\ n \in Nat /\ flight \in Nat
    BY <2>1, SwapperInvLike, SwapperPendingMined
  <2> HIDE DEF l
  <2>3. swapLedger' \in SwapperLike(n, flight')
    BY <1>2, <2>1, <2>2, SwapperAwaited
  <2>4. /\ swapLedger' \in SwapperLedgers /\ Len(swapLedger'.swappers) = n
        /\ SwapperBacked(swapLedger', flight') /\ flight' \in Nat
    BY <1>2, <2>2, <2>3 DEF SwapperLike
  <2>5. swapPool' \in [Swapper!Chains -> Seq(SwapperPending(n))]
    <3>1. <<>> \in Seq(SwapperPending(n))
      OBVIOUS
    <3> QED BY <1>2, <3>1 DEF SwapperInv
  <2> HIDE DEF n
  <2>6. swapPc' \notin {"approveYieldBox", "deposit"}
    BY <1>2
  <2>7. file'.swapper \in 0 .. n /\ file' = file
    BY DEF SwapperInv, SwapperRests, n
  <2> QED BY <1>2, <2>4, <2>5, <2>6, <2>7 DEF SwapperInv, SwapperRests
<1> QED BY <1>1, <1>2 DEF Swapper!Await

LEMMA SwapperInvInit ==
  ASSUME Swapper!SwapperAssumption, Swapper!Init
  PROVE  SwapperInv
<1> DEFINE l == swapLedger
<1>1. /\ l = [token |-> 0, minted |-> 0, wrapAllowance |-> 0, locked |-> 0,
              toft |-> [c \in Swapper!Chains |-> 0], ybAllowance |-> 0, swappers |-> <<>>]
      /\ flight = 0
  BY DEF Swapper!Init
<1>2. l.toft["main"] = 0 /\ l.toft["side"] = 0 /\ l.locked = 0 /\ l.swappers = <<>>
  BY <1>1 DEF Swapper!Chains
<1>3. SwapperBacked(l, flight)
  <2> HIDE DEF l
  <2> QED BY <1>1, <1>2, SwapperTotalEmpty DEF SwapperBacked
<1>4. l \in SwapperLedgers
  BY <1>1 DEF SwapperLedgers
<1>5. swapPool \in [Swapper!Chains -> Seq(SwapperPending(Len(l.swappers)))]
  BY DEF Swapper!Init
<1>6. file.swapper = 0 /\ file = [swapper |-> file.swapper, yieldBox |-> file.yieldBox]
      /\ swapPc = "idle" /\ Len(l.swappers) = 0
  BY <1>2 DEF Swapper!Init
<1>7. hasty \in 0 .. MaxHasty /\ swapCrashes \in 0 .. MaxCrashes
  BY DEF Swapper!Init, Swapper!SwapperAssumption
<1> HIDE DEF l
<1> QED BY <1>1, <1>3, <1>4, <1>5, <1>6, <1>7 DEF SwapperInv, Swapper!Init, l

LEMMA SwapperFillStep ==
  ASSUME SwapperInv, Swapper!fillMockSwapper
  PROVE  SwapperInv'
<1>1. SwapperRests
  BY DEF Swapper!fillMockSwapper, Swapper!counters, SwapperRests
<1>2. /\ Swapper!Tx("mintTo") \in SwapperPending(Len(swapLedger.swappers))
      /\ Swapper!Tx("approveYieldBox") \in SwapperPending(Len(swapLedger.swappers))
      /\ \A i \in 1 .. Len(swapLedger.swappers) :
           Swapper!depositAsset(i) \in SwapperPending(Len(swapLedger.swappers))
  BY DEF SwapperPending
<1>3. host \in Swapper!Chains /\ "main" \in Swapper!Chains
  BY DEF SwapperInv, Swapper!Chains
<1>4. CASE Swapper!Mint
  BY <1>1, <1>2, <1>3, <1>4, SwapperSendStep DEF Swapper!Mint
<1>5. CASE Swapper!Approve
  BY <1>1, <1>5, SwapperAwaitStep DEF Swapper!Approve
<1>6. CASE Swapper!Wrap
  <2> DEFINE to == IF chain = "main" THEN "find" ELSE "send"
  <2>1. to \notin {"approveYieldBox", "deposit"}
    OBVIOUS
  <2>2. Swapper!Await(Swapper!Tx("wrap"), to) /\ UNCHANGED target
    BY <1>6 DEF Swapper!Wrap
  <2> HIDE DEF to
  <2> QED BY <1>1, <2>1, <2>2, SwapperAwaitStep
<1>7. CASE Swapper!sendFrom
  BY <1>1, <1>7, SwapperAwaitStep DEF Swapper!sendFrom
<1>8. CASE Swapper!Find
  <2>1. CASE Swapper!Throw /\ UNCHANGED target
    BY <1>1, <2>1, SwapperThrowStep
  <2>2. CASE Swapper!Ready /\ target' = file.swapper
             /\ UNCHANGED <<swapLedger, swapPool, flight, swapEnded, done>>
    BY <1>1, <2>2 DEF SwapperInv, SwapperRests, Swapper!Ready
  <2> QED BY <1>8, <2>1, <2>2 DEF Swapper!Find
<1>9. CASE Swapper!ApproveYieldBox
  BY <1>1, <1>2, <1>3, <1>9, SwapperSendStep DEF Swapper!ApproveYieldBox
<1>10. CASE Swapper!Deposit
  <2>1. CASE Swapper!Throw
    BY <1>1, <1>10, <2>1, SwapperThrowStep DEF Swapper!Deposit
  <2>2. CASE /\ swapPool' = [swapPool EXCEPT !["main"] =
                               Append(swapPool["main"], Swapper!depositAsset(target))]
             /\ swapPc' = "idle" /\ done' = done + 1 /\ UNCHANGED <<swapLedger, flight>>
    <3> DEFINE P == SwapperPending(Len(swapLedger.swappers))
               s == Append(swapPool["main"], Swapper!depositAsset(target))
    <3>1. swapPool["main"] \in Seq(P)
      BY <1>3 DEF SwapperInv
    <3>2. Swapper!depositAsset(target) \in P
      BY <1>2, <1>10 DEF Swapper!Deposit, SwapperInv
    <3>3. s \in Seq(P)
      BY <3>1, <3>2
    <3> HIDE DEF s
    <3>4. swapPool' \in [Swapper!Chains -> Seq(P)]
      BY <2>2, <3>3 DEF SwapperInv, s
    <3>5. swapLedger' = swapLedger /\ done' \in Nat
      BY <2>2 DEF SwapperInv
    <3> QED BY <1>1, <2>2, <3>4, <3>5 DEF SwapperInv, SwapperRests
  <2> QED BY <1>10, <2>1, <2>2 DEF Swapper!Deposit
<1> QED BY <1>4, <1>5, <1>6, <1>7, <1>8, <1>9, <1>10 DEF Swapper!fillMockSwapper, Swapper!Fill

LEMMA SwapperInvNext ==
  ASSUME Swapper!SwapperAssumption, SwapperInv, Swapper!Next
  PROVE  SwapperInv'
<1> USE DEF Swapper!counters
<1>1. ASSUME NEW c \in Swapper!Chains, Swapper!Start(c)
      PROVE  SwapperInv'
  <2>1. hasty' \in 0 .. MaxHasty
    BY <1>1 DEF Swapper!Start, SwapperInv, Swapper!SwapperAssumption
  <2>2. swapPc' \notin {"approveYieldBox", "deposit"}
    BY <1>1 DEF Swapper!Start
  <2> QED BY <1>1, <2>1, <2>2 DEF Swapper!Start, SwapperInv
<1>2. ASSUME NEW c \in Swapper!Chains, Swapper!Mine(c)
      PROVE  SwapperInv'
  <2> DEFINE n == Len(swapLedger.swappers)
  <2>1. swapPool[c] \in Seq(SwapperPending(n)) /\ swapPool[c] # <<>>
    BY <1>2 DEF SwapperInv, Swapper!Mine
  <2>2. Head(swapPool[c]) \in SwapperPending(n) /\ Tail(swapPool[c]) \in Seq(SwapperPending(n))
    <3> DEFINE s == swapPool[c]  P == SwapperPending(n)
    <3> HIDE DEF s, P
    <3>1. s \in Seq(P) /\ s # <<>>
      BY <2>1 DEF s, P
    <3>2. Head(s) \in P /\ Tail(s) \in Seq(P)
      BY ONLY <3>1
    <3> QED BY <3>2 DEF s, P
  <2>3. swapLedger' \in SwapperLike(n, flight)
    BY <1>2, <2>2, SwapperInvLike, SwapperPendingApply DEF Swapper!Mine
  <2>4. swapPool' \in [Swapper!Chains -> Seq(SwapperPending(n))]
    BY <1>2, <2>2 DEF SwapperInv, Swapper!Mine
  <2>5. file' = file /\ target' = target /\ swapPc' = swapPc /\ flight' = flight /\ host' = host
        /\ done' = done /\ hasty' = hasty /\ swapCrashes' = swapCrashes
    BY <1>2 DEF Swapper!Mine
  <2>6. swapLedger' \in SwapperLedgers /\ Len(swapLedger'.swappers) = n
        /\ SwapperBacked(swapLedger', flight)
    BY <2>3 DEF SwapperLike
  <2> QED BY <2>4, <2>5, <2>6 DEF SwapperInv
<1>3. CASE Swapper!fillMockSwapper
  BY <1>3, SwapperFillStep
<1>4. CASE Swapper!Decline
  BY <1>4 DEF Swapper!Decline, SwapperInv, Swapper!SwapperAssumption
<1>5. CASE Swapper!executeMockSwapper
  <2> DEFINE n == Len(swapLedger.swappers)
             l == swapLedger'
  <2>1. swapLedger \in SwapperLedgers /\ swapLedger.swappers \in Seq(Nat) /\ n \in Nat
        /\ SwapperBacked(swapLedger, flight)
    BY DEF SwapperInv, SwapperLedgers
  <2>2. l = [swapLedger EXCEPT !.swappers = Append(swapLedger.swappers, 0)]
    BY <1>5 DEF Swapper!executeMockSwapper
  <2>3. /\ l.token = swapLedger.token /\ l.minted = swapLedger.minted
        /\ l.wrapAllowance = swapLedger.wrapAllowance /\ l.ybAllowance = swapLedger.ybAllowance
        /\ l.locked = swapLedger.locked /\ l.toft = swapLedger.toft
        /\ l.swappers = Append(swapLedger.swappers, 0)
        /\ l = [token |-> l.token, minted |-> l.minted, wrapAllowance |-> l.wrapAllowance,
                locked |-> l.locked, toft |-> l.toft, ybAllowance |-> l.ybAllowance,
                swappers |-> l.swappers]
    BY <2>1, <2>2 DEF SwapperLedgers
  <2>4. l.swappers \in Seq(Nat) /\ Len(l.swappers) = n + 1
    BY <2>1, <2>3
  <2>5. l \in SwapperLedgers
    BY <2>1, <2>3, <2>4 DEF SwapperLedgers
  <2>6. SwapperTotal(l.swappers) = SwapperTotal(swapLedger.swappers)
    BY <2>1, <2>3, SwapperTotalAppend
  <2>7. SwapperBacked(l, flight)
    BY <2>1, <2>3, <2>6, Zenon DEF SwapperBacked
  <2>8. SwapperPending(n) \subseteq SwapperPending(n + 1)
    BY <2>1 DEF SwapperPending
  <2>9. \A s \in Seq(SwapperPending(n)) : s \in Seq(SwapperPending(n + 1))
    BY <2>8
  <2>10. swapPool \in [Swapper!Chains -> Seq(SwapperPending(n + 1))]
    BY <2>9 DEF SwapperInv
  <2>11. /\ swapPool' = swapPool /\ file' = file /\ target' = target /\ host' = host
         /\ flight' = flight /\ done' = done /\ hasty' = hasty /\ swapCrashes' = swapCrashes
         /\ swapPc' = "saveSwapper"
    BY <1>5 DEF Swapper!executeMockSwapper
  <2>12. file.swapper \in 0 .. n + 1
    BY <2>1 DEF SwapperInv
  <2> HIDE DEF n, l
  <2>13. swapPool' \in [Swapper!Chains -> Seq(SwapperPending(Len(l.swappers)))]
    BY <2>4, <2>10, <2>11
  <2> QED BY <2>4, <2>5, <2>7, <2>11, <2>12, <2>13 DEF SwapperInv, l
<1>6. CASE Swapper!saveMockSwapper
  <2>1. Len(swapLedger.swappers) \in Nat
    BY SwapperInvLike
  <2>2. /\ file'.swapper = Len(swapLedger.swappers)
        /\ file' = [swapper |-> file'.swapper, yieldBox |-> file'.yieldBox]
    BY <1>6 DEF Swapper!saveMockSwapper, SwapperInv
  <2> QED BY <1>6, <2>1, <2>2 DEF Swapper!saveMockSwapper, SwapperInv
<1>7. CASE Swapper!DeployYieldBox
  <2>2. /\ file'.swapper = file.swapper
        /\ file' = [swapper |-> file'.swapper, yieldBox |-> file'.yieldBox]
    BY <1>7 DEF Swapper!DeployYieldBox, SwapperInv
  <2> QED BY <1>7, <2>2 DEF Swapper!DeployYieldBox, SwapperInv
<1>8. CASE Swapper!Receive
  <2> DEFINE l == swapLedger
             r == swapLedger'
  <2>1. l \in SwapperLedgers /\ l.swappers \in Seq(Nat) /\ flight \in Nat /\ flight > 0
        /\ l.toft \in [Swapper!Chains -> Nat]
    BY <1>8 DEF SwapperInv, SwapperLedgers, Swapper!Receive
  <2>2. r = [l EXCEPT !.toft["main"] = @ + 1] /\ flight' = flight - 1
    BY <1>8 DEF Swapper!Receive
  <2>3. /\ r.token = l.token /\ r.minted = l.minted
        /\ r.wrapAllowance = l.wrapAllowance /\ r.ybAllowance = l.ybAllowance
        /\ r.locked = l.locked /\ r.toft = [l.toft EXCEPT !["main"] = l.toft["main"] + 1]
        /\ r.swappers = l.swappers
        /\ r = [token |-> r.token, minted |-> r.minted, wrapAllowance |-> r.wrapAllowance,
                locked |-> r.locked, toft |-> r.toft, ybAllowance |-> r.ybAllowance,
                swappers |-> r.swappers]
    BY <2>1, <2>2 DEF SwapperLedgers
  <2>4. /\ r.toft \in [Swapper!Chains -> Nat] /\ r.toft["main"] = l.toft["main"] + 1
        /\ r.toft["side"] = l.toft["side"] /\ l.toft["main"] \in Nat /\ l.toft["side"] \in Nat
    BY <2>1, <2>3 DEF Swapper!Chains
  <2>5. r \in SwapperLedgers
    BY <2>1, <2>3, <2>4 DEF SwapperLedgers
  <2>6. SwapperBacked(r, flight')
    <3> DEFINE M == l.toft["main"]  S == l.toft["side"]  T == SwapperTotal(l.swappers)
               M1 == r.toft["main"]  L == l.locked
    <3>1. L = M + S + flight + T /\ M \in Nat /\ S \in Nat /\ T \in Nat /\ M1 = M + 1
      BY <2>1, <2>4, SwapperTotalAppend DEF SwapperInv, SwapperBacked
    <3> HIDE DEF M, S, T, M1, L
    <3>2. L = M1 + S + flight' + T
      BY <2>1, <2>2, <3>1
    <3> QED BY <2>3, <2>4, <3>2 DEF M1, S, T, L, SwapperBacked
  <2>7. flight' \in Nat
    BY <2>1, <2>2
  <2>8. /\ swapPool' = swapPool /\ file' = file /\ target' = target /\ host' = host
        /\ done' = done /\ hasty' = hasty /\ swapCrashes' = swapCrashes /\ swapPc' = swapPc
    BY <1>8 DEF Swapper!Receive
  <2> HIDE DEF l, r
  <2> QED BY <2>3, <2>5, <2>6, <2>7, <2>8 DEF SwapperInv, l, r
<1>9. CASE Swapper!Crash
  BY <1>9 DEF Swapper!Crash, SwapperInv, Swapper!SwapperAssumption
<1> QED BY <1>1, <1>2, <1>3, <1>4, <1>5, <1>6, <1>7, <1>8, <1>9 DEF Swapper!Next

LEMMA SwapperInvGives ==
  ASSUME SwapperInv
  PROVE  Swapper!TypeOK /\ Swapper!Backed
<1>1. Swapper!Backed
  BY DEF SwapperInv, SwapperBacked, SwapperTotal, Swapper!Backed
<1>2. Swapper!TypeOK
  BY DEF SwapperInv, SwapperLedgers, Swapper!Chains, Swapper!TypeOK
<1> QED BY <1>1, <1>2

(***************************************************************************)
(* MarketTasks.                                                            *)
(***************************************************************************)
MarketSettings(c) ==
  /\ c \in [Market!Fields -> Nat]
  /\ \A f \in {"protocolFee", "liquidationBonusAmount", "maxLiquidatorReward",
               "liquidationCollateralizationRate", "liquidationMultiplier",
               "maxLiquidationSlippage"} : c[f] <= FEE_PRECISION
  /\ c.minLiquidatorReward <= c.maxLiquidatorReward
  /\ c.collateralizationRate <= c.liquidationCollateralizationRate
  /\ c.minMintFee <= c.maxMintFee
  /\ c.maxMintFeeStart < c.minMintFeeStart
  /\ c.minDebtRate # 0 /\ c.maxDebtRate # 0 => c.minDebtRate < c.maxDebtRate

MarketInv ==
  /\ MarketSettings(config)
  /\ isMainMarket \in BOOLEAN /\ isMainAsset \in BOOLEAN
  /\ pauseOptions \subseteq PauseTypes
  /\ debt \in 0 .. MaxDebt
  /\ outcome \in {"done", "thrown"} /\ changes \in 0 .. MaxChanges

LEMMA MarketFields ==
  ASSUME NEW c \in [Market!Fields -> Nat]
  PROVE  /\ c.protocolFee \in Nat /\ c.liquidationBonusAmount \in Nat
         /\ c.minLiquidatorReward \in Nat /\ c.maxLiquidatorReward \in Nat
         /\ c.collateralizationRate \in Nat /\ c.liquidationCollateralizationRate \in Nat
         /\ c.liquidationMultiplier \in Nat /\ c.maxLiquidationSlippage \in Nat
         /\ c.minMintFee \in Nat /\ c.maxMintFee \in Nat
         /\ c.minMintFeeStart \in Nat /\ c.maxMintFeeStart \in Nat
         /\ c.minDebtRate \in Nat /\ c.maxDebtRate \in Nat
<1>1. \A f \in Market!Fields : c[f] \in Nat
  OBVIOUS
<1>2. {"protocolFee", "liquidationBonusAmount", "minLiquidatorReward", "maxLiquidatorReward",
       "collateralizationRate", "liquidationCollateralizationRate", "liquidationMultiplier",
       "maxLiquidationSlippage", "minMintFee", "maxMintFee", "minMintFeeStart",
       "maxMintFeeStart", "minDebtRate", "maxDebtRate"} \subseteq Market!Fields
  BY DEF Market!Fields, Market!MarketFields, Market!DebtFields, Market!FeeFields,
         Market!OtherFields
<1> QED BY <1>1, <1>2

(* What setMarketConfig accepts leaves the settings within their bounds. *)
LEMMA MarketConfigKeeps ==
  ASSUME Market!ConfigAssumption, NEW c, MarketSettings(c),
         NEW a \in [Market!MarketFields -> Nat], Market!AcceptsMarketConfig(c, a)
  PROVE  MarketSettings(Market!Updated(c, a))
<1> DEFINE r == Market!Updated(c, a)
<1>1. c \in [Market!Fields -> Nat] /\ FEE_PRECISION \in Nat
  BY DEF MarketSettings, Market!ConfigAssumption
<1>2. \A f \in Market!Fields : r[f] = IF f \in Market!MarketFields THEN Market!Or(a[f], c[f])
                                       ELSE c[f]
  BY <1>1 DEF Market!Updated
<1>3. r \in [Market!Fields -> Nat]
  <2>1. \A f \in Market!Fields : r[f] \in Nat
    BY <1>1, <1>2 DEF Market!Or
  <2> QED BY <1>1, <2>1 DEF Market!Updated
<1>4. /\ r.protocolFee = Market!Or(a.protocolFee, c.protocolFee)
      /\ r.liquidationBonusAmount = Market!Or(a.liquidationBonusAmount, c.liquidationBonusAmount)
      /\ r.minLiquidatorReward = Market!Or(a.minLiquidatorReward, c.minLiquidatorReward)
      /\ r.maxLiquidatorReward = Market!Or(a.maxLiquidatorReward, c.maxLiquidatorReward)
      /\ r.collateralizationRate = Market!Or(a.collateralizationRate, c.collateralizationRate)
      /\ r.liquidationCollateralizationRate =
           Market!Or(a.liquidationCollateralizationRate, c.liquidationCollateralizationRate)
  BY <1>2 DEF Market!Fields, Market!MarketFields
<1>5. /\ r.liquidationMultiplier = c.liquidationMultiplier
      /\ r.maxLiquidationSlippage = c.maxLiquidationSlippage
      /\ r.minMintFee = c.minMintFee /\ r.maxMintFee = c.maxMintFee
      /\ r.minMintFeeStart = c.minMintFeeStart /\ r.maxMintFeeStart = c.maxMintFeeStart
      /\ r.minDebtRate = c.minDebtRate /\ r.maxDebtRate = c.maxDebtRate
  BY <1>2 DEF Market!Fields, Market!MarketFields, Market!DebtFields, Market!FeeFields,
              Market!OtherFields
<1>6. /\ a.protocolFee \in Nat /\ a.liquidationBonusAmount \in Nat
      /\ a.minLiquidatorReward \in Nat /\ a.maxLiquidatorReward \in Nat
      /\ a.collateralizationRate \in Nat /\ a.liquidationCollateralizationRate \in Nat
  BY DEF Market!MarketFields
<1> HIDE DEF r
<1>7. r.protocolFee <= FEE_PRECISION /\ r.liquidationBonusAmount <= FEE_PRECISION
  BY <1>1, <1>4, <1>6, MarketFields DEF Market!AcceptsMarketConfig, Market!Or, MarketSettings
<1>8. r.minLiquidatorReward <= r.maxLiquidatorReward /\ r.maxLiquidatorReward <= FEE_PRECISION
  BY <1>1, <1>4, <1>6, MarketFields DEF Market!AcceptsMarketConfig, Market!Or, MarketSettings
<1>9. /\ r.collateralizationRate <= r.liquidationCollateralizationRate
      /\ r.liquidationCollateralizationRate <= FEE_PRECISION
  BY <1>1, <1>4, <1>6, MarketFields DEF Market!AcceptsMarketConfig, Market!Or, MarketSettings
<1> QED BY <1>3, <1>5, <1>7, <1>8, <1>9 DEF MarketSettings, r

MarketRatesSet(c, min, max, againstEth, multiplier) ==
  [c EXCEPT !.liquidationMultiplier = Market!Or(multiplier, @),
            !.minDebtRate = IF isMainAsset THEN @ ELSE Market!Or(min, @),
            !.maxDebtRate = IF isMainAsset THEN @ ELSE Market!Or(max, @),
            !.debtRateAgainstEthMarket = IF isMainAsset THEN @ ELSE Market!Or(againstEth, @)]

(* What setBigBangConfig accepts does not cross the debt rates. *)
LEMMA MarketRatesKept ==
  ASSUME Market!ConfigAssumption, NEW c, MarketSettings(c),
         NEW min \in Nat, NEW max \in Nat, NEW againstEth \in Nat, NEW multiplier \in Nat,
         Market!AcceptsMultiplier(multiplier),
         ~isMainAsset => Market!AcceptsDebtRates(c, min, max)
  PROVE  MarketSettings(MarketRatesSet(c, min, max, againstEth, multiplier))
<1> DEFINE r == MarketRatesSet(c, min, max, againstEth, multiplier)
<1>1. c \in [Market!Fields -> Nat] /\ FEE_PRECISION \in Nat
  BY DEF MarketSettings, Market!ConfigAssumption
<1>2. {"liquidationMultiplier", "minDebtRate", "maxDebtRate", "debtRateAgainstEthMarket"}
        \subseteq Market!Fields
  BY DEF Market!Fields, Market!DebtFields, Market!OtherFields
<1>3. /\ r.liquidationMultiplier = Market!Or(multiplier, c.liquidationMultiplier)
      /\ r.minDebtRate = IF isMainAsset THEN c.minDebtRate ELSE Market!Or(min, c.minDebtRate)
      /\ r.maxDebtRate = IF isMainAsset THEN c.maxDebtRate ELSE Market!Or(max, c.maxDebtRate)
      /\ r.debtRateAgainstEthMarket =
           IF isMainAsset THEN c.debtRateAgainstEthMarket
           ELSE Market!Or(againstEth, c.debtRateAgainstEthMarket)
      /\ \A f \in Market!Fields \ {"liquidationMultiplier", "minDebtRate", "maxDebtRate",
                                   "debtRateAgainstEthMarket"} : r[f] = c[f]
      /\ DOMAIN r = Market!Fields /\ r = [f \in Market!Fields |-> r[f]]
  BY <1>1, <1>2 DEF MarketRatesSet
<1> HIDE DEF r
<1>4. r \in [Market!Fields -> Nat]
  <2>1. \A f \in Market!Fields : c[f] \in Nat
    BY <1>1
  <2>2. \A f \in Market!Fields : r[f] \in Nat
    BY <1>2, <1>3, <2>1 DEF Market!Or
  <2> QED BY <1>3, <2>2
<1>5. \A f \in {"protocolFee", "liquidationBonusAmount", "minLiquidatorReward",
                "maxLiquidatorReward", "collateralizationRate",
                "liquidationCollateralizationRate", "maxLiquidationSlippage", "minMintFee",
                "maxMintFee", "minMintFeeStart", "maxMintFeeStart"} : r[f] = c[f]
  BY <1>3 DEF Market!Fields, Market!MarketFields, Market!FeeFields, Market!OtherFields
<1>6. r.liquidationMultiplier <= FEE_PRECISION
  BY <1>1, <1>3 DEF Market!AcceptsMultiplier, Market!Or, MarketSettings
<1>7. r.minDebtRate # 0 /\ r.maxDebtRate # 0 => r.minDebtRate < r.maxDebtRate
  <2>1. c.minDebtRate \in Nat /\ c.maxDebtRate \in Nat
    BY <1>1, MarketFields
  <2>2. CASE isMainAsset
    BY <1>3, <2>2 DEF MarketSettings
  <2>3. CASE ~isMainAsset
    BY <1>3, <2>1, <2>3 DEF Market!AcceptsDebtRates, Market!Or, MarketSettings
  <2> QED BY <2>2, <2>3
<1> QED BY <1>4, <1>5, <1>6, <1>7 DEF MarketSettings, r

LEMMA MarketInitKeeps ==
  ASSUME Market!ConfigAssumption, NEW a \in [Market!InitArgs -> Nat], NEW isMain \in BOOLEAN,
         Market!AcceptsInit(a, isMain)
  PROVE  MarketSettings(Market!init(a, isMain))
<1> DEFINE r == Market!init(a, isMain)
           u == Market!Updated(Defaults, a)
<1>1. /\ Defaults \in [Market!Fields -> Nat] /\ FEE_PRECISION \in Nat
      /\ Market!DefaultsWithinBounds
  BY DEF Market!ConfigAssumption
<1>2. \A f \in Market!Fields :
        u[f] = IF f \in Market!InitArgs THEN Market!Or(a[f], Defaults[f]) ELSE Defaults[f]
  BY <1>1 DEF Market!Updated
<1>3. \A f \in Market!Fields :
        r[f] = IF f \in Market!DebtFields THEN IF isMain THEN 0 ELSE a[f] ELSE u[f]
  BY DEF Market!init
<1>4. /\ a.collateralizationRate <= FEE_PRECISION
      /\ a.liquidationCollateralizationRate <= FEE_PRECISION
      /\ u.collateralizationRate <= u.liquidationCollateralizationRate
      /\ ~isMain /\ a.minDebtRate # 0 /\ a.maxDebtRate # 0 => a.minDebtRate < a.maxDebtRate
  BY DEF Market!AcceptsInit
<1>5. /\ a.liquidationCollateralizationRate \in Nat /\ a.minDebtRate \in Nat
      /\ a.maxDebtRate \in Nat /\ \A f \in Market!DebtFields : a[f] \in Nat
  BY DEF Market!InitArgs, Market!DebtFields
<1> HIDE DEF u
<1>6. \A f \in Market!Fields : u[f] \in Nat
  BY <1>1, <1>2 DEF Market!Or
<1>7. r \in [Market!Fields -> Nat]
  <2>1. \A f \in Market!Fields : r[f] \in Nat
    BY <1>3, <1>5, <1>6
  <2> QED BY <2>1 DEF Market!init
<1> HIDE DEF r
<1>8. \A f \in {"protocolFee", "liquidationBonusAmount", "minLiquidatorReward",
                "maxLiquidatorReward", "liquidationMultiplier", "maxLiquidationSlippage",
                "minMintFee", "maxMintFee", "minMintFeeStart", "maxMintFeeStart"} :
        r[f] = Defaults[f]
  BY <1>2, <1>3 DEF Market!Fields, Market!MarketFields, Market!FeeFields, Market!OtherFields,
                    Market!DebtFields, Market!InitArgs
<1>9. /\ r.collateralizationRate = u.collateralizationRate
      /\ r.liquidationCollateralizationRate = u.liquidationCollateralizationRate
      /\ u.liquidationCollateralizationRate =
           Market!Or(a.liquidationCollateralizationRate, Defaults.liquidationCollateralizationRate)
      /\ r.minDebtRate = IF isMain THEN 0 ELSE a.minDebtRate
      /\ r.maxDebtRate = IF isMain THEN 0 ELSE a.maxDebtRate
  BY <1>2, <1>3 DEF Market!Fields, Market!MarketFields, Market!DebtFields, Market!InitArgs
<1>10. r.liquidationCollateralizationRate <= FEE_PRECISION
  BY <1>1, <1>4, <1>9 DEF Market!DefaultsWithinBounds, Market!Or
<1>11. r.minDebtRate # 0 /\ r.maxDebtRate # 0 => r.minDebtRate < r.maxDebtRate
  BY <1>4, <1>5, <1>9
<1>12. /\ Defaults.minLiquidatorReward <= Defaults.maxLiquidatorReward
       /\ Defaults.minMintFee <= Defaults.maxMintFee
       /\ Defaults.maxMintFeeStart < Defaults.minMintFeeStart
       /\ Defaults.protocolFee <= FEE_PRECISION /\ Defaults.liquidationBonusAmount <= FEE_PRECISION
       /\ Defaults.maxLiquidatorReward <= FEE_PRECISION
       /\ Defaults.liquidationMultiplier <= FEE_PRECISION
       /\ Defaults.maxLiquidationSlippage <= FEE_PRECISION
  BY <1>1 DEF Market!DefaultsWithinBounds
<1>13. r.collateralizationRate <= r.liquidationCollateralizationRate
  BY <1>4, <1>9
<1> QED BY <1>7, <1>8, <1>10, <1>11, <1>12, <1>13 DEF MarketSettings, r

(* The setters of one setting, or of two. *)
LEMMA MarketSetsKeep ==
  ASSUME Market!ConfigAssumption, NEW c, MarketSettings(c), NEW x \in Nat, NEW y \in Nat
  PROVE  /\ y < x => MarketSettings(Market!setMinAndMaxMintRange(c, x, y))
         /\ x < y => MarketSettings(Market!setMinAndMaxMintFee(c, x, y))
         /\ x < FEE_PRECISION => MarketSettings(Market!setLiquidationMaxSlippage(c, x))
         /\ MarketSettings(Market!setAssetOracle(c, x, y))
         /\ MarketSettings(Market!setLeverageExecutor(c, x))
<1>1. c \in [Market!Fields -> Nat] /\ FEE_PRECISION \in Nat
  BY DEF MarketSettings, Market!ConfigAssumption
<1>2. {"protocolFee", "liquidationBonusAmount", "minLiquidatorReward", "maxLiquidatorReward",
       "collateralizationRate", "liquidationCollateralizationRate", "liquidationMultiplier",
       "maxLiquidationSlippage", "minMintFee", "maxMintFee", "minMintFeeStart",
       "maxMintFeeStart", "minDebtRate", "maxDebtRate", "assetOracle", "assetOracleData",
       "leverageExecutor"} \subseteq Market!Fields
  BY DEF Market!Fields, Market!MarketFields, Market!DebtFields, Market!FeeFields,
         Market!OtherFields
<1>3. ASSUME y < x
      PROVE  MarketSettings(Market!setMinAndMaxMintRange(c, x, y))
  BY <1>1, <1>2, <1>3 DEF Market!setMinAndMaxMintRange, MarketSettings
<1>4. ASSUME x < y
      PROVE  MarketSettings(Market!setMinAndMaxMintFee(c, x, y))
  <2> DEFINE r == Market!setMinAndMaxMintFee(c, x, y)
  <2>1. /\ \A f \in Market!Fields \ {"minMintFee", "maxMintFee"} : r[f] = c[f]
        /\ r.minMintFee = x /\ r.maxMintFee = y
        /\ r = [f \in Market!Fields |-> r[f]]
    BY <1>1, <1>2 DEF Market!setMinAndMaxMintFee
  <2> HIDE DEF r
  <2>2. \A f \in Market!Fields : r[f] \in Nat
    BY <1>1, <1>2, <2>1
  <2>3. r \in [Market!Fields -> Nat]
    BY <2>1, <2>2
  <2>4. \A f \in {"protocolFee", "liquidationBonusAmount", "minLiquidatorReward",
                  "maxLiquidatorReward", "collateralizationRate",
                  "liquidationCollateralizationRate", "liquidationMultiplier",
                  "maxLiquidationSlippage", "minMintFeeStart",
                  "maxMintFeeStart", "minDebtRate", "maxDebtRate"} : r[f] = c[f]
    BY <1>2, <2>1
  <2>5. r.minMintFee <= r.maxMintFee
    BY <1>4, <2>1
  <2> QED BY <2>3, <2>4, <2>5 DEF MarketSettings, r
<1>5. ASSUME x < FEE_PRECISION
      PROVE  MarketSettings(Market!setLiquidationMaxSlippage(c, x))
  BY <1>1, <1>2, <1>5 DEF Market!setLiquidationMaxSlippage, MarketSettings
<1>6. MarketSettings(Market!setAssetOracle(c, x, y))
  <2> DEFINE r == Market!setAssetOracle(c, x, y)
  <2>1. /\ \A f \in Market!Fields \ {"assetOracle", "assetOracleData"} : r[f] = c[f]
        /\ r.assetOracle = Market!Or(x, c.assetOracle)
        /\ r.assetOracleData = Market!Or(y, c.assetOracleData)
        /\ r = [f \in Market!Fields |-> r[f]]
    BY <1>1, <1>2 DEF Market!setAssetOracle
  <2> HIDE DEF r
  <2>2. \A f \in Market!Fields : r[f] \in Nat
    BY <1>1, <1>2, <2>1 DEF Market!Or
  <2>3. r \in [Market!Fields -> Nat]
    BY <2>1, <2>2
  <2>4. \A f \in {"protocolFee", "liquidationBonusAmount", "minLiquidatorReward",
                  "maxLiquidatorReward", "collateralizationRate",
                  "liquidationCollateralizationRate", "liquidationMultiplier",
                  "maxLiquidationSlippage", "minMintFee", "maxMintFee", "minMintFeeStart",
                  "maxMintFeeStart", "minDebtRate", "maxDebtRate"} : r[f] = c[f]
    BY <1>2, <2>1
  <2> QED BY <2>3, <2>4 DEF MarketSettings, r
<1>7. MarketSettings(Market!setLeverageExecutor(c, x))
  BY <1>1, <1>2 DEF Market!setLeverageExecutor, MarketSettings
<1> QED BY <1>3, <1>4, <1>5, <1>6, <1>7

LEMMA MarketCallStep ==
  ASSUME Market!TasksAssumption, MarketInv, NEW accepts \in BOOLEAN, NEW after, NEW paused, NEW main \in BOOLEAN,
         accepts => MarketSettings(after) /\ paused \subseteq PauseTypes,
         Market!executeMarketFn(accepts, after, paused, main),
         UNCHANGED Market!environment
  PROVE  MarketInv'
<1>1. isMainAsset' = isMainAsset /\ debt' = debt
  BY DEF Market!environment
<1>2. CASE accepts
  BY <1>1, <1>2 DEF Market!executeMarketFn, MarketInv, Market!TasksAssumption
<1>3. CASE ~accepts
  BY <1>1, <1>3 DEF Market!executeMarketFn, Market!Throw, MarketInv
<1> QED BY <1>2, <1>3

LEMMA MarketSetsStep ==
  ASSUME Market!TasksAssumption, MarketInv, NEW accepts \in BOOLEAN, NEW after,
         accepts => MarketSettings(after),
         Market!Sets(accepts, after), UNCHANGED Market!environment
  PROVE  MarketInv'
<1>1. pauseOptions \subseteq PauseTypes /\ isMainMarket \in BOOLEAN
  BY DEF MarketInv
<1>2. Market!executeMarketFn(accepts, after, pauseOptions, isMainMarket)
  BY DEF Market!Sets
<1> QED BY <1>1, <1>2, MarketCallStep

LEMMA MarketSetStep ==
  ASSUME Market!ConfigAssumption, Market!TasksAssumption, MarketInv,
         NEW a \in [Market!MarketFields -> Nat], Market!setMarketConfig(a)
  PROVE  MarketInv'
<1>1. MarketSettings(config)
  BY DEF MarketInv
<1>2. Market!AcceptsMarketConfig(config, a) \in BOOLEAN
  BY DEF Market!AcceptsMarketConfig
<1>3. Market!AcceptsMarketConfig(config, a) => MarketSettings(Market!Updated(config, a))
  BY <1>1, MarketConfigKeeps
<1>4. /\ Market!Sets(Market!AcceptsMarketConfig(config, a), Market!Updated(config, a))
      /\ UNCHANGED Market!environment
  BY DEF Market!setMarketConfig
<1> QED BY <1>2, <1>3, <1>4, MarketSetsStep

LEMMA MarketFew ==
  ASSUME NEW places, NEW touched, NEW V \in SUBSET Nat
  PROVE  Market!Few(places, touched, V) \subseteq [places -> Nat]
  BY DEF Market!Few

LEMMA MarketTaskStep ==
  ASSUME Market!ConfigAssumption, Market!TasksAssumption, MarketInv, Market!Task
  PROVE  MarketInv'
<1>0. /\ Entered \in SUBSET Nat /\ DebtRates \in SUBSET Nat /\ Starts \in SUBSET Nat
      /\ \A x \in Addresses : x \in Nat
  BY DEF Market!TasksAssumption
<1>s. MarketSettings(config)
  BY DEF MarketInv
<1>1. ASSUME NEW a \in Market!Few(Market!MarketFields, Touched, Entered), Market!setMarketConfig(a)
      PROVE  MarketInv'
  <2>1. a \in [Market!MarketFields -> Nat]
    BY <1>0, MarketFew
  <2> QED BY <1>1, <2>1, MarketSetStep
<1>2. ASSUME NEW p \in [Market!MarketPrompts -> Nat], Market!setMarketConfig__task(p)
      PROVE  MarketInv'
  <2> DEFINE a == [oracle |-> p.oracle, oracleData |-> p.oracleData,
                   protocolFee |-> p.conservator, liquidationBonusAmount |-> 0,
                   minLiquidatorReward |-> p.protocolFee,
                   maxLiquidatorReward |-> p.liquidationBonusAmount,
                   totalBorrowCap |-> p.minLiquidatorReward,
                   collateralizationRate |-> p.maxLiquidatorReward,
                   liquidationCollateralizationRate |-> p.totalBorrowCap,
                   minBorrowAmount |-> p.collateralizationRate,
                   minCollateralAmount |-> p.liquidationCollateralizationRate]
  <2>1. a \in [Market!MarketFields -> Nat]
    BY DEF Market!MarketFields, Market!MarketPrompts
  <2>2. Market!setMarketConfig(a)
    BY <1>2 DEF Market!setMarketConfig__task
  <2> HIDE DEF a
  <2> QED BY <2>1, <2>2, MarketSetStep
<1>3. ASSUME NEW p \in Market!Few(Market!MarketPrompts, Prompted, Entered),
             Market!setMarketConfig__task(p)
      PROVE  MarketInv'
  <2>1. p \in [Market!MarketPrompts -> Nat]
    BY <1>0, MarketFew
  <2> QED BY <1>2, <1>3, <2>1
<1>4. ASSUME NEW a \in Addresses,
             Market!setMarketConfig__task([f \in Market!MarketPrompts |->
                                             IF f = "conservator" THEN a ELSE 0])
      PROVE  MarketInv'
  <2> DEFINE p == [f \in Market!MarketPrompts |-> IF f = "conservator" THEN a ELSE 0]
  <2>1. p \in [Market!MarketPrompts -> Nat]
    BY <1>0
  <2>2. Market!setMarketConfig__task(p)
    BY <1>4
  <2> HIDE DEF p
  <2> QED BY <1>2, <2>1, <2>2
<1>5. ASSUME NEW cap \in Entered, Market!setBorrowCap(cap)
      PROVE  MarketInv'
  <2> DEFINE a == [[f \in Market!MarketFields |-> 0]
                      EXCEPT !.liquidationCollateralizationRate = cap]
  <2>1. a \in [Market!MarketFields -> Nat]
    BY <1>0
  <2>2. Market!setMarketConfig(a)
    BY <1>5 DEF Market!setBorrowCap
  <2> HIDE DEF a
  <2> QED BY <2>1, <2>2, MarketSetStep
<1>6. ASSUME NEW min \in DebtRates \cup {0}, NEW max \in DebtRates \cup {0},
             NEW againstEth \in DebtRates \cup {0}, NEW multiplier \in Entered \cup {0},
             Market!setBigBangConfig(min, max, againstEth, multiplier)
      PROVE  MarketInv'
  <2> DEFINE after == MarketRatesSet(config, min, max, againstEth, multiplier)
             accepts == /\ Market!AcceptsMultiplier(multiplier)
                        /\ ~isMainAsset => /\ Market!CanAccrueAs(FALSE)
                                           /\ Market!AcceptsDebtRates(config, min, max)
  <2>1. min \in Nat /\ max \in Nat /\ againstEth \in Nat /\ multiplier \in Nat
    BY <1>0
  <2>2. ASSUME accepts PROVE MarketSettings(after)
    <3>1. /\ Market!AcceptsMultiplier(multiplier)
          /\ ~isMainAsset => Market!AcceptsDebtRates(config, min, max)
      BY <2>2
    <3> QED BY <1>s, <2>1, <3>1, MarketRatesKept
  <2>3. /\ Market!executeMarketFn(accepts, after, pauseOptions, isMainAsset)
        /\ UNCHANGED Market!environment
    BY <1>6 DEF Market!setBigBangConfig, MarketRatesSet
  <2>4. isMainAsset \in BOOLEAN /\ pauseOptions \subseteq PauseTypes
    BY DEF MarketInv
  <2>5. accepts \in BOOLEAN
    OBVIOUS
  <2> HIDE DEF accepts, after
  <2> QED BY <2>2, <2>3, <2>4, <2>5, MarketCallStep
<1>7. ASSUME NEW start \in Starts, NEW end \in Starts,
             Market!setMinAndMaxMintRange__task(start, end)
      PROVE  MarketInv'
  <2>1. start \in Nat /\ end \in Nat
    BY <1>0
  <2>2. Market!AcceptsMintRange(start, end) =>
          MarketSettings(Market!setMinAndMaxMintRange(config, start, end))
    BY <1>s, <2>1, MarketSetsKeep DEF Market!AcceptsMintRange
  <2>3. Market!AcceptsMintRange(start, end) \in BOOLEAN
    BY DEF Market!AcceptsMintRange
  <2>4. /\ Market!Sets(Market!AcceptsMintRange(start, end),
                       Market!setMinAndMaxMintRange(config, start, end))
        /\ UNCHANGED Market!environment
    BY <1>7 DEF Market!setMinAndMaxMintRange__task
  <2> QED BY <2>2, <2>3, <2>4, MarketSetsStep
<1>8. ASSUME NEW min \in Entered, NEW max \in Entered, Market!setMinAndMaxMintFee__task(min, max)
      PROVE  MarketInv'
  <2>1. min \in Nat /\ max \in Nat
    BY <1>0
  <2>2. Market!AcceptsMintFee(min, max) =>
          MarketSettings(Market!setMinAndMaxMintFee(config, min, max))
    BY <1>s, <2>1, MarketSetsKeep DEF Market!AcceptsMintFee
  <2>3. Market!AcceptsMintFee(min, max) \in BOOLEAN
    BY DEF Market!AcceptsMintFee
  <2>4. /\ Market!Sets(Market!AcceptsMintFee(min, max),
                       Market!setMinAndMaxMintFee(config, min, max))
        /\ UNCHANGED Market!environment
    BY <1>8 DEF Market!setMinAndMaxMintFee__task
  <2> QED BY <2>2, <2>3, <2>4, MarketSetsStep
<1>9. ASSUME NEW o \in Addresses \cup {0}, NEW d \in Addresses \cup {0},
             Market!setAssetOracle__task(o, d)
      PROVE  MarketInv'
  <2>1. o \in Nat /\ d \in Nat
    BY <1>0
  <2>2. MarketSettings(Market!setAssetOracle(config, o, d))
    BY <1>s, <2>1, MarketSetsKeep
  <2> QED BY <1>9, <2>2, MarketSetsStep DEF Market!setAssetOracle__task
<1>10. ASSUME NEW e \in Addresses, Market!setLeverageExecutor__task(e)
       PROVE  MarketInv'
  <2>1. MarketSettings(Market!setLeverageExecutor(config, e))
    BY <1>0, <1>s, MarketSetsKeep
  <2> QED BY <1>10, <2>1, MarketSetsStep DEF Market!setLeverageExecutor__task
<1>11. ASSUME NEW val \in Entered, Market!setLiquidationMaxSlippageByHand(val)
       PROVE  MarketInv'
  <2>1. Market!AcceptsSlippage(val) =>
          MarketSettings(Market!setLiquidationMaxSlippage(config, val))
    BY <1>0, <1>s, MarketSetsKeep DEF Market!AcceptsSlippage
  <2>2. Market!AcceptsSlippage(val) \in BOOLEAN
    BY DEF Market!AcceptsSlippage
  <2>3. /\ Market!Sets(Market!AcceptsSlippage(val), Market!setLiquidationMaxSlippage(config, val))
        /\ UNCHANGED Market!environment
    BY <1>11 DEF Market!setLiquidationMaxSlippageByHand
  <2> QED BY <2>1, <2>2, <2>3, MarketSetsStep
<1>12. ASSUME NEW t \in PauseTypes, NEW val \in BOOLEAN, Market!updatePause(t, val)
       PROVE  MarketInv'
  <2> DEFINE paused == IF val THEN pauseOptions \cup {t} ELSE pauseOptions \ {t}
             accepts == val # (t \in pauseOptions)
  <2>1. paused \subseteq PauseTypes /\ isMainMarket \in BOOLEAN
    BY DEF MarketInv
  <2>2. Market!executeMarketFn(accepts, config, paused, isMainMarket)
        /\ UNCHANGED Market!environment
    BY <1>12 DEF Market!updatePause
  <2>3. accepts \in BOOLEAN
    OBVIOUS
  <2> HIDE DEF paused, accepts
  <2> QED BY <1>s, <2>1, <2>2, <2>3, MarketCallStep
<1>13. ASSUME NEW t \in PauseTypes, Market!marketUpdatePause__task(t, "true")
                                      \/ Market!marketUpdatePause__task(t, "false")
       PROVE  MarketInv'
  BY <1>12, <1>13 DEF Market!marketUpdatePause__task
<1>14. CASE Market!marketRescueEth__task
  BY <1>14 DEF Market!marketRescueEth__task, Market!Throw, Market!environment, MarketInv
<1>15. ASSUME NEW t \in PauseTypes, NEW s \in {"true", "false"},
              Market!marketUpdatePause__task(t, s)
       PROVE  MarketInv'
  BY <1>13, <1>15 DEF Market!marketUpdatePause__task
<1> QED BY <1>1, <1>3, <1>4, <1>5, <1>6, <1>7, <1>8, <1>9, <1>10, <1>11, <1>12, <1>14, <1>15,
           Zenon DEF Market!Task

LEMMA MarketInvInit ==
  ASSUME Market!ConfigAssumption, Market!TasksAssumption, Market!Init
  PROVE  MarketInv
<1>1. PICK a \in InitValues : config = Market!init(a, isMainAsset)
                                /\ Market!AcceptsInit(a, isMainAsset)
  BY DEF Market!Init
<1>2. a \in [Market!InitArgs -> Nat] /\ isMainAsset \in BOOLEAN
  BY DEF Market!TasksAssumption, Market!Init
<1>3. MarketSettings(config)
  BY <1>1, <1>2, MarketInitKeeps
<1> QED BY <1>2, <1>3 DEF Market!Init, MarketInv, Market!TasksAssumption

LEMMA MarketInvNext ==
  ASSUME Market!ConfigAssumption, Market!TasksAssumption, MarketInv, Market!Next
  PROVE  MarketInv'
<1>1. CASE Market!Task
  BY <1>1, MarketTaskStep
<1>2. CASE Market!borrow
  BY <1>2 DEF Market!borrow, Market!UserMoves, MarketInv, Market!TasksAssumption
<1>3. CASE Market!repay
  BY <1>3 DEF Market!repay, Market!UserMoves, MarketInv, Market!TasksAssumption
<1>4. CASE Market!setMainTokens
  BY <1>4 DEF Market!setMainTokens, MarketInv
<1> QED BY <1>1, <1>2, <1>3, <1>4 DEF Market!Next

(* An interpolated fee lies between the fees it interpolates. *)
LEMMA MarketFeeBetween ==
  ASSUME NEW low \in Nat, NEW high \in Nat, low <= high,
         NEW start \in Nat, NEW end \in Nat, NEW price \in start .. end, start < end
  PROVE  high - ((price - start) * (high - low)) \div (end - start) \in low .. high
<1> DEFINE d == high - low  b == end - start  p == price - start
           q == (p * d) \div b
<1>1. d \in Nat /\ b \in Nat /\ b > 0 /\ p \in Nat /\ p <= b
  OBVIOUS
<1> HIDE DEF d, b, p
<1>2. p * d \in Nat /\ p * d <= b * d
  BY <1>1
<1>3. q \in Nat /\ b * q <= p * d
  BY <1>1, <1>2, FloorDiv
<1> HIDE DEF q
<1>4. q <= d
  <2> SUFFICES ASSUME q > d PROVE FALSE
    BY <1>1, <1>3
  <2>1. b * (d + 1) <= b * q
    BY <1>1, <1>3
  <2>2. b * (d + 1) = b * d + b
    BY <1>1
  <2>3. b * d \in Nat /\ b * q \in Nat
    BY <1>1, <1>3
  <2> QED BY <1>1, <1>2, <1>3, <2>1, <2>2, <2>3
<1>5. high - q \in low .. high
  BY <1>1, <1>3, <1>4 DEF d
<1> QED BY <1>5 DEF q, p, d, b

LEMMA MarketInvGives ==
  ASSUME Market!ConfigAssumption, Market!TasksAssumption, MarketInv
  PROVE  /\ Market!TypeOK /\ Market!MeetsMarketAssumptions /\ Market!OpeningFeeBetweenBounds
         /\ Market!DebtRatesOrdered
<1>1. MarketSettings(config) /\ config \in [Market!Fields -> Nat]
  BY DEF MarketInv, MarketSettings
<1>2. /\ config.minMintFee \in Nat /\ config.maxMintFee \in Nat
      /\ config.minMintFeeStart \in Nat /\ config.maxMintFeeStart \in Nat
      /\ config.minMintFee <= config.maxMintFee
      /\ config.maxMintFeeStart < config.minMintFeeStart
  BY <1>1, MarketFields DEF MarketSettings
<1>3. Market!Math!RateAssumption
  BY <1>1, MarketFields DEF MarketSettings, Market!Math!RateAssumption
<1>4. Market!Math!MintFeeAssumption
  BY <1>2 DEF Market!Math!MintFeeAssumption
<1>5. ASSUME NEW price \in Prices
      PROVE  Market!Math!openingFeeRate(price) \in config.minMintFee .. config.maxMintFee
  <2> DEFINE low == config.minMintFee  high == config.maxMintFee
             end == config.minMintFeeStart  start == config.maxMintFeeStart
             fee == Market!Math!openingFeeRate(price)
  <2>1. fee \in low .. high
    <3>1. /\ low \in Nat /\ high \in Nat /\ low <= high /\ start \in Nat /\ end \in Nat
          /\ start < end /\ price \in Nat
      BY <1>2 DEF Market!TasksAssumption
    <3>2. fee = IF price >= end THEN low ELSE IF price <= start THEN high
                ELSE high - ((price - start) * (high - low)) \div (end - start)
      BY DEF Market!Math!openingFeeRate
    <3> HIDE DEF low, high, start, end, fee
    <3>3. CASE price >= end \/ price <= start
      BY <3>1, <3>2, <3>3
    <3>4. CASE ~(price >= end) /\ ~(price <= start)
      <4>1. price \in start .. end
        BY <3>1, <3>4
      <4> DEFINE x == high - ((price - start) * (high - low)) \div (end - start)
      <4>2. x \in low .. high
        BY <3>1, <4>1, MarketFeeBetween
      <4>3. fee = x
        BY <3>1, <3>2, <3>4
      <4> QED BY <4>2, <4>3
    <3> QED BY <3>3, <3>4
  <2> QED BY <2>1
<1>6. Market!TypeOK
  BY <1>1 DEF MarketInv, MarketSettings, Market!TypeOK
<1>7. Market!DebtRatesOrdered
  BY <1>1 DEF MarketSettings, Market!DebtRatesOrdered
<1> QED BY <1>3, <1>4, <1>5, <1>6, <1>7
        DEF Market!MeetsMarketAssumptions, Market!OpeningFeeBetweenBounds

(***************************************************************************)
(* YbAssets.                                                               *)
(***************************************************************************)
(* Calls for one token whose specific strategy was named are one call. *)
AssetsSingle(named, calls) ==
  \A c, d \in calls : c.strat.for = d.strat.for /\ c.strat.for \in named => c = d

(* What a task goes on with, n being how many contracts there are.  While  *)
(* one is under way nothing is said of the last one.                       *)
AssetsTask(n) ==
  \/ task = Assets!Idle
  \/ /\ ended = Assets!Fresh
     /\ \/ \E found : /\ DOMAIN found \subseteq Assets!StratNames /\ IsFiniteSet(DOMAIN found)
                      /\ \E type : task = [at |-> "execute", type |-> type, found |-> found]
        \/ \E made : /\ DOMAIN made \subseteq Assets!StratNames
                     /\ \A m \in DOMAIN made : made[m] \in 1 .. n
                     /\ \E type : task = [at |-> "save", type |-> type, made |-> made]
        \/ \E named, calls : /\ AssetsSingle(named, calls)
                             /\ task = [at |-> "multicall", named |-> named, calls |-> calls]

AssetsEnded ==
  \/ ended = Assets!Fresh
  \/ \E type, names : ended = [what |-> "deployEmptyStrats", ok |-> TRUE, type |-> type,
                               names |-> names]
  \/ ended = [what |-> "registerYbAssets", ok |-> FALSE]
  \/ \E named, calls :
         /\ AssetsSingle(named, calls)
         /\ \A c \in calls : c \in assets /\ Assets!Held(c.strat) = c.token
         /\ ended = [what |-> "registerYbAssets", ok |-> TRUE, named |-> named,
                     calls |-> calls]

AssetsInv ==
  /\ tokens \in [Assets!Names -> 0 .. MaxRedeployed] /\ released \in 0 .. MaxRedeployed
  /\ DOMAIN specific \subseteq Specifics /\ DOMAIN strats \subseteq Assets!StratNames
  /\ \E S : holds \in Seq(S)
  /\ \A n \in DOMAIN strats : strats[n] \in 1 .. Len(holds)
  /\ registrations \in 0 .. MaxRegistrations /\ crashes \in 0 .. MaxCrashes
  /\ AssetsTask(Len(holds)) /\ AssetsEnded

(* The instance's operators on finite sets are those of the library. *)
LEMMA AssetsFinite ==
  ASSUME NEW S
  PROVE  /\ Assets!IsFiniteSet(S) <=> IsFiniteSet(S)
         /\ Assets!Cardinality(S) = Cardinality(S)
<1>1. Assets!IsFiniteSet(S) <=> IsFiniteSet(S)
  BY DEF Assets!IsFiniteSet, IsFiniteSet
<1>2. Assets!Cardinality(S) = Cardinality(S)
  BY DEF Assets!Cardinality, Cardinality
<1> QED BY <1>1, <1>2

(* The sequence of a set has each of its elements. *)
LEMMA AssetsOrder ==
  ASSUME NEW S, IsFiniteSet(S)
  PROVE  /\ Assets!SetToSeq(S) \in Seq(S)
         /\ \A x \in S : \E i \in DOMAIN Assets!SetToSeq(S) : Assets!SetToSeq(S)[i] = x
<1> DEFINE n == Cardinality(S)  order == Assets!SetToSeq(S)
<1>1. n \in Nat /\ ExistsBijection(1 .. n, S)
  BY FS_CardinalityType
<1>2. \E f \in [1 .. n -> S] : Assets!IsInjective(f)
  BY <1>1 DEF ExistsBijection, Bijection, Injection, IsInjective, Assets!IsInjective
<1>3. order \in [1 .. n -> S] /\ Assets!IsInjective(order)
  <2>1. order = CHOOSE f \in [1 .. n -> S] : Assets!IsInjective(f)
    BY AssetsFinite DEF Assets!SetToSeq
  <2> HIDE DEF order
  <2> QED BY <1>2, <2>1
<1> HIDE DEF order
<1>4. order \in Injection(1 .. n, S)
  BY <1>3 DEF Injection, IsInjective, Assets!IsInjective
<1>5. IsFiniteSet(1 .. n) /\ Cardinality(1 .. n) = n
  BY <1>1, FS_Interval
<1>6. order \in Surjection(1 .. n, S)
  BY <1>4, <1>5, FS_Injection
<1>7. \A x \in S : \E i \in DOMAIN order : order[i] = x
  BY <1>3, <1>6 DEF Surjection
<1>8. order \in Seq(S)
  BY <1>1, <1>3
<1> QED BY <1>7, <1>8 DEF order

(* A name the operator gave has one call, and others one for each strategy. *)
LEMMA AssetsChosenSingle ==
  ASSUME NEW named, NEW term
  PROVE  AssetsSingle(named,
             Assets!buildYieldBoxAssets(Assets!Filtered(Assets!Chosen(named), term)))
<1> DEFINE chosen == Assets!Chosen(named)
           calls == Assets!buildYieldBoxAssets(Assets!Filtered(chosen, term))
<1>1. ASSUME NEW s \in chosen, NEW t \in chosen, s.for = t.for, s.for \in named
      PROVE  s = t
  <2>1. \A n : Assets!Empty(n).for = n /\ Assets!Specific(n).for = n
    BY DEF Assets!Empty, Assets!Specific
  <2>2. ASSUME NEW u \in chosen
        PROVE  \/ u = Assets!Empty(u.for) /\ ~(u.for \in named /\ u.for \in DOMAIN specific)
               \/ u = Assets!Specific(u.for) /\ u.for \in DOMAIN specific
    <3>1. \/ \E n \in DOMAIN strats \ (named \cap DOMAIN specific) : u = Assets!Empty(n)
          \/ \E n \in DOMAIN specific : u = Assets!Specific(n)
      BY DEF Assets!Chosen
    <3> HIDE DEF chosen
    <3>2. CASE \E n \in DOMAIN strats \ (named \cap DOMAIN specific) : u = Assets!Empty(n)
      BY <2>1, <3>2
    <3>3. CASE \E n \in DOMAIN specific : u = Assets!Specific(n)
      BY <2>1, <3>3
    <3> QED BY <3>1, <3>2, <3>3
  <2> HIDE DEF chosen
  <2>3. CASE s = Assets!Empty(s.for) /\ ~(s.for \in named /\ s.for \in DOMAIN specific)
    <3>1. t = Assets!Empty(t.for)
      BY <1>1, <2>2, <2>3
    <3> QED BY <1>1, <2>3, <3>1
  <2>4. CASE s = Assets!Specific(s.for) /\ s.for \in DOMAIN specific
    <3>1. t = Assets!Specific(t.for)
      BY <1>1, <2>2, <2>4
    <3> QED BY <1>1, <2>4, <3>1
  <2> QED BY <2>2, <2>3, <2>4
<1> HIDE DEF chosen
<1>2. \A c \in calls : \E s \in chosen : c = [strat |-> s, token |-> Assets!Deployed(s.for)]
  BY DEF Assets!buildYieldBoxAssets, Assets!Filtered
<1> HIDE DEF calls
<1>3. \A c, d \in calls : c.strat.for = d.strat.for /\ c.strat.for \in named => c = d
  <2> SUFFICES ASSUME NEW c \in calls, NEW d \in calls,
                      c.strat.for = d.strat.for, c.strat.for \in named
               PROVE  c = d
    OBVIOUS
  <2>1. PICK s \in chosen : c = [strat |-> s, token |-> Assets!Deployed(s.for)]
    BY <1>2
  <2>2. PICK t \in chosen : d = [strat |-> t, token |-> Assets!Deployed(t.for)]
    BY <1>2
  <2>3. s = t
    BY <1>1, <2>1, <2>2
  <2> QED BY <2>1, <2>2, <2>3
<1> QED BY <1>3 DEF AssetsSingle, calls, chosen

LEMMA AssetsInvInit ==
  ASSUME Assets!AssetsAssumption, Assets!Init
  PROVE  AssetsInv
<1>1. holds \in Seq({}) /\ DOMAIN specific = {} /\ DOMAIN strats = {}
  BY DEF Assets!Init
<1>2. MaxRedeployed \in Nat /\ MaxRegistrations \in Nat /\ MaxCrashes \in Nat
  BY DEF Assets!AssetsAssumption
<1>3. /\ tokens \in [Assets!Names -> 0 .. MaxRedeployed] /\ released \in 0 .. MaxRedeployed
      /\ registrations \in 0 .. MaxRegistrations /\ crashes \in 0 .. MaxCrashes
  BY <1>2 DEF Assets!Init
<1>4. AssetsTask(Len(holds)) /\ AssetsEnded
  BY DEF Assets!Init, AssetsTask, AssetsEnded
<1> QED BY <1>1, <1>3, <1>4 DEF AssetsInv

(* A task that found tokens to deploy strategies for. *)
LEMMA AssetsDeployStep ==
  ASSUME Assets!AssetsAssumption, AssetsInv,
         NEW type \in 0 .. 5, NEW n \in Assets!Names, Assets!deployEmptyStrats(type, n)
  PROVE  AssetsInv'
<1> DEFINE found == Assets!Found(type, n)
<1>1. \/ DOMAIN found = Tofts \/ DOMAIN found = {Assets!USDO} \/ DOMAIN found = {Assets!TapOFT}
      \/ DOMAIN found = {n} \/ DOMAIN found = {Assets!ErcName} \/ DOMAIN found = {}
  BY DEF Assets!Found, Assets!StratType
<1>2. DOMAIN found \subseteq Assets!StratNames
  BY <1>1 DEF Assets!StratNames, Assets!Names
<1>3. IsFiniteSet(DOMAIN found)
  <2>1. IsFiniteSet(Tofts)
    BY AssetsFinite DEF Assets!AssetsAssumption
  <2> HIDE DEF found
  <2> QED BY <1>1, <2>1, FS_Singleton, FS_EmptySet
<1> HIDE DEF found
<1>4. /\ ended' = Assets!Fresh
      /\ task' = [at |-> "execute", type |-> type, found |-> found]
  BY DEF Assets!deployEmptyStrats, found
<1>5. AssetsTask(Len(holds))' /\ AssetsEnded'
  BY <1>2, <1>3, <1>4 DEF AssetsTask, AssetsEnded
<1>6. registrations' \in 0 .. MaxRegistrations
  <2>1. MaxRegistrations \in Nat /\ registrations \in 0 .. MaxRegistrations
    BY DEF AssetsInv, Assets!AssetsAssumption
  <2>2. \/ registrations' = registrations
        \/ registrations < MaxRegistrations /\ registrations' = registrations + 1
    BY DEF Assets!deployEmptyStrats
  <2> QED BY <2>1, <2>2
<1> QED BY <1>5, <1>6 DEF Assets!deployEmptyStrats, AssetsInv, Assets!files, Assets!chain

LEMMA AssetsExecuteStep ==
  ASSUME Assets!AssetsAssumption, AssetsInv, Assets!execute
  PROVE  AssetsInv'
<1> DEFINE found == task.found  order == Assets!SetToSeq(DOMAIN found)
           new == [i \in DOMAIN order |-> found[order[i]]]
           made == [m \in DOMAIN found |->
                       Len(holds) + CHOOSE i \in DOMAIN order : order[i] = m]
<1>1. /\ DOMAIN found \subseteq Assets!StratNames /\ IsFiniteSet(DOMAIN found)
      /\ ended = Assets!Fresh
  BY DEF AssetsInv, AssetsTask, Assets!execute, Assets!Idle
<1>2. /\ order \in Seq(DOMAIN found)
      /\ \A x \in DOMAIN found : \E i \in DOMAIN order : order[i] = x
  BY <1>1, AssetsOrder
<1>3. /\ holds' = holds \o new
      /\ \E type : task' = [at |-> "save", type |-> type, made |-> made]
      /\ UNCHANGED <<tokens, released, specific, strats, assets, ended, registrations, crashes>>
  BY DEF Assets!execute, Assets!files
<1> HIDE DEF order, found
<1>4. PICK S : holds \in Seq(S)
  BY DEF AssetsInv
<1>5. /\ new \in Seq({found[x] : x \in DOMAIN found}) /\ Len(new) = Len(order)
      /\ DOMAIN order = 1 .. Len(order) /\ Len(order) \in Nat
  BY <1>2
<1> HIDE DEF new
<1>6. /\ holds' \in Seq(S \cup {found[x] : x \in DOMAIN found})
      /\ Len(holds') = Len(holds) + Len(order) /\ Len(holds) \in Nat
  <2> DEFINE V == {found[x] : x \in DOMAIN found}
  <2>1. holds' = holds \o new
    BY <1>3
  <2> HIDE DEF V
  <2>2. holds \in Seq(S \cup V) /\ new \in Seq(S \cup V)
    BY <1>4, <1>5 DEF V
  <2>3. holds \o new \in Seq(S \cup V) /\ Len(holds \o new) = Len(holds) + Len(new)
    BY <2>2
  <2> QED BY <1>4, <1>5, <2>1, <2>3 DEF V
<1>7. \A m \in DOMAIN made : made[m] \in 1 .. Len(holds')
  BY <1>2, <1>5, <1>6
<1>8. DOMAIN made \subseteq Assets!StratNames
  BY <1>1
<1> HIDE DEF made
<1>9. AssetsTask(Len(holds))'
  BY <1>1, <1>3, <1>7, <1>8 DEF AssetsTask
<1>10. AssetsEnded'
  BY <1>1, <1>3 DEF AssetsEnded
<1>11. \A n \in DOMAIN strats' : strats'[n] \in 1 .. Len(holds')
  BY <1>3, <1>6 DEF AssetsInv
<1> QED BY <1>3, <1>6, <1>9, <1>10, <1>11 DEF AssetsInv

LEMMA AssetsSaveStep ==
  ASSUME Assets!AssetsAssumption, AssetsInv, Assets!save
  PROVE  AssetsInv'
<1>1. /\ DOMAIN task.made \subseteq Assets!StratNames
      /\ \A m \in DOMAIN task.made : task.made[m] \in 1 .. Len(holds)
  BY DEF AssetsInv, AssetsTask, Assets!save, Assets!Idle
<1>2. /\ strats' = Assets!Update(strats, task.made)
      /\ task' = Assets!Idle
      /\ \E type, names : ended' = [what |-> "deployEmptyStrats", ok |-> TRUE,
                                    type |-> type, names |-> names]
      /\ UNCHANGED <<tokens, released, specific, holds, assets, registrations, crashes>>
  BY DEF Assets!save, Assets!Finish, Assets!files
<1>3. /\ DOMAIN strats' \subseteq Assets!StratNames
      /\ \A n \in DOMAIN strats' : strats'[n] \in 1 .. Len(holds)
  BY <1>1, <1>2 DEF Assets!Update, AssetsInv
<1>4. AssetsTask(Len(holds))' /\ AssetsEnded'
  BY <1>2 DEF AssetsTask, AssetsEnded
<1> QED BY <1>2, <1>3, <1>4 DEF AssetsInv

LEMMA AssetsRegisterStep ==
  ASSUME Assets!AssetsAssumption, AssetsInv,
         NEW named, NEW term, Assets!registerYbAssets(named, term)
  PROVE  AssetsInv'
<1> DEFINE calls == Assets!buildYieldBoxAssets(Assets!Filtered(Assets!Chosen(named), term))
<1>1. AssetsSingle(named, calls)
  BY AssetsChosenSingle
<1>2. \/ /\ task' = [at |-> "multicall", named |-> named, calls |-> calls]
         /\ ended' = Assets!Fresh
      \/ task' = Assets!Idle /\ ended' = [what |-> "registerYbAssets", ok |-> FALSE]
  BY DEF Assets!registerYbAssets, Assets!Finish
<1>3. UNCHANGED <<tokens, released, specific, strats, holds, assets, registrations, crashes>>
  BY DEF Assets!registerYbAssets, Assets!files, Assets!chain
<1> HIDE DEF calls
<1>4. AssetsTask(Len(holds))' /\ AssetsEnded'
  BY <1>1, <1>2 DEF AssetsTask, AssetsEnded
<1> QED BY <1>3, <1>4 DEF AssetsInv

LEMMA AssetsMulticallStep ==
  ASSUME Assets!AssetsAssumption, AssetsInv, Assets!multicall
  PROVE  AssetsInv'
<1>1. UNCHANGED <<tokens, released, specific, strats, holds, registrations, crashes>>
      /\ task' = Assets!Idle
  BY DEF Assets!multicall, Assets!files, Assets!Finish
<1>2. AssetsSingle(task.named, task.calls)
  BY DEF AssetsInv, AssetsTask, Assets!multicall, Assets!Idle
<1>3. AssetsEnded'
  <2>1. CASE \A c \in task.calls : Assets!Registers(c)
    <3>1. /\ assets' = assets \cup task.calls
          /\ ended' = [what |-> "registerYbAssets", ok |-> TRUE, named |-> task.named,
                       calls |-> task.calls]
      BY <2>1 DEF Assets!multicall, Assets!Finish
    <3>2. \A c \in task.calls : c \in assets' /\ Assets!Held(c.strat)' = c.token
      BY <1>1, <2>1, <3>1 DEF Assets!Registers, Assets!Held
    <3> QED BY <1>2, <3>1, <3>2 DEF AssetsEnded, AssetsSingle, Assets!Held
  <2>2. CASE ~\A c \in task.calls : Assets!Registers(c)
    BY <2>2 DEF Assets!multicall, Assets!Finish, AssetsEnded
  <2> QED BY <2>1, <2>2
<1>4. AssetsTask(Len(holds))'
  BY <1>1 DEF AssetsTask
<1> QED BY <1>1, <1>3, <1>4 DEF AssetsInv

(* What neither touches the strategies, nor the task. *)
LEMMA AssetsRestStep ==
  ASSUME UNCHANGED <<strats, holds, assets, ended>>
  PROVE  /\ AssetsEnded => AssetsEnded'
         /\ task' = task /\ AssetsTask(Len(holds)) => AssetsTask(Len(holds))'
<1>1. ASSUME AssetsEnded PROVE AssetsEnded'
  BY <1>1 DEF AssetsEnded, Assets!Held
<1>2. ASSUME task' = task, AssetsTask(Len(holds)) PROVE AssetsTask(Len(holds))'
  BY <1>2 DEF AssetsTask
<1> QED BY <1>1, <1>2

LEMMA AssetsInvNext ==
  ASSUME Assets!AssetsAssumption, AssetsInv, Assets!Next
  PROVE  AssetsInv'
<1>1. ASSUME NEW n \in Redeployable, Assets!Redeploy(n)
      PROVE  AssetsInv'
  <2>1. UNCHANGED <<released, specific, strats, holds, assets, task, ended, registrations, crashes>>
    BY <1>1 DEF Assets!Redeploy, Assets!chain
  <2>2. tokens' \in [Assets!Names -> 0 .. MaxRedeployed]
    <3>1. n \in Assets!Names /\ MaxRedeployed \in Nat
      BY DEF Assets!AssetsAssumption
    <3> QED BY <1>1, <3>1 DEF Assets!Redeploy, AssetsInv
  <2> QED BY <2>1, <2>2, AssetsRestStep DEF AssetsInv
<1>2. CASE Assets!Release
  <2>1. UNCHANGED <<tokens, specific, strats, holds, assets, task, ended, registrations, crashes>>
    BY <1>2 DEF Assets!Release, Assets!chain
  <2>2. released' \in 0 .. MaxRedeployed
    BY <1>2 DEF Assets!Release, AssetsInv, Assets!Names
  <2> QED BY <2>1, <2>2, AssetsRestStep DEF AssetsInv
<1>3. ASSUME NEW n \in Specifics, Assets!DeploySpecific(n)
      PROVE  AssetsInv'
  <2>1. UNCHANGED <<tokens, released, strats, holds, assets, task, ended, registrations, crashes>>
    BY <1>3 DEF Assets!DeploySpecific, Assets!chain
  <2>2. DOMAIN specific' \subseteq Specifics
    BY <1>3 DEF Assets!DeploySpecific, Assets!Update, AssetsInv
  <2> QED BY <2>1, <2>2, AssetsRestStep DEF AssetsInv
<1>4. CASE Assets!Crash
  <2>1. UNCHANGED <<tokens, released, specific, strats, holds, assets, ended, registrations>>
        /\ task' = Assets!Idle
    BY <1>4 DEF Assets!Crash, Assets!chain, Assets!files
  <2>2. crashes' \in 0 .. MaxCrashes
    <3>1. crashes \in 0 .. MaxCrashes /\ MaxCrashes \in Nat
      BY DEF AssetsInv, Assets!AssetsAssumption
    <3>2. crashes < MaxCrashes /\ crashes' = crashes + 1
      BY <1>4 DEF Assets!Crash
    <3> QED BY <3>1, <3>2
  <2>3. AssetsTask(Len(holds))'
    BY <2>1 DEF AssetsTask
  <2> QED BY <2>1, <2>2, <2>3, AssetsRestStep DEF AssetsInv
<1> QED BY <1>1, <1>2, <1>3, <1>4, AssetsDeployStep, AssetsExecuteStep, AssetsSaveStep,
           AssetsRegisterStep, AssetsMulticallStep
        DEF Assets!Next, Assets!Script, Assets!Operator, Assets!Others

LEMMA AssetsInvGives ==
  ASSUME Assets!AssetsAssumption, AssetsInv
  PROVE  Assets!TypeOK /\ Assets!DoneMeansRegistered /\ Assets!SpecificReplacesEmpty
<1>1. Assets!TypeOK
  BY DEF AssetsInv, Assets!TypeOK
<1>2. Assets!DoneMeansRegistered
  BY DEF AssetsInv, AssetsEnded, Assets!Fresh, Assets!DoneMeansRegistered
<1>3. Assets!SpecificReplacesEmpty
  BY DEF AssetsInv, AssetsEnded, AssetsSingle, Assets!Fresh, Assets!SpecificReplacesEmpty
<1> QED BY <1>1, <1>2, <1>3

-----------------------------------------------------------------------------
(***************************************************************************)
(* The groups together.  The invariant of each of them holds in every      *)
(* behaviour, also in those of another one.                                *)
(***************************************************************************)
TasksInv == MarketInv /\ AssetsInv /\ SwapperInv /\ FlowInv

LEMMA MarketRests ==
  ASSUME MarketInv, UNCHANGED marketVars
  PROVE  MarketInv'
  BY DEF MarketInv, marketVars

LEMMA AssetsRests ==
  ASSUME AssetsInv, UNCHANGED assetVars
  PROVE  AssetsInv'
<1>1. UNCHANGED <<tokens, released, specific, strats, holds, assets, task, ended, registrations, crashes>>
  BY DEF assetVars
<1> QED BY <1>1, AssetsRestStep DEF AssetsInv

LEMMA SwapperRest ==
  ASSUME SwapperInv, UNCHANGED swapperVars
  PROVE  SwapperInv'
<1>1. UNCHANGED <<host, swapLedger, swapPool, flight, file, swapPc, target, done, hasty,
                  swapCrashes>>
  BY DEF swapperVars
<1> QED BY <1>1 DEF SwapperInv

LEMMA FlowRests ==
  ASSUME FlowInv, UNCHANGED flowVars
  PROVE  FlowInv'
<1>1. UNCHANGED <<ledger, fees, pool, pc, before, runs>>
  BY DEF flowVars
<1> QED BY <1>1 DEF FlowInv

LEMMA TasksInvInit ==
  ASSUME Init
  PROVE  TasksInv
  BY GroupsAssumption, MarketInvInit, AssetsInvInit, SwapperInvInit, FlowInvInit
     DEF Init, TasksInv

LEMMA TasksInvNext ==
  ASSUME TasksInv, [Next]_vars
  PROVE  TasksInv'
<1>1. CASE UNCHANGED vars
  BY <1>1, MarketRests, AssetsRests, SwapperRest, FlowRests DEF vars, TasksInv
<1>2. CASE Market!Next /\ UNCHANGED <<assetVars, swapperVars, flowVars>>
  BY <1>2, GroupsAssumption, MarketInvNext, AssetsRests, SwapperRest, FlowRests DEF TasksInv
<1>3. CASE Assets!Next /\ UNCHANGED <<marketVars, swapperVars, flowVars>>
  BY <1>3, GroupsAssumption, AssetsInvNext, MarketRests, SwapperRest, FlowRests DEF TasksInv
<1>4. CASE Swapper!Next /\ UNCHANGED <<marketVars, assetVars, flowVars>>
  BY <1>4, GroupsAssumption, SwapperInvNext, MarketRests, AssetsRests, FlowRests DEF TasksInv
<1>5. CASE Flow!Next /\ UNCHANGED <<marketVars, assetVars, swapperVars>>
  BY <1>5, GroupsAssumption, FlowInvNext, MarketRests, AssetsRests, SwapperRest DEF TasksInv
<1> QED BY <1>1, <1>2, <1>3, <1>4, <1>5 DEF Next

LEMMA TasksInvHolds == Spec => []TasksInv
<1>1. Init => TasksInv
  BY TasksInvInit
<1>2. TasksInv /\ [Next]_vars => TasksInv'
  BY TasksInvNext
<1> QED BY <1>1, <1>2, PTL DEF Spec

(* The state of every task is one its code can be in: settings of a market *)
(* are naturals and its protocol fee a fraction, what the deployment files *)
(* name was deployed (02-deployEmptyStrats.ts:143), and the transactions   *)
(* that wait to be mined touch accounts there are.                         *)
THEOREM TypeCorrect == Spec => []TypeOK
<1>1. TasksInv => TypeOK
  BY GroupsAssumption, MarketInvGives, AssetsInvGives, SwapperInvGives, FlowInvGives
     DEF TasksInv, TypeOK
<1> QED BY <1>1, TasksInvHolds, PTL

(* Whatever the owner of a market sets, by task or by hand and in whatever *)
(* order, the settings stay what BigBang's arithmetic assumes of them      *)
(* (Market.sol:111-283, BigBang.sol:213-251): no liquidation underflows,   *)
(* the opening fee lies between the fees set last, and debt rates that are *)
(* both set are not crossed.                                               *)
THEOREM SettingsValid == Spec => []SettingsStayValid
<1>1. TasksInv => SettingsStayValid
  BY GroupsAssumption, MarketInvGives DEF TasksInv, SettingsStayValid
<1> QED BY <1>1, TasksInvHolds, PTL

(* A run of registerYbAssets that ends without an error registered each    *)
(* strategy it showed the operator with the token it holds, whatever was   *)
(* deployed again in between, and no second one where he named a specific  *)
(* strategy (registerYbAssets.ts:40).                                      *)
THEOREM DoneRegistered == Spec => []DoneMeansRegistered
<1>1. TasksInv => DoneMeansRegistered
  BY GroupsAssumption, AssetsInvGives DEF TasksInv, DoneMeansRegistered
<1> QED BY <1>1, TasksInvHolds, PTL

(* At each point a task may be stopped, and in whatever order its          *)
(* transactions are mined, each tOFT of the mock swapper is backed by an   *)
(* underlying and each token of the test flow is in one place.             *)
THEOREM TasksKeepTokens == Spec => []TokensAccounted
<1>1. TasksInv => TokensAccounted
  BY GroupsAssumption, SwapperInvGives, FlowInvGives DEF TasksInv, TokensAccounted
<1> QED BY <1>1, TasksInvHolds, PTL

(* The flow goes on past nothing but approvals and withdrawals, and a run  *)
(* of it that ends well leaves the collateral of both its parts, although  *)
(* transactions of it are pending when later steps read the chain.         *)
THEOREM FlowWaitsHolds == Spec => []FlowWaits
<1>1. TasksInv => FlowWaits
  BY GroupsAssumption, FlowInvGives DEF TasksInv, FlowWaits
<1> QED BY <1>1, TasksInvHolds, PTL
=============================================================================
