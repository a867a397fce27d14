--------------------------- MODULE CommonTheorems ---------------------------
(***************************************************************************)
(* What the proofs of several components rest on: division, how SumOver    *)
(* behaves (it is a natural, it bounds every entry, and it moves by the    *)
(* change of the one entry an EXCEPT updates), and folds over sequences.   *)
(***************************************************************************)
EXTENDS Sums, FiniteSetTheorems, WellFoundedInduction, TLAPS

LEMMA FloorDiv ==
  ASSUME NEW a \in Nat, NEW b \in Nat, b > 0
  PROVE  /\ a \div b \in Nat
         /\ b * (a \div b) <= a
         /\ a < b * (a \div b) + b
  OBVIOUS

-----------------------------------------------------------------------------
(***************************************************************************)
(* Sums.                                                                   *)
(***************************************************************************)
(* The units of one account are as many as its entry says. *)
LEMMA UnitsOfOne ==
  ASSUME NEW a, NEW n \in Nat
  PROVE  IsFiniteSet({a} \X (1..n)) /\ Cardinality({a} \X (1..n)) = n
<1>1. IsFiniteSet(1..n) /\ Cardinality(1..n) = n
  BY FS_Interval
<1>2. IsFiniteSet({a}) /\ Cardinality({a}) = 1
  BY FS_Singleton
<1>3. /\ IsFiniteSet({a} \X (1..n))
      /\ Cardinality({a} \X (1..n)) = Cardinality({a}) * Cardinality(1..n)
  BY <1>1, <1>2, FS_Product
<1> QED BY <1>1, <1>2, <1>3

(* A mapping on finitely many accounts has finitely many units. *)
LEMMA UnitsFinite ==
  ASSUME NEW S, IsFiniteSet(S), NEW f \in [S -> Nat]
  PROVE  IsFiniteSet(Units(f))
<1> DEFINE parts == {{a} \X (1..f[a]) : a \in S}
           part == [a \in S |-> {a} \X (1..f[a])]
<1>1. IsFiniteSet(parts)
  <2>1. part \in Surjection(S, parts)
    BY Zenon DEF Surjection
  <2> QED BY <2>1, FS_Surjection
<1>2. ASSUME NEW T \in parts PROVE IsFiniteSet(T)
  <2>1. PICK a \in S : T = {a} \X (1..f[a])
    OBVIOUS
  <2>2. f[a] \in Nat
    OBVIOUS
  <2> QED BY <2>1, <2>2, UnitsOfOne
<1>3. Units(f) = UNION parts
  BY DEF Units
<1> QED BY <1>1, <1>2, <1>3, FS_UNION

(* The sum splits into one entry and the units of all the others. *)
LEMMA SumSplit ==
  ASSUME NEW S, IsFiniteSet(S), NEW f \in [S -> Nat], NEW u \in S
  PROVE  /\ IsFiniteSet(Units(f) \ ({u} \X Nat))
         /\ SumOver(f) = f[u] + Cardinality(Units(f) \ ({u} \X Nat))
<1> DEFINE own == {u} \X (1..f[u])
           rest == Units(f) \ ({u} \X Nat)
<1> HIDE DEF own, rest
<1>1. Units(f) = own \cup rest
  <2> USE DEF own, rest
  <2>1. \A x \in own : x \in Units(f)
    BY DEF Units
  <2>2. \A x \in Units(f) : x \in own \/ x \in rest
    <3>1. SUFFICES ASSUME NEW a \in S, NEW i \in 1..f[a], <<a, i>> \in {u} \X Nat
                   PROVE  <<a, i>> \in own
      BY DEF Units
    <3> QED BY <3>1
  <2> QED BY <2>1, <2>2
<1>2. own \cap rest = {}
  BY DEF own, rest
<1>3. IsFiniteSet(own) /\ Cardinality(own) = f[u]
  <2>1. f[u] \in Nat
    OBVIOUS
  <2> QED BY <2>1, UnitsOfOne DEF own
<1>4. IsFiniteSet(rest)
  BY UnitsFinite, FS_Difference DEF rest
<1>5. /\ IsFiniteSet(own \cup rest)
      /\ Cardinality(own \cup rest) =
           Cardinality(own) + Cardinality(rest) - Cardinality(own \cap rest)
  BY <1>3, <1>4, FS_Union
<1>6. Cardinality(own \cap rest) = 0
  BY <1>2, FS_EmptySet
<1>7. Cardinality(rest) \in Nat
  BY <1>4, FS_CardinalityType
<1>8. f[u] \in Nat
  OBVIOUS
<1>9. Cardinality(Units(f)) = f[u] + Cardinality(rest)
  BY <1>1, <1>3, <1>5, <1>6, <1>7, <1>8
<1> QED BY <1>4, <1>9 DEF SumOver, rest

(* Updating one entry moves the sum by exactly that entry's change. *)
THEOREM SumUpdate ==
  ASSUME NEW S, IsFiniteSet(S), NEW f \in [S -> Nat], NEW u \in S, NEW v \in Nat
  PROVE  SumOver([f EXCEPT ![u] = v]) = SumOver(f) - f[u] + v
<1> DEFINE g == [f EXCEPT ![u] = v]
<1>1. g \in [S -> Nat] /\ g[u] = v /\ \A a \in S \ {u} : g[a] = f[a]
  OBVIOUS
<1>2. Units(g) \ ({u} \X Nat) = Units(f) \ ({u} \X Nat)
  <2>1. \A a \in S, i \in Nat : a # u => (i \in 1..g[a] <=> i \in 1..f[a])
    BY <1>1
  <2>2. \A h \in [S -> Nat] :
          Units(h) \ ({u} \X Nat) = UNION {{a} \X (1..h[a]) : a \in S \ {u}}
    BY DEF Units
  <2>3. {{a} \X (1..g[a]) : a \in S \ {u}} = {{a} \X (1..f[a]) : a \in S \ {u}}
    BY <1>1
  <2> QED BY <1>1, <2>2, <2>3, Zenon
<1>3. SumOver(f) = f[u] + Cardinality(Units(f) \ ({u} \X Nat))
  BY SumSplit
<1>4. SumOver(g) = g[u] + Cardinality(Units(g) \ ({u} \X Nat))
  BY <1>1, SumSplit
<1>5. Cardinality(Units(f) \ ({u} \X Nat)) \in Nat
  BY SumSplit, FS_CardinalityType
<1>6. f[u] \in Nat
  OBVIOUS
<1> DEFINE others(h) == Cardinality(Units(h) \ ({u} \X Nat))
<1>7. others(g) = others(f)
  BY <1>2
<1> HIDE DEF g, others
<1>8. SumOver(g) = SumOver(f) - f[u] + v
  BY <1>1, <1>3, <1>4, <1>5, <1>6, <1>7 DEF others
<1> QED BY <1>8 DEF g

(* A sum is a natural and no entry exceeds it. *)
THEOREM SumBounds ==
  ASSUME NEW S, IsFiniteSet(S), NEW f \in [S -> Nat]
  PROVE  SumOver(f) \in Nat /\ \A u \in S : f[u] <= SumOver(f)
<1>1. SumOver(f) \in Nat
  BY UnitsFinite, FS_CardinalityType DEF SumOver
<1>2. ASSUME NEW u \in S PROVE f[u] <= SumOver(f)
  <2>1. SumOver(f) = f[u] + Cardinality(Units(f) \ ({u} \X Nat))
    BY SumSplit
  <2>2. Cardinality(Units(f) \ ({u} \X Nat)) \in Nat
    BY SumSplit, FS_CardinalityType
  <2> QED BY <2>1, <2>2
<1> QED BY <1>1, <1>2

(* A mapping that is zero everywhere sums to zero. *)
THEOREM SumOfZeros ==
  ASSUME NEW S
  PROVE  SumOver([a \in S |-> 0]) = 0
<1>1. Units([a \in S |-> 0]) = {}
  BY DEF Units
<1> QED BY <1>1, FS_EmptySet DEF SumOver

(* The sum of two mappings added entry by entry is the sum of their sums.  *)
THEOREM SumAdd ==
  ASSUME NEW S, IsFiniteSet(S), NEW f \in [S -> Nat], NEW g \in [S -> Nat]
  PROVE  SumOver([a \in S |-> f[a] + g[a]]) = SumOver(f) + SumOver(g)
<1> DEFINE h == [a \in S |-> f[a] + g[a]]
           lift == [x \in Units(g) |-> <<x[1], f[x[1]] + x[2]>>]
           lifted == {<<x[1], f[x[1]] + x[2]>> : x \in Units(g)}
<1>1. \A x \in Units(g) : x[1] \in S /\ x[2] \in 1..g[x[1]] /\ x = <<x[1], x[2]>>
  BY DEF Units
<1>2. \A x \in Units(f) : x[1] \in S /\ x[2] \in 1..f[x[1]] /\ x = <<x[1], x[2]>>
  BY DEF Units
<1>3. \A a \in S : f[a] \in Nat /\ g[a] \in Nat /\ h[a] = f[a] + g[a]
  OBVIOUS
<1>4. Units(h) = Units(f) \cup lifted
  <2>1. ASSUME NEW y \in Units(h) PROVE y \in Units(f) \cup lifted
    <3>a. PICK a \in S : y \in {a} \X (1..h[a])
      BY DEF Units
    <3>1. PICK i \in 1..h[a] : y = <<a, i>>
      BY <3>a
    <3>2. CASE i <= f[a]
      BY <1>3, <3>1, <3>2 DEF Units
    <3>3. CASE i > f[a]
      <4>1. i - f[a] \in 1..g[a] /\ f[a] + (i - f[a]) = i
        BY <1>3, <3>3
      <4>2. <<a, i - f[a]>> \in Units(g)
        BY <4>1 DEF Units
      <4>3. y = <<<<a, i - f[a]>>[1], f[<<a, i - f[a]>>[1]] + <<a, i - f[a]>>[2]>>
        BY <3>1, <4>1
      <4> QED BY <4>2, <4>3
    <3> QED BY <1>3, <3>2, <3>3
  <2>2. ASSUME NEW y \in Units(f) PROVE y \in Units(h)
    <3>1. y[1] \in S /\ y[2] \in 1..h[y[1]] /\ y = <<y[1], y[2]>>
      BY <1>2, <1>3
    <3> QED BY <3>1 DEF Units
  <2>3. ASSUME NEW y \in lifted PROVE y \in Units(h)
    <3>1. PICK x \in Units(g) : y = <<x[1], f[x[1]] + x[2]>>
      OBVIOUS
    <3>2. x[1] \in S /\ f[x[1]] + x[2] \in 1..h[x[1]]
      BY <1>1, <1>3
    <3> QED BY <3>1, <3>2 DEF Units
  <2> QED BY <2>1, <2>2, <2>3
<1>5. Units(f) \cap lifted = {}
  <2>1. SUFFICES ASSUME NEW y \in Units(f), y \in lifted PROVE FALSE
    OBVIOUS
  <2>2. PICK x \in Units(g) : y = <<x[1], f[x[1]] + x[2]>>
    BY <2>1
  <2>3. y[1] = x[1] /\ y[2] = f[x[1]] + x[2]
    BY <2>2
  <2>4. f[x[1]] + x[2] <= f[x[1]] /\ x[2] >= 1 /\ x[1] \in S /\ x[2] \in Nat
    BY <1>1, <1>2, <1>3, <2>3
  <2> QED BY <1>3, <2>4
<1>6. lift \in Bijection(Units(g), lifted)
  <2>1. lift \in Surjection(Units(g), lifted)
    BY Zenon DEF Surjection
  <2>2. ASSUME NEW x \in Units(g), NEW y \in Units(g), lift[x] = lift[y] PROVE x = y
    <3>1. x[1] = y[1] /\ f[x[1]] + x[2] = f[y[1]] + y[2]
      BY <2>2
    <3>2. x[2] = y[2]
      BY <1>1, <1>3, <3>1
    <3> QED BY <1>1, <3>1, <3>2
  <2>3. IsInjective(lift)
    BY <2>2, Zenon DEF IsInjective
  <2> QED BY <2>1, <2>3, Zenon DEF Bijection, Injection, Surjection
<1>7. IsFiniteSet(Units(f)) /\ IsFiniteSet(Units(g))
  BY UnitsFinite
<1>8. IsFiniteSet(lifted) /\ Cardinality(lifted) = Cardinality(Units(g))
  <2>1. ExistsBijection(Units(g), lifted)
    BY <1>6, Zenon DEF ExistsBijection
  <2> QED BY <1>7, <2>1, FS_Bijection
<1>9. Cardinality(Units(h)) = Cardinality(Units(f)) + Cardinality(lifted)
  <2> HIDE DEF lifted, h
  <2>1. Cardinality(Units(f) \cup lifted)
          = Cardinality(Units(f)) + Cardinality(lifted) - Cardinality(Units(f) \cap lifted)
    BY <1>7, <1>8, FS_Union
  <2>2. Cardinality(Units(f) \cap lifted) = 0
    BY <1>5, FS_EmptySet
  <2>3. Cardinality(Units(f)) \in Nat /\ Cardinality(lifted) \in Nat
    BY <1>7, <1>8, FS_CardinalityType
  <2> QED BY <1>4, <2>1, <2>2, <2>3
<1> QED BY <1>8, <1>9 DEF SumOver

(* A sum of entries that are at most k is at most k times their number. *)
THEOREM SumAtMost ==
  ASSUME NEW S, IsFiniteSet(S), NEW k \in Nat, NEW f \in [S -> 0..k]
  PROVE  SumOver(f) \in 0..(Cardinality(S) * k)
<1>1. Units(f) \subseteq S \X (1..k)
  BY DEF Units
<1>2. IsFiniteSet(1..k) /\ Cardinality(1..k) = k
  BY FS_Interval
<1>3. IsFiniteSet(S \X (1..k)) /\ Cardinality(S \X (1..k)) = Cardinality(S) * Cardinality(1..k)
  BY <1>2, FS_Product
<1>4. IsFiniteSet(Units(f)) /\ Cardinality(Units(f)) <= Cardinality(S \X (1..k))
  BY <1>1, <1>3, FS_Subset
<1>5. Cardinality(Units(f)) \in Nat
  BY <1>4, FS_CardinalityType
<1> QED BY <1>2, <1>3, <1>4, <1>5 DEF SumOver

-----------------------------------------------------------------------------
(***************************************************************************)
(* Folds.  FoldLeft is a recursive function on sets of indices that takes  *)
(* the greatest index off; what holds of the elements folded so far is     *)
(* carried along by the least index where it would fail.                   *)
(***************************************************************************)
(* Every set of naturals that is not empty has a least member. *)
LEMMA LeastElement ==
  ASSUME NEW S, S \subseteq Nat, S # {}
  PROVE  \E n \in S : \A m \in S : n <= m
<1> DEFINE R == OpToRel(<, Nat)
<1>1. R = {ss \in Nat \X Nat : ss[1] < ss[2]}
  BY DEF OpToRel
<1>2. IsWellFoundedOn(R, Nat)
  BY NatLessThanWellFounded
<1> HIDE DEF R
<1>3. PICK n \in S : \A m \in S : ~(<<m, n>> \in R)
  BY <1>2, WFMin
<1>4. ASSUME NEW m \in S PROVE n <= m
  <2>1. m \in Nat /\ n \in Nat /\ <<m, n>> \notin {ss \in Nat \X Nat : ss[1] < ss[2]}
    BY <1>1, <1>3
  <2> QED BY <2>1
<1> QED BY <1>4

(* Induction up to n over membership in a set: the library's induction     *)
(* theorems take an operator, which the provers cannot instantiate.        *)
LEMMA Prefixes ==
  ASSUME NEW n \in Nat, NEW S, 0 \in S, \A k \in 1 .. n : k - 1 \in S => k \in S
  PROVE  n \in S
<1> SUFFICES ASSUME n \notin S PROVE FALSE
  OBVIOUS
<1> DEFINE R == {k \in 0 .. n : k \notin S}
<1>1. R \subseteq Nat /\ R # {}
  OBVIOUS
<1>2. PICK k \in R : \A m \in R : k <= m
  <2> HIDE DEF R
  <2> QED BY <1>1, LeastElement
<1>3. k \in 1 .. n /\ k - 1 \notin R /\ k - 1 \in 0 .. n
  BY <1>2
<1> QED BY <1>2, <1>3

\* Max of the community modules.
GreatestOf(S) == CHOOSE x \in S : \A y \in S : x >= y

(* A set of indices that is not empty has a greatest one. *)
LEMMA Greatest ==
  ASSUME NEW n \in Nat, NEW s, s \subseteq 1 .. n, s # {}
  PROVE  GreatestOf(s) \in s /\ \A i \in s : i <= GreatestOf(s)
<1> SUFFICES \E x \in s : \A y \in s : x >= y
  <2>1. GreatestOf(s) \in s /\ \A y \in s : GreatestOf(s) >= y
    BY DEF GreatestOf
  <2>2. s \subseteq Int
    OBVIOUS
  <2> QED BY <2>1, <2>2
<1> DEFINE T == {i \in 0 .. n : n - i \in s}
<1>1. PICK j \in s : TRUE
  OBVIOUS
<1>2. j \in 1 .. n
  OBVIOUS
<1>3. n - j \in 0 .. n /\ n - (n - j) = j
  BY <1>2
<1>4. T \subseteq Nat /\ T # {}
  BY <1>3
<1>5. PICK t \in T : \A u \in T : t <= u
  <2> HIDE DEF T
  <2> QED BY <1>4, LeastElement
<1>6. t \in 0 .. n /\ n - t \in s
  OBVIOUS
<1>7. ASSUME NEW y \in s PROVE n - t >= y
  <2>1. y \in 1 .. n
    OBVIOUS
  <2>2. n - y \in 0 .. n /\ n - (n - y) = y
    BY <2>1
  <2>3. n - y \in T
    BY <2>2
  <2>4. t <= n - y
    BY <1>5, <2>3
  <2> HIDE DEF T
  <2> QED BY <1>6, <2>1, <2>4
<1> QED BY <1>6, <1>7

(* The greatest index of a prefix is its last, and without it the prefix   *)
(* before is left.                                                         *)
LEMMA GreatestOfPrefix ==
  ASSUME NEW n \in Nat, NEW k \in 1 .. n
  PROVE  /\ 1 .. k # {} /\ 1 .. k \in SUBSET (1 .. n)
         /\ GreatestOf(1 .. k) = k /\ (1 .. k) \ {k} = 1 .. k - 1
<1>1. k \in Nat /\ k \in 1 .. k /\ k <= n
  OBVIOUS
<1>2. 1 .. k \subseteq 1 .. n /\ (1 .. k) \ {k} = 1 .. k - 1
  OBVIOUS
<1>3. GreatestOf(1 .. k) \in 1 .. k /\ k <= GreatestOf(1 .. k)
  BY <1>1, Greatest
<1> QED BY <1>1, <1>2, <1>3

\* What FoldLeft's function on sets of indices is.
IsFold(g, n, base, F) ==
  \A s \in SUBSET (1 .. n) :
    g[s] = IF s = {} THEN base ELSE F[<<g[s \ {GreatestOf(s)}], GreatestOf(s)>>]

(* The recursive function a fold is read off exists when its step stays    *)
(* within a set D: each index extends the one on the subsets before it.    *)
LEMMA FoldExists ==
  ASSUME NEW n \in Nat, NEW D, NEW base \in D, NEW F \in [D \X (1 .. n) -> D]
  PROVE  \E g \in [SUBSET (1 .. n) -> D] : IsFold(g, n, base, F)
<1> DEFINE Fits(g, k) == IsFold(g, k, base, F)
           S == {k \in 0 .. n : \E g \in [SUBSET (1 .. k) -> D] : Fits(g, k)}
<1>1. 0 \in S
  <2>1. [s \in SUBSET (1 .. 0) |-> base] \in [SUBSET (1 .. 0) -> D]
    OBVIOUS
  <2>2. \A s \in SUBSET (1 .. 0) : s = {}
    OBVIOUS
  <2>3. Fits([s \in SUBSET (1 .. 0) |-> base], 0)
    BY <2>2 DEF IsFold
  <2>4. \E g \in [SUBSET (1 .. 0) -> D] : Fits(g, 0)
    <3> HIDE DEF Fits
    <3> QED BY <2>1, <2>3
  <2>5. 0 \in 0 .. n
    OBVIOUS
  <2> HIDE DEF Fits
  <2> QED BY <2>4, <2>5
<1>2. ASSUME NEW k \in 1 .. n, k - 1 \in S PROVE k \in S
  <2>1. PICK g \in [SUBSET (1 .. k - 1) -> D] : Fits(g, k - 1)
    BY <1>2
  <2> DEFINE h == [s \in SUBSET (1 .. k) |->
                     IF s \in SUBSET (1 .. k - 1) THEN g[s] ELSE F[<<g[s \ {k}], k>>]]
  <2>2. ASSUME NEW s \in SUBSET (1 .. k), s \notin SUBSET (1 .. k - 1)
        PROVE  k \in s /\ s \ {k} \in SUBSET (1 .. k - 1)
    BY <2>2
  <2>3. ASSUME NEW s \in SUBSET (1 .. k - 1), s # {}
        PROVE  s \ {GreatestOf(s)} \in SUBSET (1 .. k - 1)
    OBVIOUS
  <2>4. h \in [SUBSET (1 .. k) -> D]
    <3> SUFFICES ASSUME NEW s \in SUBSET (1 .. k), s \notin SUBSET (1 .. k - 1)
                 PROVE  F[<<g[s \ {k}], k>>] \in D
      OBVIOUS
    <3>1. g[s \ {k}] \in D
      BY <2>2
    <3> QED BY <3>1, <1>2
  <2>5. Fits(h, k)
    <3> SUFFICES ASSUME NEW s \in SUBSET (1 .. k)
                 PROVE  h[s] = IF s = {} THEN base ELSE F[<<h[s \ {GreatestOf(s)}], GreatestOf(s)>>]
      BY DEF IsFold
    <3>1. CASE s \in SUBSET (1 .. k - 1)
      <4>1. h[s] = g[s]
        BY <3>1
      <4>2. s # {} => h[s \ {GreatestOf(s)}] = g[s \ {GreatestOf(s)}]
        BY <2>3, <3>1
      <4>3. g[s] = IF s = {} THEN base ELSE F[<<g[s \ {GreatestOf(s)}], GreatestOf(s)>>]
        BY <2>1, <3>1 DEF IsFold
      <4> HIDE DEF h
      <4> QED BY <4>1, <4>2, <4>3
    <3>2. CASE s \notin SUBSET (1 .. k - 1)
      <4>1. k \in s /\ s \ {k} \in SUBSET (1 .. k - 1) /\ s # {}
        BY <2>2, <3>2
      <4>2. GreatestOf(s) = k
        <5>1. k \in Nat
          OBVIOUS
        <5>2. GreatestOf(s) \in s /\ k <= GreatestOf(s)
          BY <5>1, <4>1, Greatest
        <5>3. GreatestOf(s) \in 1 .. k
          BY <5>2
        <5> QED BY <5>2, <5>3
      <4>3. h[s] = F[<<g[s \ {k}], k>>] /\ h[s \ {k}] = g[s \ {k}]
        BY <4>1, <3>2
      <4> HIDE DEF h
      <4> QED BY <4>1, <4>2, <4>3
    <3> QED BY <3>1, <3>2
  <2>6. \E f \in [SUBSET (1 .. k) -> D] : Fits(f, k)
    <3> HIDE DEF Fits, h
    <3> QED BY <2>4, <2>5
  <2> HIDE DEF Fits
  <2> QED BY <2>6, <1>2
<1> HIDE DEF S
<1>3. n \in S
  BY <1>1, <1>2, Prefixes
<1> QED BY <1>3 DEF S

(* What a fold preserves at each index it preserves on the whole. *)
LEMMA FoldPrefixes ==
  ASSUME NEW n \in Nat, NEW D, NEW it, it[{}] \in D,
         \A k \in 1 .. n : it[1 .. k - 1] \in D => it[1 .. k] \in D
  PROVE  it[1 .. n] \in D
<1> DEFINE S == {k \in 0 .. n : it[1 .. k] \in D}
<1>1. 0 \in S
  <2>1. 1 .. 0 = {} /\ 0 \in 0 .. n
    OBVIOUS
  <2> QED BY <2>1
<1>2. ASSUME NEW k \in 1 .. n, k - 1 \in S PROVE k \in S
  <2>1. k \in 0 .. n
    OBVIOUS
  <2> QED BY <1>2, <2>1
<1>3. n \in S
  <2> HIDE DEF S
  <2> QED BY <1>1, <1>2, Prefixes
<1> QED BY <1>3

=============================================================================
