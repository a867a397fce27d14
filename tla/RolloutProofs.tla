---------------------------- MODULE RolloutProofs ----------------------------
(***************************************************************************)
(* Theorems about the rollout scripts (Rollout).  A behaviour is one       *)
(* script's, so each script has its own invariant: DeployInv of the first, *)
(* MintInv of the second and FinalInv of the last, shown in the behaviours *)
(* of the others because their variables rest there.                       *)
(***************************************************************************)
EXTENDS Rollout, Sequences, CommonTheorems

(***************************************************************************)
(* OriginsMint.                                                            *)
(***************************************************************************)
(* What a batch works on. *)
MintMarket(r, c, d, minter, approved) ==
  [rate |-> r, collateral |-> c, debt |-> d, minter |-> minter, approved |-> approved]
MintWallet(e, t, yt, u, yu) ==
  [eth |-> e, teth |-> t, ybTeth |-> yt, usdo |-> u, ybUsdo |-> yu]
MintRun(ok, m, w) == [ok |-> ok, market |-> m, wallet |-> w]
MintFailed(s) == \E m, w : s = MintRun(FALSE, m, w)
MintSolvent(c, d, at) == c * PRECISION * CR >= d * at * PERCENT

(* One part of it changed. *)
LEMMA MintParts ==
  ASSUME NEW ok, NEW m, NEW w, NEW x
  PROVE  /\ [MintRun(ok, m, w) EXCEPT !.ok = x] = MintRun(x, m, w)
         /\ [MintRun(ok, m, w) EXCEPT !.market = x] = MintRun(ok, x, w)
         /\ [MintRun(ok, m, w) EXCEPT !.wallet = x] = MintRun(ok, m, x)
         /\ MintRun(ok, m, w).ok = ok /\ MintRun(ok, m, w).market = m
         /\ MintRun(ok, m, w).wallet = w
<1>1. [MintRun(ok, m, w) EXCEPT !.ok = x] = MintRun(x, m, w)
  BY DEF MintRun
<1>2. [MintRun(ok, m, w) EXCEPT !.market = x] = MintRun(ok, x, w)
  BY DEF MintRun
<1>3. [MintRun(ok, m, w) EXCEPT !.wallet = x] = MintRun(ok, m, x)
  BY DEF MintRun
<1>4. MintRun(ok, m, w).ok = ok
  BY DEF MintRun
<1>5. MintRun(ok, m, w).market = m /\ MintRun(ok, m, w).wallet = w
  BY DEF MintRun
<1> QED BY <1>1, <1>2, <1>3, <1>4, <1>5

LEMMA MintMarketParts ==
  ASSUME NEW r, NEW c, NEW d, NEW mi, NEW a, NEW x
  PROVE  /\ [MintMarket(r, c, d, mi, a) EXCEPT !.rate = x] = MintMarket(x, c, d, mi, a)
         /\ [MintMarket(r, c, d, mi, a) EXCEPT !.collateral = x] = MintMarket(r, x, d, mi, a)
         /\ [MintMarket(r, c, d, mi, a) EXCEPT !.debt = x] = MintMarket(r, c, x, mi, a)
         /\ [MintMarket(r, c, d, mi, a) EXCEPT !.minter = x] = MintMarket(r, c, d, x, a)
         /\ [MintMarket(r, c, d, mi, a) EXCEPT !.approved = x] = MintMarket(r, c, d, mi, x)
<1>1. [MintMarket(r, c, d, mi, a) EXCEPT !.rate = x] = MintMarket(x, c, d, mi, a)
  BY DEF MintMarket
<1>2. [MintMarket(r, c, d, mi, a) EXCEPT !.collateral = x] = MintMarket(r, x, d, mi, a)
  BY DEF MintMarket
<1>3. [MintMarket(r, c, d, mi, a) EXCEPT !.debt = x] = MintMarket(r, c, x, mi, a)
  BY DEF MintMarket
<1>4. [MintMarket(r, c, d, mi, a) EXCEPT !.minter = x] = MintMarket(r, c, d, x, a)
  BY DEF MintMarket
<1>5. [MintMarket(r, c, d, mi, a) EXCEPT !.approved = x] = MintMarket(r, c, d, mi, x)
  BY DEF MintMarket
<1> QED BY <1>1, <1>2, <1>3, <1>4, <1>5

LEMMA MintMarketFields ==
  ASSUME NEW r, NEW c, NEW d, NEW mi, NEW a
  PROVE  /\ MintMarket(r, c, d, mi, a).rate = r /\ MintMarket(r, c, d, mi, a).collateral = c
         /\ MintMarket(r, c, d, mi, a).debt = d /\ MintMarket(r, c, d, mi, a).minter = mi
         /\ MintMarket(r, c, d, mi, a).approved = a
<1>1. MintMarket(r, c, d, mi, a).rate = r /\ MintMarket(r, c, d, mi, a).collateral = c
      /\ MintMarket(r, c, d, mi, a).debt = d
  BY DEF MintMarket
<1>2. MintMarket(r, c, d, mi, a).minter = mi
  BY DEF MintMarket
<1>3. MintMarket(r, c, d, mi, a).approved = a
  BY DEF MintMarket
<1> QED BY <1>1, <1>2, <1>3

LEMMA MintWalletParts ==
  ASSUME NEW e, NEW t, NEW yt, NEW u, NEW yu, NEW x
  PROVE  /\ [MintWallet(e, t, yt, u, yu) EXCEPT !.eth = x] = MintWallet(x, t, yt, u, yu)
         /\ [MintWallet(e, t, yt, u, yu) EXCEPT !.teth = x] = MintWallet(e, x, yt, u, yu)
         /\ [MintWallet(e, t, yt, u, yu) EXCEPT !.ybTeth = x] = MintWallet(e, t, x, u, yu)
         /\ [MintWallet(e, t, yt, u, yu) EXCEPT !.usdo = x] = MintWallet(e, t, yt, x, yu)
         /\ [MintWallet(e, t, yt, u, yu) EXCEPT !.ybUsdo = x] = MintWallet(e, t, yt, u, x)
         /\ MintWallet(e, t, yt, u, yu).eth = e /\ MintWallet(e, t, yt, u, yu).teth = t
         /\ MintWallet(e, t, yt, u, yu).ybTeth = yt /\ MintWallet(e, t, yt, u, yu).usdo = u
         /\ MintWallet(e, t, yt, u, yu).ybUsdo = yu
  BY DEF MintWallet

LEMMA MintMoves ==
  ASSUME NEW ok, NEW m, NEW e, NEW t, NEW yt, NEW u, NEW yu, NEW n
  PROVE  /\ Mint!Moves(MintRun(ok, m, MintWallet(e, t, yt, u, yu)), n, "eth", "teth")
              = MintRun(ok, m, MintWallet(e - n, t + n, yt, u, yu))
         /\ Mint!Moves(MintRun(ok, m, MintWallet(e, t, yt, u, yu)), n, "teth", "ybTeth")
              = MintRun(ok, m, MintWallet(e, t - n, yt + n, u, yu))
         /\ Mint!Moves(MintRun(ok, m, MintWallet(e, t, yt, u, yu)), n, "ybUsdo", "usdo")
              = MintRun(ok, m, MintWallet(e, t, yt, u + n, yu - n))
<1> DEFINE w == MintWallet(e, t, yt, u, yu)
           s == MintRun(ok, m, w)
<1>1. s.wallet = w
  BY MintParts
<1>2. w["eth"] = e /\ w["teth"] = t /\ w["ybTeth"] = yt /\ w["usdo"] = u /\ w["ybUsdo"] = yu
  BY MintWalletParts
<1>3. ASSUME NEW x
      PROVE  [s EXCEPT !.wallet = x] = MintRun(ok, m, x)
  BY MintParts
<1>4. ASSUME NEW from, NEW to
      PROVE  Mint!Moves(s, n, from, to)
               = MintRun(ok, m, [w EXCEPT ![from] = w[from] - n, ![to] = w[to] + n])
  <2> HIDE DEF w, s
  <2>1. Mint!Moves(s, n, from, to)
          = [s EXCEPT !.wallet = [w EXCEPT ![from] = w[from] - n, ![to] = w[to] + n]]
    BY <1>1 DEF Mint!Moves
  <2> QED BY <2>1, <1>3
<1>5. ASSUME NEW x, NEW y
      PROVE  /\ [w EXCEPT !["eth"] = x, !["teth"] = y] = MintWallet(x, y, yt, u, yu)
             /\ [w EXCEPT !["teth"] = x, !["ybTeth"] = y] = MintWallet(e, x, y, u, yu)
             /\ [w EXCEPT !["ybUsdo"] = x, !["usdo"] = y] = MintWallet(e, t, yt, y, x)
  <2>1. ASSUME NEW f, NEW from, NEW to
        PROVE  [f EXCEPT ![from] = x, ![to] = y] = [[f EXCEPT ![from] = x] EXCEPT ![to] = y]
    OBVIOUS
  <2>2. /\ [w EXCEPT !["eth"] = x] = MintWallet(x, t, yt, u, yu)
        /\ [w EXCEPT !["teth"] = x] = MintWallet(e, x, yt, u, yu)
        /\ [w EXCEPT !["ybUsdo"] = x] = MintWallet(e, t, yt, u, x)
    BY MintWalletParts
  <2>3. /\ [MintWallet(x, t, yt, u, yu) EXCEPT !["teth"] = y] = MintWallet(x, y, yt, u, yu)
        /\ [MintWallet(e, x, yt, u, yu) EXCEPT !["ybTeth"] = y] = MintWallet(e, x, y, u, yu)
        /\ [MintWallet(e, t, yt, u, x) EXCEPT !["usdo"] = y] = MintWallet(e, t, yt, y, x)
    BY MintWalletParts
  <2> HIDE DEF w
  <2> QED BY <2>1, <2>2, <2>3, Zenon
<1>6. /\ [w EXCEPT !["eth"] = w["eth"] - n, !["teth"] = w["teth"] + n]
           = MintWallet(e - n, t + n, yt, u, yu)
      /\ [w EXCEPT !["teth"] = w["teth"] - n, !["ybTeth"] = w["ybTeth"] + n]
           = MintWallet(e, t - n, yt + n, u, yu)
      /\ [w EXCEPT !["ybUsdo"] = w["ybUsdo"] - n, !["usdo"] = w["usdo"] + n]
           = MintWallet(e, t, yt, u + n, yu - n)
  <2> HIDE DEF w
  <2> QED BY <1>2, <1>5
<1>7. Mint!Moves(s, n, "eth", "teth") = MintRun(ok, m, MintWallet(e - n, t + n, yt, u, yu))
  <2> HIDE DEF w, s
  <2>1. Mint!Moves(s, n, "eth", "teth")
          = MintRun(ok, m, [w EXCEPT !["eth"] = w["eth"] - n, !["teth"] = w["teth"] + n])
    BY <1>4
  <2> QED BY <2>1, <1>6, Zenon
<1>8. Mint!Moves(s, n, "teth", "ybTeth") = MintRun(ok, m, MintWallet(e, t - n, yt + n, u, yu))
  <2> HIDE DEF w, s
  <2>1. Mint!Moves(s, n, "teth", "ybTeth")
          = MintRun(ok, m, [w EXCEPT !["teth"] = w["teth"] - n, !["ybTeth"] = w["ybTeth"] + n])
    BY <1>4
  <2> QED BY <2>1, <1>6, Zenon
<1>9. Mint!Moves(s, n, "ybUsdo", "usdo") = MintRun(ok, m, MintWallet(e, t, yt, u + n, yu - n))
  <2> HIDE DEF w, s
  <2>1. Mint!Moves(s, n, "ybUsdo", "usdo")
          = MintRun(ok, m, [w EXCEPT !["ybUsdo"] = w["ybUsdo"] - n, !["usdo"] = w["usdo"] + n])
    BY <1>4
  <2> QED BY <2>1, <1>6, Zenon
<1> QED BY <1>7, <1>8, <1>9, Zenon DEF s, w

(* A batch that has failed stays failed. *)
LEMMA MintReverted ==
  ASSUME NEW ok, NEW m, NEW w
  PROVE  MintFailed(Mint!Reverted(MintRun(ok, m, w)))
<1>1. ASSUME NEW x
      PROVE  [MintRun(ok, m, w) EXCEPT !.ok = x] = MintRun(x, m, w)
  BY MintParts
<1>2. Mint!Reverted(MintRun(ok, m, w)) = MintRun(FALSE, m, w)
  BY <1>1, Zenon DEF Mint!Reverted
<1> QED BY <1>2, Zenon DEF MintFailed

LEMMA MintFails ==
  ASSUME NEW s, MintFailed(s), NEW b
  PROVE  ~s.ok /\ MintFailed(Mint!Reverted(s)) /\ MintFailed(Mint!setApproval(s, b))
<1>1. PICK n, x : s = MintRun(FALSE, n, x)
  BY Zenon DEF MintFailed
<1>2. ASSUME NEW ok
      PROVE  MintRun(ok, n, x).ok = ok
  BY MintParts
<1>3. ~s.ok
  BY <1>1, <1>2, Zenon
<1>4. MintFailed(Mint!Reverted(s))
  BY <1>1, MintReverted, Zenon
<1>5. ASSUME NEW ok, NEW y
      PROVE  Mint!setApproval(MintRun(ok, n, x), y)
               = MintRun(ok, [n EXCEPT !.approved = y], x)
  BY DEF Mint!setApproval, MintRun
<1>6. MintFailed(Mint!setApproval(s, b))
  BY <1>1, <1>5, Zenon DEF MintFailed
<1> QED BY <1>3, <1>4, <1>6

LEMMA MintStaysFailed ==
  ASSUME NEW s, MintFailed(s), NEW eth, NEW amount, NEW rate, NEW late
  PROVE  /\ MintFailed(Mint!mintOriginUSDO(s, eth, amount, rate))
         /\ MintFailed(Mint!wrapToft(s, eth, late))
<1>2. ASSUME NEW z, MintFailed(z)
      PROVE  MintFailed(Mint!depositAsset(z, eth)) /\ MintFailed(Mint!addCollateral(z, eth))
             /\ MintFailed(Mint!borrow(z, amount, rate)) /\ MintFailed(Mint!withdraw(z, amount))
             /\ MintFailed(Mint!wrapToft(z, eth, late))
  <2>1. ~z.ok /\ MintFailed(Mint!Reverted(z))
    BY <1>2, MintFails
  <2> HIDE DEF MintFailed
  <2> QED BY <2>1, Zenon DEF Mint!depositAsset, Mint!addCollateral, Mint!borrow, Mint!withdraw,
                      Mint!wrapToft
<1> HIDE DEF MintFailed
<1>3. ASSUME NEW z, MintFailed(z), NEW b
      PROVE  MintFailed(Mint!setApproval(z, b))
  BY <1>3, MintFails
<1> QED BY <1>2, <1>3, Zenon DEF Mint!mintOriginUSDO
(* The calls of a batch, one by one. *)
LEMMA MintCalls ==
  ASSUME NEW ok, NEW r, NEW c, NEW d, NEW mi, NEW ap,
         NEW e, NEW t, NEW yt, NEW u, NEW yu, NEW n
  PROVE  /\ Mint!setApproval(MintRun(ok, MintMarket(r, c, d, mi, ap), MintWallet(e, t, yt, u, yu)), n)
              = MintRun(ok, MintMarket(r, c, d, mi, n), MintWallet(e, t, yt, u, yu))
         /\ ok /\ t < n =>
              MintFailed(Mint!depositAsset(MintRun(ok, MintMarket(r, c, d, mi, ap),
                                                   MintWallet(e, t, yt, u, yu)), n))
         /\ ok /\ ~(t < n) =>
              Mint!depositAsset(MintRun(ok, MintMarket(r, c, d, mi, ap),
                                        MintWallet(e, t, yt, u, yu)), n)
                = MintRun(ok, MintMarket(r, c, d, mi, ap), MintWallet(e, t - n, yt + n, u, yu))
<1> DEFINE m == MintMarket(r, c, d, mi, ap)
           w == MintWallet(e, t, yt, u, yu)
           s == MintRun(ok, m, w)
<1>1. s.ok = ok /\ s.market = m /\ s.wallet = w
  BY MintParts
<1>2. w.eth = e /\ w.teth = t /\ w.ybTeth = yt /\ w.usdo = u /\ w.ybUsdo = yu
  BY MintWalletParts
<1>4. MintFailed(Mint!Reverted(s))
  BY MintReverted
<1>5. Mint!Moves(s, n, "teth", "ybTeth") = MintRun(ok, m, MintWallet(e, t - n, yt + n, u, yu))
  BY MintMoves
<1>6. Mint!setApproval(s, n) = MintRun(ok, MintMarket(r, c, d, mi, n), w)
  <2>1. [m EXCEPT !.approved = n] = MintMarket(r, c, d, mi, n)
    BY DEF MintMarket
  <2>2. Mint!setApproval(MintRun(ok, m, w), n) = MintRun(ok, [m EXCEPT !.approved = n], w)
    <3> HIDE DEF m, w
    <3> QED BY DEF Mint!setApproval, MintRun
  <2> QED BY <2>1, <2>2, Zenon
<1>7. /\ ok /\ t < n => MintFailed(Mint!depositAsset(s, n))
      /\ ok /\ ~(t < n) => Mint!depositAsset(s, n) = MintRun(ok, m, MintWallet(e, t - n, yt + n, u, yu))
  <2> HIDE DEF m, w, s, MintFailed
  <2> QED BY <1>1, <1>2, <1>4, <1>5, Zenon DEF Mint!depositAsset
<1>8. /\ Mint!setApproval(s, n) = MintRun(ok, MintMarket(r, c, d, mi, n), w)
      /\ ok /\ t < n => MintFailed(Mint!depositAsset(s, n))
      /\ ok /\ ~(t < n) => Mint!depositAsset(s, n) = MintRun(ok, m, MintWallet(e, t - n, yt + n, u, yu))
  <2> HIDE DEF m, w, s
  <2> QED BY <1>6, <1>7, Zenon
<1> QED BY <1>8, Zenon DEF s, m, w

(* A batch under way: its market may not (MintShut) or may (MintOpen) move the *)
(* multicall's shares.                                                         *)
MintShut(s, r, c, d, e, t, yt, u, yu) ==
  s = MintRun(TRUE, MintMarket(r, c, d, TRUE, FALSE), MintWallet(e, t, yt, u, yu))
MintOpen(s, r, c, d, e, t, yt, u, yu) ==
  s = MintRun(TRUE, MintMarket(r, c, d, TRUE, TRUE), MintWallet(e, t, yt, u, yu))

LEMMA MintApproves ==
  ASSUME NEW s, NEW r, NEW c, NEW d, NEW e, NEW t, NEW yt, NEW u, NEW yu
  PROVE  /\ MintShut(s, r, c, d, e, t, yt, u, yu) =>
              MintOpen(Mint!setApproval(s, TRUE), r, c, d, e, t, yt, u, yu)
         /\ MintOpen(s, r, c, d, e, t, yt, u, yu) =>
              MintShut(Mint!setApproval(s, FALSE), r, c, d, e, t, yt, u, yu)
<1>1. ASSUME NEW ok, NEW mi, NEW ap, NEW n
      PROVE  Mint!setApproval(MintRun(ok, MintMarket(r, c, d, mi, ap),
                                      MintWallet(e, t, yt, u, yu)), n)
               = MintRun(ok, MintMarket(r, c, d, mi, n), MintWallet(e, t, yt, u, yu))
  BY MintCalls
<1>2. Mint!setApproval(MintRun(TRUE, MintMarket(r, c, d, TRUE, FALSE),
                               MintWallet(e, t, yt, u, yu)), TRUE)
        = MintRun(TRUE, MintMarket(r, c, d, TRUE, TRUE), MintWallet(e, t, yt, u, yu))
  BY <1>1, Zenon
<1>3. Mint!setApproval(MintRun(TRUE, MintMarket(r, c, d, TRUE, TRUE),
                               MintWallet(e, t, yt, u, yu)), FALSE)
        = MintRun(TRUE, MintMarket(r, c, d, TRUE, FALSE), MintWallet(e, t, yt, u, yu))
  BY <1>1, Zenon
<1> QED BY <1>2, <1>3, Zenon DEF MintShut, MintOpen

LEMMA MintDeposits ==
  ASSUME NEW s, NEW r, NEW c, NEW d, NEW e, NEW t, NEW yt, NEW u, NEW yu,
         MintShut(s, r, c, d, e, t, yt, u, yu), NEW n
  PROVE  /\ t < n => MintFailed(Mint!depositAsset(s, n))
         /\ ~(t < n) => MintShut(Mint!depositAsset(s, n), r, c, d, e, t - n, yt + n, u, yu)
<1> HIDE DEF MintFailed
<1>1. ASSUME NEW ok, NEW mi, NEW ap
      PROVE  /\ ok /\ t < n =>
                   MintFailed(Mint!depositAsset(MintRun(ok, MintMarket(r, c, d, mi, ap),
                                                        MintWallet(e, t, yt, u, yu)), n))
             /\ ok /\ ~(t < n) =>
                   Mint!depositAsset(MintRun(ok, MintMarket(r, c, d, mi, ap),
                                             MintWallet(e, t, yt, u, yu)), n)
                     = MintRun(ok, MintMarket(r, c, d, mi, ap),
                               MintWallet(e, t - n, yt + n, u, yu))
  BY MintCalls
<1> QED BY <1>1, Zenon DEF MintShut

LEMMA MintAdds ==
  ASSUME NEW s, NEW r, NEW c, NEW d, NEW e, NEW t, NEW yt, NEW u, NEW yu,
         NEW n
  PROVE  MintOpen(s, r, c, d, e, t, yt, u, yu) /\ ~(yt < n) =>
           MintOpen(Mint!addCollateral(s, n), r, c + n, d, e, t, yt - n, u, yu)
<1>1. ASSUME NEW ok, NEW mi, NEW ap
      PROVE  ok /\ ap /\ ~(yt < n) =>
               Mint!addCollateral(MintRun(ok, MintMarket(r, c, d, mi, ap),
                                          MintWallet(e, t, yt, u, yu)), n)
                 = MintRun(ok, MintMarket(r, c + n, d, mi, ap), MintWallet(e, t, yt - n, u, yu))
  <2> DEFINE m == MintMarket(r, c, d, mi, ap)
             w == MintWallet(e, t, yt, u, yu)
             z == MintRun(ok, m, w)
  <2>1. z.ok = ok /\ z.market = m /\ z.wallet = w
    BY MintParts
  <2>2. w.eth = e /\ w.teth = t /\ w.ybTeth = yt /\ w.usdo = u /\ w.ybUsdo = yu
    BY MintWalletParts
  <2>3. m.approved = ap /\ m.collateral = c
    BY MintMarketFields
  <2>4. [z EXCEPT !.wallet.ybTeth = z.wallet.ybTeth - n,
                  !.market.collateral = z.market.collateral + n]
           = MintRun(ok, MintMarket(r, c + n, d, mi, ap), MintWallet(e, t, yt - n, u, yu))
    <3>1. [w EXCEPT !.ybTeth = yt - n] = MintWallet(e, t, yt - n, u, yu)
      BY MintWalletParts
    <3>2. [m EXCEPT !.collateral = c + n] = MintMarket(r, c + n, d, mi, ap)
      BY DEF MintMarket
    <3>3. ASSUME NEW x, NEW y
          PROVE  [z EXCEPT !.wallet.ybTeth = x, !.market.collateral = y]
                   = MintRun(ok, [m EXCEPT !.collateral = y], [w EXCEPT !.ybTeth = x])
      <4>1. ASSUME NEW m1, NEW w1
            PROVE  [MintRun(ok, m1, w1) EXCEPT !.wallet.ybTeth = x]
                     = MintRun(ok, m1, [w1 EXCEPT !.ybTeth = x])
        BY DEF MintRun
      <4>2. ASSUME NEW m1, NEW w1
            PROVE  [MintRun(ok, m1, w1) EXCEPT !.market.collateral = y]
                     = MintRun(ok, [m1 EXCEPT !.collateral = y], w1)
        BY DEF MintRun
      <4>3. [z EXCEPT !.wallet.ybTeth = x, !.market.collateral = y]
              = [[z EXCEPT !.wallet.ybTeth = x] EXCEPT !.market.collateral = y]
        <5> HIDE DEF z
        <5> QED OBVIOUS
      <4>4. [z EXCEPT !.wallet.ybTeth = x] = MintRun(ok, m, [w EXCEPT !.ybTeth = x])
        BY <4>1
      <4>5. [MintRun(ok, m, [w EXCEPT !.ybTeth = x]) EXCEPT !.market.collateral = y]
              = MintRun(ok, [m EXCEPT !.collateral = y], [w EXCEPT !.ybTeth = x])
        BY <4>2
      <4> HIDE DEF m, w, z
      <4> QED BY <4>3, <4>4, <4>5
    <3>4. z.wallet.ybTeth = yt /\ z.market.collateral = c
      BY <2>1, <2>2, <2>3
    <3> HIDE DEF m, w, z
    <3>5. [z EXCEPT !.wallet.ybTeth = z.wallet.ybTeth - n,
                    !.market.collateral = z.market.collateral + n]
             = MintRun(ok, [m EXCEPT !.collateral = c + n], [w EXCEPT !.ybTeth = yt - n])
      BY <3>3, <3>4, Zenon
    <3> QED BY <3>1, <3>2, <3>5, Zenon
  <2>5. (ok /\ ap /\ ~(yt < n) => Mint!addCollateral(z, n)
              = MintRun(ok, MintMarket(r, c + n, d, mi, ap), MintWallet(e, t, yt - n, u, yu)))
    <3> HIDE DEF m, w, z
    <3> QED BY <2>1, <2>2, <2>3, <2>4, Zenon DEF Mint!addCollateral
  <2> QED BY <2>5, Zenon DEF z, m, w
<1> QED BY <1>1, Zenon DEF MintOpen

LEMMA MintWithdraws ==
  ASSUME NEW s, NEW r, NEW c, NEW d, NEW e, NEW t, NEW yt, NEW u, NEW yu, NEW n
  PROVE  MintOpen(s, r, c, d, e, t, yt, u, yu) /\ ~(yu < n) =>
           MintOpen(Mint!withdraw(s, n), r, c, d, e, t, yt, u + n, yu - n)
<1>1. ASSUME NEW ok, NEW m
      PROVE  ok /\ ~(yu < n) =>
               Mint!withdraw(MintRun(ok, m, MintWallet(e, t, yt, u, yu)), n)
                 = MintRun(ok, m, MintWallet(e, t, yt, u + n, yu - n))
  <2> DEFINE w == MintWallet(e, t, yt, u, yu)
             z == MintRun(ok, m, w)
  <2>1. z.ok = ok /\ z.wallet = w
    BY MintParts
  <2>2. w.ybUsdo = yu
    BY MintWalletParts
  <2>3. Mint!Moves(z, n, "ybUsdo", "usdo") = MintRun(ok, m, MintWallet(e, t, yt, u + n, yu - n))
    BY MintMoves
  <2>4. ok /\ ~(yu < n) =>
          Mint!withdraw(z, n) = MintRun(ok, m, MintWallet(e, t, yt, u + n, yu - n))
    <3> HIDE DEF z, w
    <3> QED BY <2>1, <2>2, <2>3, Zenon DEF Mint!withdraw
  <2> QED BY <2>4, Zenon DEF z, w
<1> QED BY <1>1, Zenon DEF MintOpen
(* What the market asks before it looks at the collateral. *)
MintLends(n, rate) == ~(rate = 0) /\ ~(n <= MinBorrow)

LEMMA MintBorrows ==
  ASSUME NEW ok, NEW r, NEW c, NEW d, NEW mi, NEW ap,
         NEW e, NEW t, NEW yt, NEW u, NEW yu, NEW n, NEW rate
  PROVE  /\ (ok /\ mi /\ MintLends(n, rate) /\ MintSolvent(c, d + n, rate) =>
              Mint!borrow(MintRun(ok, MintMarket(r, c, d, mi, ap),
                                  MintWallet(e, t, yt, u, yu)), n, rate)
                = MintRun(ok, MintMarket(rate, c, d + n, mi, ap),
                          MintWallet(e, t, yt, u, yu + n)))
         /\ (~(MintLends(n, rate) /\ MintSolvent(c, d + n, rate)) =>
              MintFailed(Mint!borrow(MintRun(ok, MintMarket(r, c, d, mi, ap),
                                             MintWallet(e, t, yt, u, yu)), n, rate)))
<1> DEFINE m == MintMarket(r, c, d, mi, ap)
           w == MintWallet(e, t, yt, u, yu)
           s == MintRun(ok, m, w)
           z == MintMarket(rate, c, d + n, mi, ap)
<1>1. s.ok = ok /\ s.market = m /\ s.wallet = w
  BY MintParts
<1>2. w.ybUsdo = yu
  BY MintWalletParts
<1>3. m.minter = mi /\ m.debt = d /\ m.rate = r
  BY MintMarketFields
<1>4. MintFailed(Mint!Reverted(s))
  BY MintReverted
<1>5. [m EXCEPT !.debt = m.debt + n, !.rate = rate] = z
  <2>1. [m EXCEPT !.debt = d + n] = MintMarket(r, c, d + n, mi, ap)
    BY DEF MintMarket
  <2>2. [MintMarket(r, c, d + n, mi, ap) EXCEPT !.rate = rate] = z
    <3> QED BY DEF MintMarket
  <2>3. ASSUME NEW x
        PROVE  [m EXCEPT !.debt = x, !.rate = rate] = [[m EXCEPT !.debt = x] EXCEPT !.rate = rate]
    <3> HIDE DEF m
    <3> QED OBVIOUS
  <2> HIDE DEF m, z
  <2> QED BY <1>3, <2>1, <2>2, <2>3
<1>6. Mint!solvent(z, rate) = MintSolvent(c, d + n, rate)
  <2>1. z.collateral = c /\ z.debt = d + n
    BY MintMarketFields
  <2> HIDE DEF z
  <2> QED BY <2>1 DEF Mint!solvent, MintSolvent
<1>7. [s EXCEPT !.market = z, !.wallet.ybUsdo = s.wallet.ybUsdo + n]
         = MintRun(ok, z, MintWallet(e, t, yt, u, yu + n))
  <2>1. [w EXCEPT !.ybUsdo = yu + n] = MintWallet(e, t, yt, u, yu + n)
    BY MintWalletParts
  <2>2. ASSUME NEW x
        PROVE  [s EXCEPT !.market = z, !.wallet.ybUsdo = x]
                 = [[s EXCEPT !.market = z] EXCEPT !.wallet.ybUsdo = x]
    <3> HIDE DEF s, z
    <3> QED OBVIOUS
  <2>3. ASSUME NEW x
        PROVE  /\ [s EXCEPT !.market = x] = MintRun(ok, x, w)
               /\ \A y : [MintRun(ok, x, w) EXCEPT !.wallet.ybUsdo = y]
                           = MintRun(ok, x, [w EXCEPT !.ybUsdo = y])
    <3> HIDE DEF m, w
    <3> QED BY DEF MintRun
  <2>4. s.wallet.ybUsdo = yu
    BY <1>1, <1>2
  <2>5. [s EXCEPT !.market = z] = MintRun(ok, z, w)
    <3> HIDE DEF s, z, w
    <3> QED BY <2>3
  <2>6. [MintRun(ok, z, w) EXCEPT !.wallet.ybUsdo = yu + n]
           = MintRun(ok, z, [w EXCEPT !.ybUsdo = yu + n])
    <3> HIDE DEF s, z, w
    <3> QED BY <2>3
  <2> HIDE DEF s, z, w
  <2> QED BY <2>1, <2>2, <2>4, <2>5, <2>6
<1>8. Mint!borrow(s, n, rate) =
        IF ~ok \/ ~mi \/ rate = 0 \/ n <= MinBorrow \/ ~MintSolvent(c, d + n, rate)
        THEN Mint!Reverted(s) ELSE MintRun(ok, z, MintWallet(e, t, yt, u, yu + n))
  <2>1. Mint!borrow(s, n, rate) =
          IF ~s.ok \/ ~s.market.minter \/ rate = 0 \/ n <= MinBorrow
               \/ ~Mint!solvent([s.market EXCEPT !.debt = s.market.debt + n, !.rate = rate], rate)
          THEN Mint!Reverted(s)
          ELSE [s EXCEPT !.market = [s.market EXCEPT !.debt = s.market.debt + n, !.rate = rate],
                         !.wallet.ybUsdo = s.wallet.ybUsdo + n]
    <3> HIDE DEF s
    <3> QED BY DEF Mint!borrow
  <2>2. [s.market EXCEPT !.debt = s.market.debt + n, !.rate = rate] = z
    <3> HIDE DEF s, m, z
    <3> QED BY <1>1, <1>5, Zenon
  <2>3. s.ok = ok /\ s.market.minter = mi
    BY <1>1, <1>3
  <2> HIDE DEF s, z, m, w
  <2> QED BY <2>1, <2>2, <2>3, <1>6, <1>7, Zenon
<1>9. /\ (ok /\ mi /\ MintLends(n, rate) /\ MintSolvent(c, d + n, rate) =>
              Mint!borrow(s, n, rate) = MintRun(ok, z, MintWallet(e, t, yt, u, yu + n)))
      /\ (~(MintLends(n, rate) /\ MintSolvent(c, d + n, rate)) => MintFailed(Mint!borrow(s, n, rate)))
  <2> HIDE DEF s, z, m, w
  <2> QED BY <1>8, <1>4, Zenon DEF MintLends
<1> QED BY <1>9, Zenon DEF s, z, m, w

LEMMA MintWraps ==
  ASSUME NEW ok, NEW m, NEW e, NEW t, NEW yt, NEW u, NEW yu, NEW n, NEW late
  PROVE  /\ (ok /\ ~late /\ ~(e < n) =>
              Mint!wrapToft(MintRun(ok, m, MintWallet(e, t, yt, u, yu)), n, late)
                = MintRun(ok, m, MintWallet(e - n, t + n, yt, u, yu)))
         /\ (late \/ e < n =>
              MintFailed(Mint!wrapToft(MintRun(ok, m, MintWallet(e, t, yt, u, yu)), n, late)))
<1> DEFINE w == MintWallet(e, t, yt, u, yu)
           s == MintRun(ok, m, w)
<1>1. s.ok = ok /\ s.market = m /\ s.wallet = w
  BY MintParts
<1>2. w.eth = e
  BY MintWalletParts
<1>3. MintFailed(Mint!Reverted(s))
  BY MintReverted
<1>4. Mint!Moves(s, n, "eth", "teth") = MintRun(ok, m, MintWallet(e - n, t + n, yt, u, yu))
  BY MintMoves
<1>5. /\ (ok /\ ~late /\ ~(e < n) => Mint!wrapToft(s, n, late)
                                       = MintRun(ok, m, MintWallet(e - n, t + n, yt, u, yu)))
      /\ (late \/ e < n => MintFailed(Mint!wrapToft(s, n, late)))
  <2> HIDE DEF s, w, MintFailed
  <2> QED BY <1>1, <1>2, <1>3, <1>4, Zenon DEF Mint!wrapToft
<1> QED BY <1>5, Zenon DEF s, w

LEMMA MintBorrowed ==
  ASSUME NEW s, NEW r, NEW c, NEW d, NEW e, NEW t, NEW yt, NEW u, NEW yu,
         MintOpen(s, r, c, d, e, t, yt, u, yu), NEW n, NEW rate
  PROVE  /\ MintLends(n, rate) /\ MintSolvent(c, d + n, rate) =>
              MintOpen(Mint!borrow(s, n, rate), rate, c, d + n, e, t, yt, u, yu + n)
         /\ ~(MintLends(n, rate) /\ MintSolvent(c, d + n, rate)) =>
              MintFailed(Mint!borrow(s, n, rate))
<1> HIDE DEF MintFailed
<1>1. ASSUME NEW ok, NEW mi, NEW ap
      PROVE  /\ (ok /\ mi /\ MintLends(n, rate) /\ MintSolvent(c, d + n, rate) =>
                   Mint!borrow(MintRun(ok, MintMarket(r, c, d, mi, ap),
                                       MintWallet(e, t, yt, u, yu)), n, rate)
                     = MintRun(ok, MintMarket(rate, c, d + n, mi, ap),
                               MintWallet(e, t, yt, u, yu + n)))
             /\ (~(MintLends(n, rate) /\ MintSolvent(c, d + n, rate)) =>
                   MintFailed(Mint!borrow(MintRun(ok, MintMarket(r, c, d, mi, ap),
                                                  MintWallet(e, t, yt, u, yu)), n, rate)))
  BY MintBorrows
<1> QED BY <1>1, Zenon DEF MintOpen

(* mintOriginUSDO goes through with the whole amount or fails. *)
LEMMA MintOnce ==
  ASSUME NEW s, NEW r, NEW c, NEW d, NEW e, NEW t \in Nat, NEW yt \in Nat, NEW u,
         NEW yu \in Nat, MintShut(s, r, c, d, e, t, yt, u, yu),
         NEW eth \in Nat, NEW amount \in Nat, NEW rate
  PROVE  /\ eth <= t /\ MintLends(amount, rate) /\ MintSolvent(c + eth, d + amount, rate) =>
              MintShut(Mint!mintOriginUSDO(s, eth, amount, rate),
                       rate, c + eth, d + amount, e, t - eth, yt, u + amount, yu)
         /\ ~(eth <= t /\ MintLends(amount, rate)
                /\ MintSolvent(c + eth, d + amount, rate)) =>
              MintFailed(Mint!mintOriginUSDO(s, eth, amount, rate))
<1> DEFINE s1 == Mint!depositAsset(s, eth)
           s2 == Mint!setApproval(s1, TRUE)
           s3 == Mint!addCollateral(s2, eth)
           s4 == Mint!borrow(s3, amount, rate)
           s5 == Mint!withdraw(s4, amount)
           Solv == MintSolvent(c + eth, d + amount, rate)
<1>1. Mint!mintOriginUSDO(s, eth, amount, rate) = Mint!setApproval(s5, FALSE)
  BY Zenon DEF Mint!mintOriginUSDO
<1>2. /\ t < eth => MintFailed(s1)
      /\ ~(t < eth) => MintShut(s1, r, c, d, e, t - eth, yt + eth, u, yu)
  BY MintDeposits
<1>3. ASSUME NEW z, MintFailed(z)
      PROVE  /\ MintFailed(Mint!addCollateral(z, eth))
             /\ MintFailed(Mint!borrow(z, amount, rate)) /\ MintFailed(Mint!withdraw(z, amount))
             /\ \A b : MintFailed(Mint!setApproval(z, b))
  <2>1. ~z.ok /\ MintFailed(Mint!Reverted(z))
    BY <1>3, MintFails
  <2>2. \A b : MintFailed(Mint!setApproval(z, b))
    BY <1>3, MintFails
  <2> HIDE DEF MintFailed
  <2> QED BY <2>1, <2>2, Zenon DEF Mint!addCollateral, Mint!borrow, Mint!withdraw
<1> HIDE DEF MintFailed
<1>4. CASE t < eth
  <2>1. ~(eth <= t)
    BY <1>4
  <2>2. MintFailed(s1)
    BY <1>2, <1>4
  <2>3. MintFailed(s2) /\ MintFailed(s3)
    BY <2>2, <1>3, Zenon
  <2>4. MintFailed(Mint!setApproval(s5, FALSE))
    BY <2>3, <1>3, Zenon
  <2> QED BY <2>1, <2>4, <1>1, Zenon
<1>5. CASE ~(t < eth)
  <2>1. MintOpen(s2, r, c, d, e, t - eth, yt + eth, u, yu)
    BY <1>2, <1>5, MintApproves
  <2>2. MintOpen(s3, r, c + eth, d, e, t - eth, yt, u, yu)
    <3>1. ~(yt + eth < eth) /\ yt + eth - eth = yt
      OBVIOUS
    <3> DEFINE v == yt + eth
    <3> HIDE DEF v, s2
    <3>2. MintOpen(s3, r, c + eth, d, e, t - eth, v - eth, u, yu)
      BY <2>1, <3>1, MintAdds DEF v
    <3>3. v - eth = yt
      BY <3>1 DEF v
    <3> QED BY <3>3, <3>2, Zenon
  <2>3. /\ MintLends(amount, rate) /\ Solv =>
             MintOpen(s4, rate, c + eth, d + amount, e, t - eth, yt, u, yu + amount)
        /\ ~(MintLends(amount, rate) /\ Solv) => MintFailed(s4)
    <3> HIDE DEF s3
    <3> QED BY <2>2, MintBorrowed
  <2>4. CASE MintLends(amount, rate) /\ Solv
    <3>1. ~(yu + amount < amount) /\ yu + amount - amount = yu
      OBVIOUS
    <3> DEFINE v == yu + amount
    <3> HIDE DEF v, s4
    <3>2. MintOpen(s5, rate, c + eth, d + amount, e, t - eth, yt, u + amount, v - amount)
      BY <2>3, <2>4, <3>1, MintWithdraws DEF v
    <3>3. MintOpen(s5, rate, c + eth, d + amount, e, t - eth, yt, u + amount, yu)
      <4>1. v - amount = yu
        BY <3>1 DEF v
      <4> QED BY <4>1, <3>2, Zenon
    <3> HIDE DEF s5
    <3>4. MintShut(Mint!setApproval(s5, FALSE),
                   rate, c + eth, d + amount, e, t - eth, yt, u + amount, yu)
      BY <3>3, MintApproves
    <3>5. eth <= t
      BY <1>5
    <3> QED BY <3>4, <3>5, <2>4, <1>1, Zenon
  <2>5. CASE ~(MintLends(amount, rate) /\ Solv)
    BY <2>3, <2>5, <1>1, <1>3, Zenon
  <2> QED BY <2>4, <2>5
<1> QED BY <1>4, <1>5

LEMMA MintWrapped ==
  ASSUME NEW s, NEW r, NEW c, NEW d, NEW e, NEW t, NEW yt, NEW u, NEW yu,
         MintShut(s, r, c, d, e, t, yt, u, yu), NEW n, NEW late
  PROVE  /\ ~late /\ ~(e < n) =>
              MintShut(Mint!wrapToft(s, n, late), r, c, d, e - n, t + n, yt, u, yu)
         /\ late \/ e < n => MintFailed(Mint!wrapToft(s, n, late))
<1> HIDE DEF MintFailed
<1>1. ASSUME NEW ok, NEW m
      PROVE  /\ (ok /\ ~late /\ ~(e < n) =>
                   Mint!wrapToft(MintRun(ok, m, MintWallet(e, t, yt, u, yu)), n, late)
                     = MintRun(ok, m, MintWallet(e - n, t + n, yt, u, yu)))
             /\ (late \/ e < n =>
                   MintFailed(Mint!wrapToft(MintRun(ok, m, MintWallet(e, t, yt, u, yu)), n, late)))
  BY MintWraps
<1> QED BY <1>1, Zenon DEF MintShut

(* What the script puts at the head of a batch. *)
LEMMA MintStarts ==
  ASSUME NEW m, NEW w, NEW r, NEW c, NEW d, NEW mi, NEW e, NEW t, NEW yt, NEW u, NEW yu,
         m = MintMarket(r, c, d, mi, FALSE), w = MintWallet(e, t, yt, u, yu)
  PROVE  MintShut(Mint!setMinterAndBurner([ok |-> TRUE, market |-> m, wallet |-> w]),
                  r, c, d, e, t, yt, u, yu)
<1>1. ASSUME NEW ok, NEW x
      PROVE  [MintRun(ok, m, w) EXCEPT !.market.minter = x]
               = MintRun(ok, [m EXCEPT !.minter = x], w)
  BY ONLY DEF MintRun
<1>2. ASSUME NEW a, NEW x
      PROVE  [MintMarket(r, c, d, mi, a) EXCEPT !.minter = x] = MintMarket(r, c, d, x, a)
  BY DEF MintMarket
<1>3. Mint!setMinterAndBurner([ok |-> TRUE, market |-> m, wallet |-> w])
        = [MintRun(TRUE, m, w) EXCEPT !.market.minter = TRUE]
  BY Zenon DEF Mint!setMinterAndBurner, MintRun
<1>4. [MintRun(TRUE, m, w) EXCEPT !.market.minter = TRUE]
         = MintRun(TRUE, [m EXCEPT !.minter = TRUE], w)
  BY <1>1, Zenon
<1>5. [MintMarket(r, c, d, mi, FALSE) EXCEPT !.minter = TRUE]
         = MintMarket(r, c, d, TRUE, FALSE)
  BY <1>2, Zenon
<1> QED BY <1>3, <1>4, <1>5, Zenon DEF MintShut

LEMMA MintMocks ==
  ASSUME Mint!OriginsAssumption,
         NEW s, NEW r, NEW c, NEW d, NEW e, NEW t \in Nat, NEW yt, NEW u, NEW yu,
         MintShut(s, r, c, d, e, t, yt, u, yu), NEW late
  PROVE  /\ ~late => MintShut(Mint!testnetMintMockTeth(s, late),
                              r, c, d, e, t + TestnetMint, yt, u, yu)
         /\ \/ MintShut(Mint!testnetMintMockTeth(s, late),
                        r, c, d, e, t + TestnetMint, yt, u, yu)
            \/ MintFailed(Mint!testnetMintMockTeth(s, late))
<1> HIDE DEF MintFailed
<1>1. ASSUME NEW ok, NEW m
      PROVE  LET z == MintRun(ok, m, MintWallet(e, t, yt, u, yu)) IN
             /\ z.ok = ok
             /\ [z EXCEPT !.wallet.teth = z.wallet.teth + TestnetMint]
                  = MintRun(ok, m, MintWallet(e, t + TestnetMint, yt, u, yu))
  <2> DEFINE w == MintWallet(e, t, yt, u, yu)
             z == MintRun(ok, m, w)
  <2>1. ASSUME NEW x, NEW v
        PROVE  [MintRun(ok, m, v) EXCEPT !.wallet.teth = x]
                 = MintRun(ok, m, [v EXCEPT !.teth = x])
    BY DEF MintRun
  <2>2. ASSUME NEW x
        PROVE  [w EXCEPT !.teth = x] = MintWallet(e, x, yt, u, yu)
    BY MintWalletParts
  <2>3. z.ok = ok /\ z.wallet = w
    BY MintParts
  <2>4. w.teth = t
    BY MintWalletParts
  <2> HIDE DEF w
  <2>5. [z EXCEPT !.wallet.teth = t + TestnetMint]
           = MintRun(ok, m, [w EXCEPT !.teth = t + TestnetMint])
    BY <2>1
  <2>6. [w EXCEPT !.teth = t + TestnetMint] = MintWallet(e, t + TestnetMint, yt, u, yu)
    BY <2>2
  <2> HIDE DEF z
  <2>7. z.ok = ok /\ [z EXCEPT !.wallet.teth = z.wallet.teth + TestnetMint]
           = MintRun(ok, m, MintWallet(e, t + TestnetMint, yt, u, yu))
    BY <2>3, <2>4, <2>5, <2>6, Zenon
  <2> QED BY <2>7, Zenon DEF z, w
<1> DEFINE z == MintRun(TRUE, MintMarket(r, c, d, TRUE, FALSE), MintWallet(e, t, yt, u, yu))
           y == MintRun(TRUE, MintMarket(r, c, d, TRUE, FALSE),
                        MintWallet(e, t + TestnetMint, yt, u, yu))
<1>2. z.ok /\ [z EXCEPT !.wallet.teth = z.wallet.teth + TestnetMint] = y
  BY <1>1, Zenon
<1>3. s = z
  BY Zenon DEF MintShut
<1>4. MintFailed(Mint!Reverted(z))
  BY MintReverted, Zenon
<1>5. t + TestnetMint = t \/ TestnetMint # 0
  BY DEF Mint!OriginsAssumption
<1>6. MintShut(y, r, c, d, e, t + TestnetMint, yt, u, yu)
  BY Zenon DEF MintShut
<1>7. TestnetMint = 0 => z = y
  <2>1. TestnetMint = 0 => t + TestnetMint = t
    OBVIOUS
  <2> QED BY <2>1, Zenon
<1>8. /\ TestnetMint = 0 => Mint!testnetMintMockTeth(z, late) = z
      /\ TestnetMint # 0 /\ late => Mint!testnetMintMockTeth(z, late) = Mint!Reverted(z)
      /\ TestnetMint # 0 /\ ~late => Mint!testnetMintMockTeth(z, late) = y
  <2> HIDE DEF z, y
  <2> QED BY <1>2, Zenon DEF Mint!testnetMintMockTeth
<1> HIDE DEF z, y
<1> QED BY <1>3, <1>4, <1>6, <1>7, <1>8, Zenon

LEMMA MintNotBoth ==
  ASSUME NEW s, NEW r, NEW c, NEW d, NEW e, NEW t, NEW yt, NEW u, NEW yu
  PROVE  ~(MintShut(s, r, c, d, e, t, yt, u, yu) /\ MintFailed(s))
<1>1. ASSUME NEW ok, NEW m, NEW w
      PROVE  MintRun(ok, m, w).ok = ok
  BY MintParts
<1>2. MintShut(s, r, c, d, e, t, yt, u, yu) => s.ok = TRUE
  BY <1>1, Zenon DEF MintShut
<1>3. MintFailed(s) => s.ok = FALSE
  BY <1>1, Zenon DEF MintFailed
<1> QED BY <1>2, <1>3, Zenon

(* A batch goes through with all it is for or leaves nothing behind. *)
MintGood(b, late, r, c, d, e) ==
  /\ ~late /\ b.extra + b.usdc <= e
  /\ MintLends(b.borrowExtra, oracle) /\ MintLends(b.borrowUsdc, oracle)
  /\ MintSolvent(c + b.extra, d + b.borrowExtra, oracle)
  /\ MintSolvent(c + b.extra + b.usdc, d + b.borrowExtra + b.borrowUsdc, oracle)

LEMMA MintBatch ==
  ASSUME Mint!OriginsAssumption, NEW b, NEW late \in BOOLEAN,
         b.extra \in Nat, b.usdc \in Nat, b.borrowExtra \in Nat, b.borrowUsdc \in Nat,
         NEW r, NEW c \in Nat, NEW d \in Nat, NEW mi, NEW e \in Nat, NEW t \in Nat, NEW u \in Nat,
         origins[b.market] = MintMarket(r, c, d, mi, FALSE),
         wallet = MintWallet(e, t, 0, u, 0)
  PROVE  /\ MintGood(b, late, r, c, d, e) =>
              MintShut(Mint!executeMulticall(b, late), oracle,
                       c + b.extra + b.usdc, d + b.borrowExtra + b.borrowUsdc,
                       e - (b.extra + b.usdc), t + TestnetMint, 0,
                       u + b.borrowExtra + b.borrowUsdc, 0)
         /\ ~MintGood(b, late, r, c, d, e) => MintFailed(Mint!executeMulticall(b, late))
<1> DEFINE n == b.extra + b.usdc
           s0 == [ok |-> TRUE, market |-> origins[b.market], wallet |-> wallet]
           s1 == Mint!setMinterAndBurner(s0)
           s2 == Mint!testnetMintMockTeth(s1, late)
           s3 == Mint!wrapToft(s2, n, late)
           s4 == Mint!mintOriginUSDO(s3, b.extra, b.borrowExtra, oracle)
           s5 == Mint!mintOriginUSDO(s4, b.usdc, b.borrowUsdc, oracle)
           tt == t + TestnetMint
           Solv1 == MintSolvent(c + b.extra, d + b.borrowExtra, oracle)
           Solv2 == MintSolvent(c + b.extra + b.usdc, d + b.borrowExtra + b.borrowUsdc, oracle)
<1>1. Mint!executeMulticall(b, late) = s5
  BY Zenon DEF Mint!executeMulticall
<1>2. MintShut(s1, r, c, d, e, t, 0, u, 0)
  BY MintStarts, Zenon
<1> HIDE DEF MintFailed
<1>3. /\ ~late => MintShut(s2, r, c, d, e, tt, 0, u, 0)
      /\ MintShut(s2, r, c, d, e, tt, 0, u, 0) \/ MintFailed(s2)
  <2> HIDE DEF s1
  <2> QED BY <1>2, MintMocks
<1>4. tt \in Nat /\ n \in Nat
  BY DEF Mint!OriginsAssumption
<1>5. ASSUME NEW z, MintFailed(z), NEW x, NEW y
      PROVE  MintFailed(Mint!mintOriginUSDO(z, x, y, oracle))
             /\ MintFailed(Mint!wrapToft(z, x, late))
  BY <1>5, MintStaysFailed
<1> HIDE DEF s2, s1, s0
<1>6. /\ MintGood(b, late, r, c, d, e) =>
            MintShut(s3, r, c, d, e - n, tt + n, 0, u, 0)
      /\ late \/ e < n => MintFailed(s3)
      /\ MintFailed(s3) \/ MintShut(s3, r, c, d, e - n, tt + n, 0, u, 0)
  <2>1. CASE MintFailed(s2)
    <3>1. MintFailed(s3)
      BY <2>1, <1>5
    <3>2. late
      BY <2>1, <1>3, MintNotBoth
    <3> QED BY <3>1, <3>2, Zenon DEF MintGood
  <2>2. CASE MintShut(s2, r, c, d, e, tt, 0, u, 0)
    <3>1. /\ ~late /\ ~(e < n) => MintShut(s3, r, c, d, e - n, tt + n, 0, u, 0)
          /\ late \/ e < n => MintFailed(s3)
      <4> HIDE DEF tt, n
      <4> QED BY <2>2, MintWrapped
    <3>2. n <= e <=> ~(e < n)
      BY <1>4
    <3> QED BY <3>1, <3>2, Zenon DEF MintGood
  <2> QED BY <1>3, <2>1, <2>2
<1> HIDE DEF s3
<1>7. /\ MintFailed(s3) => MintFailed(s5)
      /\ MintFailed(s4) => MintFailed(s5)
  BY <1>5, Zenon
<1>8. CASE MintFailed(s3)
  <2>1. ~MintGood(b, late, r, c, d, e)
    BY <1>6, <1>8, MintNotBoth
  <2> QED BY <2>1, <1>1, <1>7, <1>8, Zenon
<1>9. CASE MintShut(s3, r, c, d, e - n, tt + n, 0, u, 0)
  <2> DEFINE v1 == tt + n
             v2 == tt + b.usdc
  <2>0. v1 \in Nat /\ b.extra <= v1 /\ v1 - b.extra = v2
        /\ v2 \in Nat /\ b.usdc <= v2 /\ v2 - b.usdc = tt
    BY <1>4
  <2>a. MintShut(s3, r, c, d, e - n, v1, 0, u, 0)
    BY <1>9
  <2> HIDE DEF v1, v2, n, tt
  <2>1. /\ MintLends(b.borrowExtra, oracle) /\ Solv1 =>
             MintShut(s4, oracle, c + b.extra, d + b.borrowExtra, e - n, v2, 0,
                      u + b.borrowExtra, 0)
        /\ ~(MintLends(b.borrowExtra, oracle) /\ Solv1) => MintFailed(s4)
    <3>1. /\ b.extra <= v1 /\ MintLends(b.borrowExtra, oracle) /\ Solv1 =>
               MintShut(s4, oracle, c + b.extra, d + b.borrowExtra, e - n, v1 - b.extra, 0,
                        u + b.borrowExtra, 0)
          /\ ~(b.extra <= v1 /\ MintLends(b.borrowExtra, oracle) /\ Solv1) => MintFailed(s4)
      <4>1. 0 \in Nat
        OBVIOUS
      <4> QED BY <4>1, <2>0, <2>a, MintOnce
    <3> HIDE DEF s4, Solv1
    <3> QED BY <2>0, <3>1, Zenon
  <2> HIDE DEF s4
  <2>2. CASE ~(MintLends(b.borrowExtra, oracle) /\ Solv1)
    BY <1>1, <1>7, <2>1, <2>2, Zenon DEF MintGood
  <2>3. CASE MintLends(b.borrowExtra, oracle) /\ Solv1
    <3> DEFINE cc == c + b.extra
               dd == d + b.borrowExtra
               uu == u + b.borrowExtra
    <3> HIDE DEF cc, dd, uu
    <3>2. MintShut(s4, oracle, cc, dd, e - n, v2, 0, uu, 0) /\ 0 \in Nat
      BY <2>1, <2>3, Zenon DEF cc, dd, uu
    <3>3. /\ b.usdc <= v2 /\ MintLends(b.borrowUsdc, oracle)
               /\ MintSolvent(cc + b.usdc, dd + b.borrowUsdc, oracle) =>
               MintShut(s5, oracle, cc + b.usdc, dd + b.borrowUsdc, e - n,
                        v2 - b.usdc, 0, uu + b.borrowUsdc, 0)
          /\ ~(b.usdc <= v2 /\ MintLends(b.borrowUsdc, oracle)
                 /\ MintSolvent(cc + b.usdc, dd + b.borrowUsdc, oracle))
               => MintFailed(s5)
      <4> QED BY <2>0, <3>2, MintOnce
    <3> HIDE DEF s5
    <3>4. /\ MintLends(b.borrowUsdc, oracle) /\ MintSolvent(cc + b.usdc, dd + b.borrowUsdc, oracle) =>
               MintShut(s5, oracle, cc + b.usdc, dd + b.borrowUsdc, e - n, tt, 0,
                        uu + b.borrowUsdc, 0)
          /\ ~(MintLends(b.borrowUsdc, oracle) /\ MintSolvent(cc + b.usdc, dd + b.borrowUsdc, oracle))
               => MintFailed(s5)
      BY <2>0, <3>3, <1>4, Zenon
    <3>5. ~late /\ n <= e
      BY <1>9, <1>6, <1>4, MintNotBoth
    <3> QED BY <3>4, <3>5, <2>3, <1>1, Zenon DEF cc, dd, uu, tt, n, MintGood, s5
  <2> QED BY <2>2, <2>3
<1> QED BY <1>6, <1>8, <1>9

(***************************************************************************)
(* What the batches leave: the inductive invariant.                        *)
(***************************************************************************)
(* A market between transactions: nobody may move the multicall's shares.  *)
MintMarkets ==
  {m \in [rate : Rates \cup {0}, collateral : Nat, debt : Nat,
          minter : BOOLEAN, approved : BOOLEAN] :
     \E r \in Rates \cup {0}, c \in Nat, d \in Nat, mi \in BOOLEAN :
       m = MintMarket(r, c, d, mi, FALSE)}

(* The multicall's wallet between transactions. *)
MintWallets == {MintWallet(e, t, 0, u, 0) : e \in Nat, t \in Nat, u \in Nat}

(* What the script sends, for one of the first n markets. *)
MintSent(n) ==
  {b \in Mint!Batch : /\ b.market <= n
                      /\ b.borrowExtra = Mint!borrowAmount(b.rate, b.extra, b.delta)
                      /\ b.borrowUsdc = Mint!borrowAmount(b.rate, b.usdc, b.delta)}

MintOwed ==
  /\ origins \in [Mint!Origins -> MintMarkets] /\ originsMade \in 0 .. MaxOrigins
  /\ \A o \in Mint!Origins : o > originsMade => origins[o].debt = 0
  /\ wallet \in MintWallets /\ signer \in Nat
  /\ wallet.usdo + signer = SumOver(Mint!debts)

MintScript ==
  /\ oracle \in Rates \cup {0}
  /\ originsDb \in 0 .. originsMade
  /\ originsPc \in {"idle", "deploy", "save", "quote", "wait"} /\ job \in Mint!Jobs \cup {Mint!NoJob}
  /\ originsPc \in {"deploy", "save", "quote", "wait"} => job \in Mint!Jobs
  /\ originsPc = "save" => originsMade > 0
  /\ originsPc = "quote" => originsDb # 0
  /\ funded \in 0 .. MaxFunds /\ crashes \in 0 .. MaxCrashes

MintInv == MintOwed /\ MintScript /\ originsPool \in Seq(MintSent(originsMade))

LEMMA MintSum ==
  ASSUME NEW f
  PROVE  Mint!SumOver(f) = SumOver(f)
  BY DEF Mint!SumOver, SumOver, Mint!Units, Units, Mint!Cardinality, Cardinality

LEMMA MintMarketsGive ==
  ASSUME NEW m, m \in MintMarkets
  PROVE  /\ m = MintMarket(m.rate, m.collateral, m.debt, m.minter, FALSE)
         /\ m.rate \in Rates \cup {0} /\ m.collateral \in Nat /\ m.debt \in Nat
         /\ m.minter \in BOOLEAN /\ ~m.approved
<1>1. PICK r \in Rates \cup {0}, c \in Nat, d \in Nat, mi \in BOOLEAN :
        m = MintMarket(r, c, d, mi, FALSE)
  BY Zenon DEF MintMarkets
<1>2. ASSUME NEW a
      PROVE  /\ MintMarket(r, c, d, mi, a).rate = r /\ MintMarket(r, c, d, mi, a).collateral = c
             /\ MintMarket(r, c, d, mi, a).debt = d /\ MintMarket(r, c, d, mi, a).minter = mi
             /\ MintMarket(r, c, d, mi, a).approved = a
  BY MintMarketFields
<1>3. m.rate = r /\ m.collateral = c /\ m.debt = d /\ m.minter = mi /\ m.approved = FALSE
  BY <1>1, <1>2, Zenon
<1> QED BY <1>1, <1>3, Zenon

LEMMA MintMarketsHave ==
  ASSUME NEW r \in Rates \cup {0}, NEW c \in Nat, NEW d \in Nat, NEW mi \in BOOLEAN
  PROVE  MintMarket(r, c, d, mi, FALSE) \in MintMarkets
<1>1. ASSUME NEW a \in BOOLEAN
      PROVE  MintMarket(r, c, d, mi, a) \in [rate : Rates \cup {0}, collateral : Nat, debt : Nat,
                                             minter : BOOLEAN, approved : BOOLEAN]
  BY DEF MintMarket
<1> QED BY <1>1, Zenon DEF MintMarkets

LEMMA MintWalletsGive ==
  ASSUME NEW w, w \in MintWallets
  PROVE  /\ w = MintWallet(w.eth, w.teth, 0, w.usdo, 0)
         /\ w.eth \in Nat /\ w.teth \in Nat /\ w.usdo \in Nat
         /\ w.ybTeth = 0 /\ w.ybUsdo = 0
<1>1. PICK e \in Nat, t \in Nat, u \in Nat : w = MintWallet(e, t, 0, u, 0)
  BY DEF MintWallets
<1>2. w.eth = e /\ w.teth = t /\ w.usdo = u /\ w.ybTeth = 0 /\ w.ybUsdo = 0
  BY <1>1, MintWalletParts
<1> QED BY <1>1, <1>2

(* The debts are naturals, and move with a market's. *)
LEMMA MintDebtsMove ==
  ASSUME origins \in [Mint!Origins -> MintMarkets], NEW o \in Mint!Origins, NEW m \in MintMarkets,
         MaxOrigins \in Nat
  PROVE  /\ IsFiniteSet(Mint!Origins)
         /\ Mint!debts \in [Mint!Origins -> Nat]
         /\ [origins EXCEPT ![o] = m] \in [Mint!Origins -> MintMarkets]
         /\ origins' = [origins EXCEPT ![o] = m] =>
              SumOver(Mint!debts)' = SumOver(Mint!debts) - origins[o].debt + m.debt
<1>1. \A x \in MintMarkets : x.debt \in Nat
  BY MintMarketsGive
<1>2. IsFiniteSet(Mint!Origins)
  BY FS_Interval DEF Mint!Origins
<1>3. Mint!debts \in [Mint!Origins -> Nat] /\ Mint!debts[o] = origins[o].debt
  BY <1>1 DEF Mint!debts
<1>4. ASSUME origins' = [origins EXCEPT ![o] = m]
      PROVE  SumOver(Mint!debts)' = SumOver(Mint!debts) - origins[o].debt + m.debt
  <2>1. Mint!debts' = [Mint!debts EXCEPT ![o] = m.debt]
    BY <1>4 DEF Mint!debts
  <2>2. SumOver([Mint!debts EXCEPT ![o] = m.debt]) = SumOver(Mint!debts) - Mint!debts[o] + m.debt
    BY <1>1, <1>2, <1>3, SumUpdate
  <2>3. SumOver(Mint!debts)' = SumOver([Mint!debts EXCEPT ![o] = m.debt])
    BY <2>1 DEF SumOver, Units
  <2> QED BY <2>2, <2>3, <1>3
<1> QED BY <1>2, <1>3, <1>4

(* The conversion stays within what the ETH is worth. *)
LEMMA MintAmounts ==
  ASSUME Mint!OriginsAssumption, NEW rate \in Rates, NEW eth \in Nat, NEW delta \in Deltas
  PROVE  /\ Mint!worth(rate, eth) \in Nat /\ Mint!borrowAmount(rate, eth, delta) \in Nat
         /\ rate * Mint!worth(rate, eth) <= PRECISION * eth
         /\ Mint!borrowAmount(rate, eth, delta) * PERCENT
              <= Mint!worth(rate, eth) * (PERCENT - delta) + PERCENT - 1
<1>1. /\ PRECISION \in Nat /\ PRECISION > 0 /\ PERCENT \in Nat /\ PERCENT > 0
      /\ rate \in Nat /\ rate > 0 /\ delta \in Nat /\ delta <= PERCENT
  BY DEF Mint!OriginsAssumption
<1> DEFINE q == (PRECISION * PRECISION) \div rate
           w == (q * eth) \div PRECISION
           k == (w * delta) \div PERCENT
<1>2. q \in Nat /\ rate * q <= PRECISION * PRECISION
  <2>1. PRECISION * PRECISION \in Nat
    BY <1>1
  <2> QED BY <1>1, <2>1, FloorDiv
<1> HIDE DEF q
<1>3. w \in Nat /\ PRECISION * w <= q * eth
  <2>1. q * eth \in Nat
    BY <1>2
  <2> QED BY <1>1, <2>1, FloorDiv
<1> HIDE DEF w
<1>4. k \in Nat /\ PERCENT * k <= w * delta /\ w * delta < PERCENT * k + PERCENT
  <2>1. w * delta \in Nat
    BY <1>1, <1>3
  <2> QED BY <1>1, <2>1, FloorDiv
<1> HIDE DEF k
<1>5. Mint!worth(rate, eth) = w /\ Mint!borrowAmount(rate, eth, delta) = w - k
  BY DEF Mint!worth, Mint!borrowAmount, q, w, k
<1>6. k <= w
  <2>1. w * delta <= w * PERCENT
    BY <1>1, <1>3
  <2>2. PERCENT * k <= PERCENT * w
    BY <1>1, <1>3, <1>4, <2>1
  <2> QED BY <1>1, <1>3, <1>4, <2>2
<1>7. rate * w <= PRECISION * eth
  <2>1. rate * (PRECISION * w) <= rate * (q * eth)
    BY <1>1, <1>2, <1>3
  <2>2. (rate * q) * eth <= (PRECISION * PRECISION) * eth
    BY <1>1, <1>2
  <2>3. PRECISION * (rate * w) <= PRECISION * (PRECISION * eth)
    BY <1>1, <1>2, <1>3, <2>1, <2>2
  <2>4. rate * w \in Nat /\ PRECISION * eth \in Nat
    BY <1>1, <1>3
  <2> HIDE DEF w
  <2> QED BY <1>1, <2>3, <2>4
<1>8. (w - k) * PERCENT <= w * (PERCENT - delta) + PERCENT - 1
  <2>1. w * (PERCENT - delta) = w * PERCENT - w * delta
    BY <1>1, <1>3
  <2>2. (w - k) * PERCENT = w * PERCENT - PERCENT * k
    BY <1>1, <1>3, <1>4
  <2>3. w * PERCENT \in Nat /\ w * delta \in Nat /\ PERCENT * k \in Nat
    BY <1>1, <1>3, <1>4
  <2> QED BY <1>1, <1>4, <2>1, <2>2, <2>3
<1>9. w - k \in Nat
  BY <1>3, <1>4, <1>6
<1> QED BY <1>3, <1>5, <1>7, <1>8, <1>9

LEMMA MintShutGives ==
  ASSUME NEW s, NEW r, NEW c, NEW d, NEW e, NEW t, NEW yt, NEW u, NEW yu,
         MintShut(s, r, c, d, e, t, yt, u, yu)
  PROVE  /\ s.ok /\ s.market = MintMarket(r, c, d, TRUE, FALSE)
         /\ s.wallet = MintWallet(e, t, yt, u, yu)
<1>1. ASSUME NEW ok, NEW m, NEW w
      PROVE  MintRun(ok, m, w).ok = ok /\ MintRun(ok, m, w).market = m
             /\ MintRun(ok, m, w).wallet = w
  BY MintParts
<1>2. s = MintRun(TRUE, MintMarket(r, c, d, TRUE, FALSE), MintWallet(e, t, yt, u, yu))
  BY Zenon DEF MintShut
<1>3. ASSUME NEW ok, NEW m, NEW w, s = MintRun(ok, m, w)
      PROVE  s.ok = ok /\ s.market = m /\ s.wallet = w
  BY <1>1, <1>3
<1> QED BY <1>2, <1>3, Zenon

LEMMA MintFailedGives ==
  ASSUME NEW s, MintFailed(s)
  PROVE  ~s.ok
  BY MintFails

LEMMA MintSentGives ==
  ASSUME Mint!OriginsAssumption, NEW n, NEW b \in MintSent(n)
  PROVE  /\ b.market \in Mint!Origins /\ b.market <= n
         /\ b.extra \in Nat /\ b.usdc \in Nat /\ b.rate \in Rates /\ b.delta \in Deltas
         /\ b.borrowExtra \in Nat /\ b.borrowUsdc \in Nat
         /\ b.borrowExtra = Mint!borrowAmount(b.rate, b.extra, b.delta)
         /\ b.borrowUsdc = Mint!borrowAmount(b.rate, b.usdc, b.delta)
  BY DEF MintSent, Mint!Batch, Mint!OriginsAssumption

(* A batch that is mined: all it mints is owed afterwards. *)
LEMMA MintMinedOwed ==
  ASSUME Mint!OriginsAssumption, MintInv, NEW late \in BOOLEAN, Mint!Mined(late)
  PROVE  MintOwed' /\ originsMade' = originsMade
<1> DEFINE b == Head(originsPool)
           run == Mint!executeMulticall(b, late)
           m == origins[b.market]
<1>1. originsPool \in Seq(MintSent(originsMade)) /\ originsPool # <<>>
  BY DEF MintInv, Mint!Mined
<1>2. b \in MintSent(originsMade)
  BY <1>1
<1>3. /\ run.ok =>
           /\ origins' = [origins EXCEPT ![b.market] = run.market]
           /\ wallet' = [run.wallet EXCEPT !.usdo = run.wallet.usdo - b.borrowUsdc]
           /\ signer' = signer + b.borrowUsdc
           /\ originsMade' = originsMade
      /\ ~run.ok => UNCHANGED <<origins, originsMade, wallet, signer>>
  BY Zenon DEF Mint!Mined, Mint!contracts
<1> HIDE DEF b
<1>4. /\ b.market \in Mint!Origins /\ b.market <= originsMade
      /\ b.extra \in Nat /\ b.usdc \in Nat /\ b.borrowExtra \in Nat /\ b.borrowUsdc \in Nat
  BY <1>2, MintSentGives
<1>5. /\ origins \in [Mint!Origins -> MintMarkets] /\ originsMade \in 0 .. MaxOrigins
      /\ \A o \in Mint!Origins : o > originsMade => origins[o].debt = 0
      /\ wallet \in MintWallets /\ signer \in Nat
      /\ wallet.usdo + signer = SumOver(Mint!debts)
      /\ oracle \in Rates \cup {0}
  BY DEF MintInv, MintOwed, MintScript
<1>6. /\ m \in MintMarkets
      /\ m = MintMarket(m.rate, m.collateral, m.debt, m.minter, FALSE)
      /\ m.rate \in Rates \cup {0} /\ m.collateral \in Nat /\ m.debt \in Nat
  <2>1. m \in MintMarkets
    BY <1>4, <1>5
  <2> HIDE DEF m
  <2> QED BY <2>1, MintMarketsGive, Zenon
<1> DEFINE e == wallet.eth
           t == wallet.teth
           u == wallet.usdo
           c == m.collateral
           d == m.debt
           p == b.borrowExtra
           q == b.borrowUsdc
<1>7. wallet = MintWallet(e, t, 0, u, 0) /\ e \in Nat /\ t \in Nat /\ u \in Nat
  BY <1>5, MintWalletsGive
<1>8. /\ MintGood(b, late, m.rate, c, d, e) =>
              MintShut(run, oracle, c + b.extra + b.usdc, d + p + q,
                       e - (b.extra + b.usdc), t + TestnetMint, 0, u + p + q, 0)
      /\ ~MintGood(b, late, m.rate, c, d, e) => MintFailed(run)
  BY <1>4, <1>6, <1>7, MintBatch, Zenon
<1> HIDE DEF run
<1>9. CASE ~MintGood(b, late, m.rate, c, d, e)
  <2>1. ~run.ok
    BY <1>8, <1>9, MintFailedGives
  <2>2. UNCHANGED <<origins, originsMade, wallet, signer>>
    BY <1>3, <2>1
  <2>3. SumOver(Mint!debts)' = SumOver(Mint!debts)
    BY <2>2 DEF SumOver, Units, Mint!debts
  <2> QED BY <1>5, <2>2, <2>3 DEF MintOwed
<1>10. CASE MintGood(b, late, m.rate, c, d, e)
  <2> DEFINE mm == MintMarket(oracle, c + b.extra + b.usdc, d + p + q, TRUE, FALSE)
             ww == MintWallet(e - (b.extra + b.usdc), t + TestnetMint, 0, u + p + q, 0)
  <2>1. run.ok /\ run.market = mm /\ run.wallet = ww
    BY <1>8, <1>10, MintShutGives, Zenon
  <2>2. oracle \in Rates \cup {0}
    BY <1>5
  <2>3. c + b.extra + b.usdc \in Nat /\ d + p + q \in Nat
    BY <1>4, <1>6
  <2>4. mm \in MintMarkets /\ mm.debt = d + p + q
    <3>1. mm \in MintMarkets
      BY <2>2, <2>3, MintMarketsHave
    <3>2. ASSUME NEW mi, NEW a
          PROVE  MintMarket(oracle, c + b.extra + b.usdc, d + p + q, mi, a).debt = d + p + q
      <4> DEFINE x == c + b.extra + b.usdc
                 y == d + p + q
      <4> HIDE DEF x, y
      <4>1. MintMarket(oracle, x, y, mi, a).debt = y
        BY MintMarketFields
      <4> QED BY <4>1, Zenon DEF x, y
    <3>3. mm.debt = d + p + q
      BY <3>2, Zenon
    <3> HIDE DEF mm
    <3> QED BY <3>1, <3>3, Zenon
  <2>5. b.extra + b.usdc <= e /\ TestnetMint \in Nat
    BY <1>10 DEF MintGood, Mint!OriginsAssumption
  <2>6. wallet' = MintWallet(e - (b.extra + b.usdc), t + TestnetMint, 0, u + p, 0)
    <3>1. ww.usdo = u + p + q
      BY MintWalletParts
    <3>2. ASSUME NEW x
          PROVE  [ww EXCEPT !.usdo = x]
                   = MintWallet(e - (b.extra + b.usdc), t + TestnetMint, 0, x, 0)
      BY MintWalletParts
    <3>3. \A x : x = u + p + q => x - q = u + p
      BY <1>4, <1>7
    <3>4. wallet' = [ww EXCEPT !.usdo = ww.usdo - q]
      <4> HIDE DEF mm, ww
      <4> QED BY <1>3, <2>1, Zenon
    <3>5. [ww EXCEPT !.usdo = u + p]
             = MintWallet(e - (b.extra + b.usdc), t + TestnetMint, 0, u + p, 0)
      BY <3>2
    <3>6. ww.usdo - q = u + p
      BY <3>1, <3>3, Zenon
    <3> HIDE DEF ww, p, q, e, t, u
    <3> QED BY <3>4, <3>5, <3>6, Zenon
  <2>7. wallet' \in MintWallets /\ wallet'.usdo = u + p
    <3>1. /\ e - (b.extra + b.usdc) \in Nat /\ t + TestnetMint \in Nat /\ u + p \in Nat
      BY <1>4, <1>7, <2>5
    <3> HIDE DEF e, t, u, p
    <3>2. MintWallet(e - (b.extra + b.usdc), t + TestnetMint, 0, u + p, 0) \in MintWallets
      BY <3>1 DEF MintWallets
    <3> QED BY <2>6, <3>2, MintWalletParts
  <2>8. /\ origins' = [origins EXCEPT ![b.market] = mm]
        /\ signer' = signer + q /\ originsMade' = originsMade
    <3> HIDE DEF mm
    <3> QED BY <1>3, <2>1, Zenon
  <2> HIDE DEF mm
  <2>9. MaxOrigins \in Nat
    BY DEF Mint!OriginsAssumption
  <2>10. /\ origins' \in [Mint!Origins -> MintMarkets]
         /\ SumOver(Mint!debts)' = SumOver(Mint!debts) - d + mm.debt
         /\ IsFiniteSet(Mint!Origins) /\ Mint!debts \in [Mint!Origins -> Nat]
    BY <1>4, <1>5, <2>4, <2>8, <2>9, MintDebtsMove
  <2>11. SumOver(Mint!debts) \in Nat
    BY <2>10, SumBounds
  <2>12. wallet'.usdo + signer' = SumOver(Mint!debts)'
    <3> HIDE DEF d, u, p, q
    <3>1. SumOver(Mint!debts)' = SumOver(Mint!debts) + p + q
      BY <2>4, <2>10, <2>11, <1>4, <1>6 DEF d, p, q
    <3>2. u + signer = SumOver(Mint!debts)
      BY <1>5 DEF u
    <3> QED BY <3>1, <3>2, <2>7, <2>8, <2>11, <1>4, <1>5, <1>7 DEF p, q
  <2>13. \A o \in Mint!Origins : o > originsMade' => origins'[o].debt = 0
    <3> SUFFICES ASSUME NEW o \in Mint!Origins, o > originsMade PROVE origins'[o].debt = 0
      BY <2>8
    <3>1. o # b.market
      BY <1>4, <1>5 DEF Mint!Origins
    <3>2. origins'[o] = origins[o]
      BY <3>1, <2>8, <1>5
    <3> QED BY <3>2, <1>5
  <2>14. signer' \in Nat /\ originsMade' \in 0 .. MaxOrigins
    BY <2>8, <1>4, <1>5
  <2> QED BY <2>7, <2>8, <2>10, <2>12, <2>13, <2>14 DEF MintOwed
<1> QED BY <1>9, <1>10, <1>3, <1>8, MintFailedGives

(* What leaves the contracts alone, and the tail of the pool. *)
LEMMA MintOwedKept ==
  ASSUME MintOwed, UNCHANGED <<origins, originsMade, wallet, signer>>
  PROVE  MintOwed'
<1>1. SumOver(Mint!debts)' = SumOver(Mint!debts)
  BY DEF SumOver, Units, Mint!debts
<1> QED BY <1>1 DEF MintOwed

LEMMA MintInvInit ==
  ASSUME Mint!OriginsAssumption, Mint!Init
  PROVE  MintInv
<1>1. MaxOrigins \in Nat /\ MaxFunds \in Nat /\ MaxCrashes \in Nat
  BY DEF Mint!OriginsAssumption
<1>2. \A o \in Mint!Origins : origins[o] \in MintMarkets /\ origins[o].debt = 0
  <2>1. 0 \in Nat /\ 0 \in Rates \cup {0} /\ FALSE \in BOOLEAN
    OBVIOUS
  <2>2. MintMarket(0, 0, 0, FALSE, FALSE) \in MintMarkets
    BY <2>1, MintMarketsHave, Zenon
  <2>3. Mint!NewOrigins = MintMarket(0, 0, 0, FALSE, FALSE)
    BY Zenon DEF Mint!NewOrigins, MintMarket
  <2>4. ASSUME NEW mi, NEW a
        PROVE  MintMarket(0, 0, 0, mi, a).debt = 0
    BY MintMarketFields
  <2>5. Mint!NewOrigins \in MintMarkets /\ Mint!NewOrigins.debt = 0
    BY <2>2, <2>3, <2>4, Zenon
  <2> QED BY <2>5 DEF Mint!Init
<1>3. origins \in [Mint!Origins -> MintMarkets]
  BY <1>2 DEF Mint!Init
<1>4. wallet = MintWallet(0, 0, 0, 0, 0)
  BY DEF Mint!Init, Mint!NewWallet, MintWallet
<1>5. wallet \in MintWallets /\ wallet.usdo = 0
  BY <1>4, MintWalletParts DEF MintWallets
<1>6. SumOver(Mint!debts) = 0
  <2>1. Mint!debts = [o \in Mint!Origins |-> 0]
    BY <1>2 DEF Mint!debts
  <2>2. SumOver([o \in Mint!Origins |-> 0]) = 0
    BY SumOfZeros
  <2> QED BY <2>1, <2>2
<1>7. MintOwed
  BY <1>1, <1>2, <1>3, <1>5, <1>6 DEF MintOwed, Mint!Init
<1>8. MintScript
  BY <1>1 DEF MintScript, Mint!Init
<1>9. originsPool \in Seq(MintSent(originsMade))
  BY DEF Mint!Init
<1> QED BY <1>7, <1>8, <1>9 DEF MintInv

LEMMA MintMinedStep ==
  ASSUME Mint!OriginsAssumption, MintInv, NEW late \in BOOLEAN, Mint!Mined(late)
  PROVE  MintInv'
<1>1. MintOwed' /\ originsMade' = originsMade
  BY MintMinedOwed
<1>2. /\ originsPool' = Tail(originsPool) /\ originsPool # <<>>
      /\ \/ originsPc' = "idle" /\ job' = Mint!NoJob
         \/ UNCHANGED <<originsPc, job>>
      /\ UNCHANGED <<oracle, originsDb, funded, crashes>>
  BY Zenon DEF Mint!Mined, Mint!Throw
<1>3. originsPool' \in Seq(MintSent(originsMade))
  BY <1>2 DEF MintInv
<1>4. MintScript'
  BY <1>1, <1>2 DEF MintInv, MintScript
<1> QED BY <1>1, <1>3, <1>4 DEF MintInv

LEMMA MintInvNext ==
  ASSUME Mint!OriginsAssumption, MintInv, Mint!Next
  PROVE  MintInv'
<1> USE DEF MintScript
<1>0. /\ MintOwed /\ MintScript /\ originsPool \in Seq(MintSent(originsMade))
      /\ MaxOrigins \in Nat /\ MaxFunds \in Nat /\ MaxCrashes \in Nat
      /\ originsMade \in 0 .. MaxOrigins
  BY DEF MintInv, MintOwed, Mint!OriginsAssumption
<1>1. ASSUME NEW j \in Mint!Jobs, Mint!task_2(j)
      PROVE  MintInv'
  <2>1. /\ originsPc' = "deploy" /\ job' = j
        /\ UNCHANGED <<origins, originsMade, wallet, signer>>
        /\ UNCHANGED <<oracle, originsPool, originsDb, funded, crashes>>
    BY <1>1 DEF Mint!task_2, Mint!world, Mint!contracts
  <2> QED BY <1>0, <2>1, MintOwedKept DEF MintInv
<1>2. CASE Mint!buildOrigins
  <2> DEFINE n == originsMade + 1
             m == [Mint!NewOrigins EXCEPT !.rate = oracle]
  <2>0. ASSUME oracle = 0
        PROVE  MintInv'
    <3>1. /\ originsPc' = "idle" /\ job' = Mint!NoJob
          /\ UNCHANGED <<origins, originsMade, wallet, signer>>
          /\ UNCHANGED <<oracle, originsPool, originsDb, funded, crashes>>
      BY <1>2, <2>0 DEF Mint!buildOrigins, Mint!Throw
    <3> QED BY <1>0, <3>1, MintOwedKept DEF MintInv
  <2>a. SUFFICES ASSUME oracle # 0
                 PROVE  MintInv'
    BY <2>0
  <2>1. /\ originsPc = "deploy" /\ originsPc' = "save" /\ originsMade < MaxOrigins
        /\ origins' = [origins EXCEPT ![n] = m] /\ originsMade' = n
        /\ UNCHANGED <<wallet, signer, oracle, originsPool, originsDb, job, funded, crashes>>
    BY <1>2, <2>a DEF Mint!buildOrigins
  <2>2. m \in MintMarkets /\ m.debt = 0
    <3>1. ASSUME NEW mi, NEW a, NEW x
          PROVE  /\ [MintMarket(0, 0, 0, mi, a) EXCEPT !.rate = x] = MintMarket(x, 0, 0, mi, a)
                 /\ MintMarket(x, 0, 0, mi, a).debt = 0
      BY ONLY DEF MintMarket
    <3>2. Mint!NewOrigins = MintMarket(0, 0, 0, FALSE, FALSE)
      BY Zenon DEF Mint!NewOrigins, MintMarket
    <3>3. m = MintMarket(oracle, 0, 0, FALSE, FALSE)
      BY <3>1, <3>2, Zenon
    <3>4. oracle \in Rates \cup {0} /\ 0 \in Nat /\ FALSE \in BOOLEAN
      BY <1>0
    <3>5. MintMarket(oracle, 0, 0, FALSE, FALSE) \in MintMarkets
      BY <3>4, MintMarketsHave, Zenon
    <3>6. MintMarket(oracle, 0, 0, FALSE, FALSE).debt = 0
      BY <3>1, Zenon
    <3> HIDE DEF m
    <3> QED BY <3>3, <3>5, <3>6, Zenon
  <2> HIDE DEF m, n
  <2>3. n \in Mint!Origins /\ n \in 0 .. MaxOrigins /\ n > 0 /\ n > originsMade
        /\ \A x : x \in 0 .. originsMade => x \in 0 .. n
    BY <1>0, <2>1 DEF Mint!Origins, n
  <2>4. origins[n].debt = 0
    BY <2>3, <1>0 DEF MintOwed
  <2>5. /\ origins' \in [Mint!Origins -> MintMarkets]
        /\ SumOver(Mint!debts)' = SumOver(Mint!debts) - 0 + 0
        /\ IsFiniteSet(Mint!Origins) /\ Mint!debts \in [Mint!Origins -> Nat]
    BY <1>0, <2>1, <2>2, <2>3, <2>4, MintDebtsMove DEF MintOwed
  <2>6. SumOver(Mint!debts)' = SumOver(Mint!debts)
    BY <2>5, SumBounds
  <2>7. \A o \in Mint!Origins : o > originsMade' => origins'[o].debt = 0
    BY <1>0, <2>1, <2>2, <2>3 DEF MintOwed, Mint!Origins
  <2>8. MintOwed'
    BY <1>0, <2>1, <2>3, <2>5, <2>6, <2>7 DEF MintOwed
  <2>9. originsPool' \in Seq(MintSent(originsMade'))
    <3>1. MintSent(originsMade) \subseteq MintSent(n)
      <4>1. \A x \in Mint!Origins : x <= originsMade => x <= n
        BY <1>0, <2>3 DEF Mint!Origins
      <4>2. \A b \in Mint!Batch : b.market \in Mint!Origins
        BY DEF Mint!Batch
      <4> QED BY <4>1, <4>2 DEF MintSent
    <3> QED BY <3>1, <1>0, <2>1
  <2>10. MintScript'
    BY <1>0, <2>1, <2>3
  <2> QED BY <2>8, <2>9, <2>10 DEF MintInv
<1>3. CASE Mint!save
  <2>1. /\ originsPc = "save" /\ originsDb' = originsMade /\ originsPc' = "quote"
        /\ UNCHANGED <<origins, originsMade, wallet, signer>>
        /\ UNCHANGED <<oracle, originsPool, job, funded, crashes>>
    BY <1>3 DEF Mint!save, Mint!contracts
  <2> QED BY <1>0, <2>1, MintOwedKept DEF MintInv
<1>4. CASE Mint!loadDeployed
  <2>1. /\ originsPc = "deploy" /\ originsDb # 0 /\ originsPc' = "quote"
        /\ UNCHANGED <<origins, originsMade, wallet, signer>>
        /\ UNCHANGED <<oracle, originsPool, originsDb, job, funded, crashes>>
    BY <1>4 DEF Mint!loadDeployed, Mint!world, Mint!contracts
  <2> QED BY <1>0, <2>1, MintOwedKept DEF MintInv
<1>5. CASE Mint!tapiocaPostDeployTask
  <2> DEFINE b == [market |-> originsDb, extra |-> job.extra, usdc |-> job.usdc,
                   rate |-> origins[originsDb].rate, delta |-> job.delta,
                   borrowExtra |-> Mint!borrowAmount(origins[originsDb].rate, job.extra, job.delta),
                   borrowUsdc |-> Mint!borrowAmount(origins[originsDb].rate, job.usdc, job.delta)]
  <2>1. /\ originsPc = "quote"
        /\ UNCHANGED <<origins, originsMade, wallet, signer>>
        /\ UNCHANGED <<oracle, originsDb, funded, crashes>>
        /\ \/ /\ origins[originsDb].rate # 0
              /\ originsPool' = Append(originsPool, b) /\ originsPc' = "wait" /\ job' = job
           \/ originsPc' = "idle" /\ job' = Mint!NoJob /\ originsPool' = originsPool
    BY <1>5 DEF Mint!tapiocaPostDeployTask, Mint!contracts, Mint!CanQuote, Mint!Throw
  <2> HIDE DEF b
  <2>2. CASE originsPc' = "idle" /\ job' = Mint!NoJob /\ originsPool' = originsPool
    BY <1>0, <2>1, <2>2, MintOwedKept DEF MintInv
  <2>3. CASE /\ origins[originsDb].rate # 0
             /\ originsPool' = Append(originsPool, b) /\ originsPc' = "wait" /\ job' = job
    <3> DEFINE r == origins[originsDb].rate
    <3>1. /\ originsDb \in Mint!Origins /\ originsDb <= originsMade
          /\ origins[originsDb] \in MintMarkets
      BY <1>0, <2>1 DEF MintOwed, Mint!Origins
    <3>2. r \in Rates
      BY <3>1, <2>3, MintMarketsGive
    <3>3. /\ job.extra \in EthAmounts /\ job.usdc \in EthAmounts /\ job.delta \in Deltas
          /\ EthAmounts \subseteq Nat
      BY <1>0, <2>1 DEF Mint!Jobs, Mint!OriginsAssumption
    <3> HIDE DEF r
    <3>4. /\ Mint!borrowAmount(r, job.extra, job.delta) \in Nat
          /\ Mint!borrowAmount(r, job.usdc, job.delta) \in Nat
      BY <3>2, <3>3, MintAmounts
    <3>5. b \in MintSent(originsMade)
      BY <3>1, <3>2, <3>3, <3>4 DEF MintSent, Mint!Batch, b, r
    <3>6. originsPool' \in Seq(MintSent(originsMade))
      BY <1>0, <2>3, <3>5
    <3> QED BY <1>0, <2>1, <2>3, <3>6, MintOwedKept DEF MintInv
  <2> QED BY <2>1, <2>2, <2>3
<1>6. CASE Mint!Crash
  <2>1. /\ crashes < MaxCrashes /\ crashes' = crashes + 1
        /\ originsPc' = "idle" /\ job' = Mint!NoJob
        /\ UNCHANGED <<origins, originsMade, wallet, signer>>
        /\ UNCHANGED <<oracle, originsPool, originsDb, funded>>
    BY <1>6 DEF Mint!Crash, Mint!contracts, Mint!Throw
  <2>2. crashes' \in 0 .. MaxCrashes
    BY <1>0, <2>1
  <2> QED BY <1>0, <2>1, <2>2, MintOwedKept DEF MintInv
<1>7. ASSUME NEW n \in EthAmounts \ {0}, Mint!Fund(n)
      PROVE  MintInv'
  <2>1. /\ funded + n <= MaxFunds /\ funded' = funded + n
        /\ wallet' = [wallet EXCEPT !.eth = wallet.eth + n]
        /\ UNCHANGED <<origins, originsMade, signer, oracle, originsPool, originsDb, originsPc,
                       job, crashes>>
    BY <1>7 DEF Mint!Fund
  <2>2. n \in Nat
    BY DEF Mint!OriginsAssumption
  <2> DEFINE w == MintWallet(wallet.eth, wallet.teth, 0, wallet.usdo, 0)
  <2>3. wallet \in MintWallets /\ wallet = w
        /\ wallet.eth \in Nat /\ wallet.teth \in Nat /\ wallet.usdo \in Nat
    BY <1>0, MintWalletsGive DEF MintOwed
  <2>4. [w EXCEPT !.eth = wallet.eth + n] = MintWallet(wallet.eth + n, wallet.teth, 0, wallet.usdo, 0)
    BY MintWalletParts
  <2>5. wallet' = MintWallet(wallet.eth + n, wallet.teth, 0, wallet.usdo, 0)
    <3> HIDE DEF w
    <3> QED BY <2>1, <2>3, <2>4
  <2>6. wallet.eth + n \in Nat
    BY <2>2, <2>3
  <2>7. wallet' \in MintWallets /\ wallet'.usdo = wallet.usdo
    <3>1. MintWallet(wallet.eth + n, wallet.teth, 0, wallet.usdo, 0) \in MintWallets
      BY <2>3, <2>6 DEF MintWallets
    <3> QED BY <3>1, <2>5, MintWalletParts
  <2>8. SumOver(Mint!debts)' = SumOver(Mint!debts)
    BY <2>1 DEF SumOver, Units, Mint!debts
  <2>9. MintOwed'
    BY <1>0, <2>1, <2>7, <2>8 DEF MintOwed
  <2>10. funded' \in 0 .. MaxFunds
    BY <1>0, <2>1, <2>2
  <2> QED BY <1>0, <2>1, <2>9, <2>10 DEF MintInv
<1>8. ASSUME NEW r \in (Rates \cup {0}) \ {oracle}, Mint!OracleAnswers(r)
      PROVE  MintInv'
  <2>1. /\ oracle' = r
        /\ UNCHANGED <<origins, originsMade, wallet, signer>>
        /\ UNCHANGED <<originsPool, originsDb, originsPc, job, funded, crashes>>
    BY <1>8 DEF Mint!OracleAnswers, Mint!contracts
  <2> QED BY <1>0, <2>1, MintOwedKept DEF MintInv
<1>9. ASSUME NEW o \in Mint!Origins, Mint!updateExchangeRate(o)
      PROVE  MintInv'
  <2> DEFINE m == [origins[o] EXCEPT !.rate = oracle]
             x == origins[o]
  <2>1. /\ o <= originsMade /\ oracle # 0
        /\ origins' = [origins EXCEPT ![o] = m]
        /\ UNCHANGED <<originsMade, wallet, signer, oracle, originsPool, originsDb, originsPc,
                       job, funded, crashes>>
    BY <1>9 DEF Mint!updateExchangeRate
  <2>2. /\ x = MintMarket(x.rate, x.collateral, x.debt, x.minter, FALSE)
        /\ x.collateral \in Nat /\ x.debt \in Nat /\ x.minter \in BOOLEAN
    <3>1. x \in MintMarkets
      BY <1>0 DEF MintOwed
    <3> HIDE DEF x
    <3> QED BY <3>1, MintMarketsGive, Zenon
  <2>3. m \in MintMarkets /\ m.debt = x.debt
    <3> DEFINE rr == x.rate  c == x.collateral  d == x.debt  mi == x.minter
    <3> HIDE DEF x, rr, c, d, mi
    <3>1. ASSUME NEW a, NEW y, NEW z
          PROVE  /\ [MintMarket(z, c, d, mi, a) EXCEPT !.rate = y] = MintMarket(y, c, d, mi, a)
                 /\ MintMarket(y, c, d, mi, a).debt = d
      BY ONLY DEF MintMarket
    <3>2. x = MintMarket(rr, c, d, mi, FALSE)
      BY <2>2, Zenon DEF rr, c, d, mi
    <3>3. [x EXCEPT !.rate = oracle] = MintMarket(oracle, c, d, mi, FALSE)
      BY <3>1, <3>2, Zenon
    <3>4. MintMarket(oracle, c, d, mi, FALSE) \in MintMarkets
      <4>1. oracle \in Rates \cup {0} /\ c \in Nat /\ d \in Nat /\ mi \in BOOLEAN
        BY <1>0, <2>2, Zenon DEF c, d, mi
      <4> QED BY <4>1, MintMarketsHave, Zenon
    <3>5. m = [x EXCEPT !.rate = oracle]
      BY Zenon DEF x
    <3> HIDE DEF m
    <3> QED BY <3>1, <3>3, <3>4, <3>5, Zenon DEF d
  <2> HIDE DEF m
  <2>4. /\ origins' \in [Mint!Origins -> MintMarkets]
        /\ SumOver(Mint!debts)' = SumOver(Mint!debts) - x.debt + m.debt
        /\ IsFiniteSet(Mint!Origins) /\ Mint!debts \in [Mint!Origins -> Nat]
    BY <1>0, <2>1, <2>3, MintDebtsMove DEF MintOwed
  <2>5. SumOver(Mint!debts)' = SumOver(Mint!debts)
    <3>1. SumOver(Mint!debts) \in Nat
      BY <2>4, SumBounds
    <3> HIDE DEF x
    <3> QED BY <3>1, <2>2, <2>3, <2>4
  <2>6. \A p \in Mint!Origins : p > originsMade' => origins'[p].debt = 0
    <3> SUFFICES ASSUME NEW p \in Mint!Origins, p > originsMade PROVE origins'[p].debt = 0
      BY <2>1
    <3>1. p # o
      BY <1>0, <2>1 DEF Mint!Origins
    <3>2. origins'[p] = origins[p]
      BY <3>1, <2>1, <1>0 DEF MintOwed
    <3> QED BY <3>2, <1>0 DEF MintOwed
  <2>7. MintOwed'
    BY <1>0, <2>1, <2>4, <2>5, <2>6 DEF MintOwed
  <2> QED BY <1>0, <2>1, <2>7 DEF MintInv
<1>10. ASSUME NEW late \in BOOLEAN, Mint!Mined(late)
       PROVE  MintInv'
  BY <1>10, MintMinedStep
<1> HIDE DEF MintInv, MintScript
<1> QED BY <1>1, <1>2, <1>3, <1>4, <1>5, <1>6, <1>7, <1>8, <1>9, <1>10 DEF Mint!Next

(* The invariant gives the properties. *)
LEMMA TimesMonotone ==
  ASSUME NEW x \in Nat, NEW y \in Nat, NEW k \in Nat, x <= y
  PROVE  k * x <= k * y
  OBVIOUS

(* A borrow within delta leaves a solvent market solvent. *)
LEMMA MintStaysSolvent ==
  ASSUME Mint!OriginsAssumption, NEW c \in Nat, NEW d \in Nat, NEW at \in Nat,
         MintSolvent(c, d, at),
         NEW rate \in Rates, NEW eth \in Nat, NEW delta \in Deltas,
         Mint!WithinDelta(rate, at, eth, delta)
  PROVE  MintSolvent(c + eth, d + Mint!borrowAmount(rate, eth, delta), at)
<1> DEFINE w == Mint!worth(rate, eth)
           bo == Mint!borrowAmount(rate, eth, delta)
           z == w * (PERCENT - delta) + PERCENT - 1
<1>1. /\ PRECISION \in Nat /\ PERCENT \in Nat /\ PERCENT > 0 /\ CR \in Nat
      /\ rate \in Nat /\ delta \in Nat /\ delta <= PERCENT
  BY DEF Mint!OriginsAssumption
<1>2. w \in Nat /\ bo \in Nat /\ rate * w <= PRECISION * eth /\ bo * PERCENT <= z
  BY MintAmounts
<1>3. at * z <= rate * w * CR
  BY DEF Mint!WithinDelta
<1> HIDE DEF w, bo
<1>4. z \in Nat
  <2>1. w * (PERCENT - delta) \in Nat
    BY <1>1, <1>2
  <2> QED BY <1>1, <2>1
<1> HIDE DEF z
<1> DEFINE f == rate * w
           g == PRECISION * eth
           h == bo * PERCENT
<1>5. f \in Nat /\ g \in Nat /\ h \in Nat
  BY <1>1, <1>2
<1>6. f <= g /\ h <= z /\ at * z <= f * CR
  BY <1>2, <1>3
<1> HIDE DEF f, g, h
<1>7. at * h <= g * CR
  <2>1. at * h <= at * z
    BY <1>4, <1>5, <1>6, TimesMonotone
  <2>2. CR * f <= CR * g
    BY <1>1, <1>5, <1>6, TimesMonotone
  <2>3. at * h \in Nat /\ at * z \in Nat /\ f * CR \in Nat /\ g * CR \in Nat
        /\ f * CR = CR * f /\ g * CR = CR * g
    BY <1>1, <1>4, <1>5
  <2> QED BY <1>6, <2>1, <2>2, <2>3
<1> DEFINE p == c * PRECISION * CR
           q == d * at * PERCENT
           x == at * h
           y == g * CR
<1>8. p \in Nat /\ q \in Nat /\ x \in Nat /\ y \in Nat /\ p >= q /\ x <= y
  BY <1>1, <1>5, <1>7 DEF MintSolvent
<1>9. (c + eth) * PRECISION * CR = p + y
  BY <1>1, <1>2 DEF g
<1>10. (d + bo) * at * PERCENT = q + x
  BY <1>1, <1>2 DEF h
<1> HIDE DEF p, q, x, y
<1>11. (c + eth) * PRECISION * CR >= (d + bo) * at * PERCENT
  BY <1>8, <1>9, <1>10
<1> QED BY <1>11 DEF MintSolvent, bo

LEMMA MintFitsGoes ==
  ASSUME Mint!OriginsAssumption, MintInv, NEW b \in MintSent(originsMade), Mint!Fits(b)
  PROVE  Mint!executeMulticall(b, FALSE).ok
<1> DEFINE m == origins[b.market]
           c == m.collateral
           d == m.debt
<1>1. /\ b.market \in Mint!Origins
      /\ b.extra \in Nat /\ b.usdc \in Nat /\ b.rate \in Rates /\ b.delta \in Deltas
      /\ b.borrowExtra \in Nat /\ b.borrowUsdc \in Nat
      /\ b.borrowExtra = Mint!borrowAmount(b.rate, b.extra, b.delta)
      /\ b.borrowUsdc = Mint!borrowAmount(b.rate, b.usdc, b.delta)
  BY MintSentGives
<1>2. /\ m \in MintMarkets /\ wallet \in MintWallets
      /\ oracle \in Rates \cup {0}
  BY <1>1 DEF MintInv, MintOwed, MintScript
<1>3. /\ m = MintMarket(m.rate, c, d, m.minter, FALSE)
      /\ m.rate \in Rates \cup {0} /\ c \in Nat /\ d \in Nat
  <2> HIDE DEF m
  <2> QED BY <1>2, MintMarketsGive, Zenon
<1>4. /\ wallet = MintWallet(wallet.eth, wallet.teth, 0, wallet.usdo, 0)
      /\ wallet.eth \in Nat /\ wallet.teth \in Nat /\ wallet.usdo \in Nat
  BY <1>2, MintWalletsGive
<1>5. oracle \in Nat /\ MinBorrow \in Nat
  BY <1>2 DEF Mint!OriginsAssumption
<1>6. MintLends(b.borrowExtra, oracle) /\ MintLends(b.borrowUsdc, oracle)
  BY <1>1, <1>5 DEF Mint!Fits, MintLends
<1>7. /\ wallet.eth >= b.extra + b.usdc
      /\ MintSolvent(c, d, oracle)
      /\ Mint!WithinDelta(b.rate, oracle, b.extra, b.delta)
      /\ Mint!WithinDelta(b.rate, oracle, b.usdc, b.delta)
  BY DEF Mint!Fits, Mint!solvent, MintSolvent
<1> HIDE DEF m, c, d
<1>8. MintSolvent(c + b.extra, d + b.borrowExtra, oracle)
  BY <1>1, <1>3, <1>5, <1>7, MintStaysSolvent
<1>9. MintSolvent(c + b.extra + b.usdc, d + b.borrowExtra + b.borrowUsdc, oracle)
  <2>1. c + b.extra \in Nat /\ d + b.borrowExtra \in Nat
    BY <1>1, <1>3
  <2> QED BY <1>1, <1>5, <1>7, <1>8, <2>1, MintStaysSolvent
<1>10. MintGood(b, FALSE, m.rate, c, d, wallet.eth)
  <2>1. b.extra + b.usdc <= wallet.eth
    BY <1>1, <1>4, <1>7
  <2> QED BY <1>6, <1>8, <1>9, <2>1, Zenon DEF MintGood
<1>11. MintShut(Mint!executeMulticall(b, FALSE), oracle, c + b.extra + b.usdc,
                d + b.borrowExtra + b.borrowUsdc, wallet.eth - (b.extra + b.usdc),
                wallet.teth + TestnetMint, 0, wallet.usdo + b.borrowExtra + b.borrowUsdc, 0)
  <2>1. origins[b.market] = MintMarket(m.rate, c, d, m.minter, FALSE)
    BY <1>3 DEF m
  <2>2. FALSE \in BOOLEAN
    OBVIOUS
  <2> QED BY <1>1, <1>3, <1>4, <1>10, <2>1, <2>2, MintBatch, Zenon
<1> QED BY <1>11, MintShutGives

LEMMA MintInvGives ==
  ASSUME Mint!OriginsAssumption, MintInv
  PROVE  Mint!TypeOK /\ Mint!SupplyIsOwed /\ Mint!NothingLeftOver /\ Mint!DeltaHolds
<1>1. /\ origins \in [Mint!Origins -> MintMarkets] /\ originsMade \in 0 .. MaxOrigins
      /\ wallet \in MintWallets /\ signer \in Nat
      /\ wallet.usdo + signer = SumOver(Mint!debts)
      /\ originsPool \in Seq(MintSent(originsMade))
  BY DEF MintInv, MintOwed
<1>2. /\ wallet = MintWallet(wallet.eth, wallet.teth, 0, wallet.usdo, 0)
      /\ wallet.eth \in Nat /\ wallet.teth \in Nat /\ wallet.usdo \in Nat
      /\ wallet.ybTeth = 0 /\ wallet.ybUsdo = 0
  BY <1>1, MintWalletsGive
<1>3. Mint!SupplyIsOwed
  BY <1>1, <1>2, MintSum DEF Mint!SupplyIsOwed
<1>4. Mint!NothingLeftOver
  <2>1. \A o \in Mint!Origins : ~origins[o].approved
    BY <1>1, MintMarketsGive, Zenon
  <2> QED BY <1>2, <2>1 DEF Mint!NothingLeftOver
<1>5. Mint!DeltaHolds
  <2> SUFFICES ASSUME NEW i \in 1 .. Len(originsPool), Mint!Fits(originsPool[i])
               PROVE  Mint!executeMulticall(originsPool[i], FALSE).ok
    BY DEF Mint!DeltaHolds
  <2>1. originsPool[i] \in MintSent(originsMade)
    BY <1>1
  <2> QED BY <2>1, MintFitsGoes
<1>6. Mint!TypeOK
  <2>1. origins \in [Mint!Origins -> [rate : Rates \cup {0}, collateral : Nat, debt : Nat,
                                      minter : BOOLEAN, approved : BOOLEAN]]
    <3>1. MintMarkets \subseteq [rate : Rates \cup {0}, collateral : Nat, debt : Nat,
                                 minter : BOOLEAN, approved : BOOLEAN]
      BY Zenon DEF MintMarkets
    <3> QED BY <1>1, <3>1
  <2>2. wallet \in [eth : Nat, teth : Nat, ybTeth : Nat, usdo : Nat, ybUsdo : Nat]
    <3>1. ASSUME NEW e \in Nat, NEW t \in Nat, NEW yt \in Nat, NEW u \in Nat, NEW yu \in Nat
          PROVE  MintWallet(e, t, yt, u, yu)
                   \in [eth : Nat, teth : Nat, ybTeth : Nat, usdo : Nat, ybUsdo : Nat]
      BY DEF MintWallet
    <3>2. 0 \in Nat
      OBVIOUS
    <3>3. PICK e \in Nat, y \in Nat, u \in Nat : wallet = MintWallet(e, y, 0, u, 0)
      BY <1>1 DEF MintWallets
    <3> QED BY <3>1, <3>2, <3>3, Zenon
  <2>3. originsPool \in Seq(Mint!Batch)
    <3>1. MintSent(originsMade) \subseteq Mint!Batch
      BY Zenon DEF MintSent
    <3> QED BY <1>1, <3>1
  <2>4. MintScript
    BY DEF MintInv
  <2> QED BY <1>1, <2>1, <2>2, <2>3, <2>4 DEF Mint!TypeOK, MintScript
<1> QED BY <1>3, <1>4, <1>5, <1>6

-----------------------------------------------------------------------------
(***************************************************************************)
(* FinalRollout.                                                           *)
(***************************************************************************)
(* What each chain's tokens add up to. *)
FinalBacked ==
  /\ wrapped["side"] = tSglSdai["side"] + tSglSdai["host"] + WrapSide * sent
  /\ wrapped["host"] = tSglSglp
  /\ receipts["side"] + wrapped["side"] = ReceiptsPer * lent["side"]
  /\ receipts["host"] + wrapped["host"] = ReceiptsPer * lent["host"]

(* What the script has done at its steps. *)
FinalDone(at) ==
  /\ at \in {"lend", "lendWait", "send", "sendWait"} => finalChain = "side"
  /\ at \in {"seed", "seedWait", "empty", "emptyWait"} => finalChain = "host"
  /\ at \in {"empty", "emptyWait"} => oracles = BBs

FinalTokens ==
  /\ usdo \in [Final!Chains -> Nat] /\ receipts \in [Final!Chains -> Nat]
  /\ wrapped \in [Final!Chains -> Nat] /\ lent \in [Final!Chains -> Nat]
  /\ tSglSdai \in [Final!Chains -> Nat] /\ tSglSglp \in Nat /\ sent \in Nat
  /\ oracles \subseteq BBs

FinalScript ==
  /\ finalPool \in [Final!Chains -> Seq(Final!Sends)]
  /\ finalPc \in Final!Steps /\ finalChain \in Final!Chains /\ done \subseteq Final!Chains
  /\ finalBudget \in [rounds : 0 .. MaxRounds, crashes : 0 .. MaxCrashes, late : 0 .. MaxLate]

FinalInv ==
  /\ FinalTokens /\ FinalScript /\ FinalBacked /\ FinalDone(finalPc)
  /\ Final!OraclesNeedLender /\ Final!DoneMeansSeeded

(* The steps of the script, in full. *)
LEMMA FinalSteps ==
  /\ Final!Chains = {"side", "host"}
  /\ Final!Sends = {"lend", "send", "seed", "empty"}
  /\ Final!Steps = {"idle", "lend", "send", "seed", "empty",
                    "lendWait", "sendWait", "seedWait", "emptyWait"}
  /\ Final!Waiting["lend"] = "lendWait" /\ Final!Waiting["send"] = "sendWait"
  /\ Final!Waiting["seed"] = "seedWait" /\ Final!Waiting["empty"] = "emptyWait"
<1>1. /\ Final!Waiting["lend"] = "lendWait" /\ Final!Waiting["send"] = "sendWait"
      /\ Final!Waiting["seed"] = "seedWait" /\ Final!Waiting["empty"] = "emptyWait"
  BY DEF Final!Waiting
<1>2. {Final!Waiting[step] : step \in Final!Sends} =
        {"lendWait", "sendWait", "seedWait", "emptyWait"}
  BY <1>1 DEF Final!Sends
<1>3. Final!Steps = {"idle", "lend", "send", "seed", "empty",
                     "lendWait", "sendWait", "seedWait", "emptyWait"}
  BY <1>2 DEF Final!Steps, Final!Sends
<1> QED BY <1>1, <1>3 DEF Final!Chains, Final!Sends

LEMMA FinalAmounts ==
  ASSUME Final!FinalAssumption
  PROVE  /\ LendSide \in Nat /\ LendSide > 0 /\ WrapSide \in Nat /\ WrapSide > 0
         /\ LendHost \in Nat /\ LendHost > 0 /\ WrapHost \in Nat /\ WrapHost > 0
         /\ ReceiptsPer \in Nat /\ MaxRounds \in Nat /\ MaxCrashes \in Nat /\ MaxLate \in Nat
         /\ ReceiptsPer * LendSide \in Nat /\ ReceiptsPer * LendHost \in Nat
         /\ WrapSide <= ReceiptsPer * LendSide /\ WrapHost <= ReceiptsPer * LendHost
  BY DEF Final!FinalAssumption

(* A transaction that is executed keeps every wrapped receipt somewhere. *)
LEMMA FinalExecute ==
  ASSUME Final!FinalAssumption, FinalTokens, FinalBacked, Final!OraclesNeedLender,
         NEW tx \in Final!Sends, Final!Execute(tx)
  PROVE  /\ FinalTokens' /\ FinalBacked' /\ Final!OraclesNeedLender'
         /\ oracles' = oracles \/ oracles' = BBs
         /\ tSglSdai'["host"] + WrapSide * sent' >= tSglSdai["host"] + WrapSide * sent
         /\ Final!CanExecute(tx) /\ tx = "seed" => oracles' = BBs
         /\ Final!CanExecute(tx) /\ tx = "send" =>
              tSglSdai'["host"] + WrapSide * sent' >= WrapSide
<1>1. /\ LendSide \in Nat /\ LendSide > 0 /\ WrapSide \in Nat /\ WrapSide > 0
      /\ LendHost \in Nat /\ LendHost > 0 /\ WrapHost \in Nat /\ WrapHost > 0
      /\ ReceiptsPer \in Nat
      /\ ReceiptsPer * LendSide \in Nat /\ ReceiptsPer * LendHost \in Nat
      /\ WrapSide <= ReceiptsPer * LendSide /\ WrapHost <= ReceiptsPer * LendHost
  BY FinalAmounts
<1> DEFINE u == usdo["side"]  uh == usdo["host"]  r == receipts["side"]  rh == receipts["host"]
           w == wrapped["side"]  wh == wrapped["host"]  l == lent["side"]  lh == lent["host"]
           t == tSglSdai["side"]  th == tSglSdai["host"]
           gainS == ReceiptsPer * LendSide  gainH == ReceiptsPer * LendHost
<1>2. /\ u \in Nat /\ uh \in Nat /\ r \in Nat /\ rh \in Nat /\ w \in Nat /\ wh \in Nat
      /\ l \in Nat /\ lh \in Nat /\ t \in Nat /\ th \in Nat /\ sent \in Nat /\ tSglSglp \in Nat
  BY DEF FinalTokens, Final!Chains
<1>3. /\ \A n \in Nat : ReceiptsPer * (l + n) = ReceiptsPer * l + ReceiptsPer * n
      /\ \A n \in Nat : ReceiptsPer * (lh + n) = ReceiptsPer * lh + ReceiptsPer * n
      /\ WrapSide * (sent + 1) = WrapSide * sent + WrapSide
      /\ WrapSide * sent \in Nat /\ ReceiptsPer * l \in Nat /\ ReceiptsPer * lh \in Nat
  BY <1>1, <1>2
<1>4. CASE UNCHANGED Final!contracts /\ ~(Final!CanExecute(tx) /\ tx \in {"seed", "send"})
  <2>1. UNCHANGED <<usdo, receipts, wrapped, tSglSdai, tSglSglp, sent, lent, oracles>>
    BY <1>4 DEF Final!contracts, Final!tokens
  <2>2. FinalTokens' /\ FinalBacked' /\ Final!OraclesNeedLender'
    BY <2>1 DEF FinalTokens, FinalBacked, Final!OraclesNeedLender
  <2>3. tSglSdai'["host"] + WrapSide * sent' >= tSglSdai["host"] + WrapSide * sent
    BY <1>2, <1>3, <2>1
  <2> QED BY <1>4, <2>1, <2>2, <2>3
<1>5. CASE tx = "lend" /\ Final!CanLend("side") /\ Final!LendOnSide
  <2>1. /\ usdo' = [usdo EXCEPT !["side"] = u - LendSide]
        /\ lent' = [lent EXCEPT !["side"] = l + LendSide]
        /\ receipts' = [receipts EXCEPT !["side"] = r + gainS - 0]
        /\ wrapped' = [wrapped EXCEPT !["side"] = w + 0]
        /\ UNCHANGED <<tSglSdai, tSglSglp, sent, oracles>>
        /\ u >= LendSide
    BY <1>5 DEF Final!LendOnSide, Final!Lends, Final!Lend, Final!CanLend
  <2> HIDE DEF u, uh, r, rh, w, wh, l, lh, t, th, gainS
  <2>2. /\ u - LendSide \in Nat /\ l + LendSide \in Nat /\ r + gainS - 0 \in Nat /\ w + 0 = w
        /\ r + gainS - 0 = r + gainS
    BY <1>1, <1>2, <2>1 DEF gainS
  <2>3. FinalTokens'
    BY <2>1, <2>2, <1>2 DEF FinalTokens
  <2>4. /\ lent'["side"] = l + LendSide /\ lent'["host"] = lh
        /\ receipts'["side"] = r + gainS /\ receipts'["host"] = rh
        /\ wrapped'["side"] = w /\ wrapped'["host"] = wh
    BY <2>1, <2>2 DEF FinalTokens, Final!Chains, lh, rh, wh
  <2>5. /\ w = t + th + WrapSide * sent /\ wh = tSglSglp
        /\ r + w = ReceiptsPer * l /\ rh + wh = ReceiptsPer * lh
    BY DEF FinalBacked, w, wh, r, rh, l, lh, t, th
  <2>6. tSglSdai'["side"] = t /\ tSglSdai'["host"] = th
    BY <2>1 DEF t, th
  <2>7. (r + gainS) + w = ReceiptsPer * (l + LendSide)
    BY <1>1, <1>2, <1>3, <2>5 DEF gainS
  <2>8. FinalBacked'
    BY <2>1, <2>4, <2>5, <2>6, <2>7 DEF FinalBacked
  <2>9. Final!OraclesNeedLender'
    BY <2>1, <2>4 DEF Final!OraclesNeedLender, lh
  <2>10. tSglSdai'["host"] + WrapSide * sent' >= tSglSdai["host"] + WrapSide * sent
    BY <1>2, <1>3, <2>1 DEF th
  <2> QED BY <1>5, <2>1, <2>3, <2>8, <2>9, <2>10
<1>6. CASE tx = "send" /\ r >= WrapSide /\ Final!sendOftToken
  <2>1. /\ receipts' = [receipts EXCEPT !["side"] = r - WrapSide]
        /\ wrapped' = [wrapped EXCEPT !["side"] = w + WrapSide]
        /\ sent' = sent + 1
        /\ UNCHANGED <<usdo, lent, tSglSdai, tSglSglp, oracles>>
    BY <1>6 DEF Final!sendOftToken
  <2> HIDE DEF u, uh, r, rh, w, wh, l, lh, t, th, gainS
  <2>2. r - WrapSide \in Nat /\ w + WrapSide \in Nat /\ sent + 1 \in Nat
    BY <1>1, <1>2, <1>6
  <2>3. FinalTokens'
    BY <2>1, <2>2 DEF FinalTokens
  <2>4. /\ lent'["side"] = l /\ lent'["host"] = lh
        /\ receipts'["side"] = r - WrapSide /\ receipts'["host"] = rh
        /\ wrapped'["side"] = w + WrapSide /\ wrapped'["host"] = wh
        /\ tSglSdai'["side"] = t /\ tSglSdai'["host"] = th
    BY <2>1 DEF FinalTokens, Final!Chains, lh, l, rh, wh, t, th
  <2>5. /\ w = t + th + WrapSide * sent /\ wh = tSglSglp
        /\ r + w = ReceiptsPer * l /\ rh + wh = ReceiptsPer * lh
    BY DEF FinalBacked, w, wh, r, rh, l, lh, t, th
  <2>6. /\ w + WrapSide = t + th + WrapSide * (sent + 1)
        /\ (r - WrapSide) + (w + WrapSide) = ReceiptsPer * l
        /\ th + WrapSide * (sent + 1) >= th + WrapSide * sent
        /\ th + WrapSide * (sent + 1) >= WrapSide
    BY <1>1, <1>2, <1>3, <2>5
  <2>7. FinalBacked'
    BY <2>1, <2>4, <2>5, <2>6 DEF FinalBacked
  <2>8. Final!OraclesNeedLender'
    BY <2>1 DEF Final!OraclesNeedLender
  <2>9. /\ tSglSdai'["host"] + WrapSide * sent' >= tSglSdai["host"] + WrapSide * sent
        /\ tSglSdai'["host"] + WrapSide * sent' >= WrapSide
    BY <2>1, <2>4, <2>6 DEF th
  <2> QED BY <1>6, <2>1, <2>3, <2>7, <2>8, <2>9
<1>7. CASE tx = "seed" /\ Final!CanLend("host") /\ Final!SeedHost
  <2>1. /\ usdo' = [usdo EXCEPT !["host"] = uh - LendHost]
        /\ lent' = [lent EXCEPT !["host"] = lh + LendHost]
        /\ receipts' = [receipts EXCEPT !["host"] = rh + gainH - WrapHost]
        /\ wrapped' = [wrapped EXCEPT !["host"] = wh + WrapHost]
        /\ tSglSglp' = tSglSglp + WrapHost /\ oracles' = BBs
        /\ UNCHANGED <<tSglSdai, sent>>
        /\ uh >= LendHost
    BY <1>7 DEF Final!SeedHost, Final!SeedsHost, Final!Lends, Final!Lend, Final!CanLend
  <2> HIDE DEF u, uh, r, rh, w, wh, l, lh, t, th, gainH
  <2>2. /\ uh - LendHost \in Nat /\ lh + LendHost \in Nat /\ rh + gainH - WrapHost \in Nat
        /\ wh + WrapHost \in Nat /\ tSglSglp + WrapHost \in Nat
    BY <1>1, <1>2, <2>1 DEF gainH
  <2>3. FinalTokens'
    BY <2>1, <2>2 DEF FinalTokens
  <2>4. /\ lent'["side"] = l /\ lent'["host"] = lh + LendHost
        /\ receipts'["side"] = r /\ receipts'["host"] = rh + gainH - WrapHost
        /\ wrapped'["side"] = w /\ wrapped'["host"] = wh + WrapHost
        /\ tSglSdai'["side"] = t /\ tSglSdai'["host"] = th
    BY <2>1 DEF FinalTokens, Final!Chains, l, r, w, t, th
  <2>5. /\ w = t + th + WrapSide * sent /\ wh = tSglSglp
        /\ r + w = ReceiptsPer * l /\ rh + wh = ReceiptsPer * lh
    BY DEF FinalBacked, w, wh, r, rh, l, lh, t, th
  <2>6. /\ wh + WrapHost = tSglSglp + WrapHost
        /\ (rh + gainH - WrapHost) + (wh + WrapHost) = ReceiptsPer * (lh + LendHost)
        /\ lh + LendHost >= LendHost /\ tSglSglp + WrapHost >= WrapHost
    BY <1>1, <1>2, <1>3, <2>5 DEF gainH
  <2>7. FinalBacked'
    BY <2>1, <2>4, <2>5, <2>6 DEF FinalBacked
  <2>8. Final!OraclesNeedLender'
    BY <2>1, <2>4, <2>6 DEF Final!OraclesNeedLender
  <2>9. tSglSdai'["host"] + WrapSide * sent' >= tSglSdai["host"] + WrapSide * sent
    BY <1>2, <1>3, <2>1 DEF th
  <2> QED BY <1>7, <2>1, <2>3, <2>7, <2>8, <2>9
<1>8. \/ UNCHANGED Final!contracts /\ ~(Final!CanExecute(tx) /\ tx \in {"seed", "send"})
      \/ tx = "lend" /\ Final!CanLend("side") /\ Final!LendOnSide
      \/ tx = "send" /\ r >= WrapSide /\ Final!sendOftToken
      \/ tx = "seed" /\ Final!CanLend("host") /\ Final!SeedHost
  BY DEF Final!Execute, Final!CanExecute, Final!LendOnSide, Final!sendOftToken, Final!SeedHost,
         Final!Sends
<1> QED BY <1>4, <1>5, <1>6, <1>7, <1>8

(* What happened to the tokens is not undone by what leaves them alone. *)
LEMMA FinalTokensRest ==
  ASSUME UNCHANGED Final!contracts
  PROVE  /\ FinalTokens => FinalTokens'
         /\ FinalBacked => FinalBacked'
         /\ Final!OraclesNeedLender => Final!OraclesNeedLender'
         /\ oracles' = oracles
         /\ tSglSdai' = tSglSdai /\ sent' = sent
  BY DEF Final!contracts, Final!tokens, FinalTokens, FinalBacked, Final!OraclesNeedLender

LEMMA FinalDoneKept ==
  ASSUME FinalDone(finalPc), oracles' = oracles \/ oracles' = BBs,
         UNCHANGED <<finalPc, finalChain>>
  PROVE  FinalDone(finalPc)'
  BY DEF FinalDone

LEMMA FinalIdle ==
  ASSUME finalPc' = "idle"
  PROVE  FinalDone(finalPc)'
  BY DEF FinalDone

LEMMA FinalMinedStep ==
  ASSUME Final!FinalAssumption, FinalInv, NEW c \in Final!Chains, NEW late \in BOOLEAN,
         Final!Mined(c, late)
  PROVE  FinalInv'
<1> DEFINE tx == Head(finalPool[c])
           ok == ~late /\ Final!CanExecute(tx)
           resumed == c = finalChain /\ finalPc = Final!Waiting[tx] /\ Len(finalPool[c]) = 1
<1>1. finalPool \in [Final!Chains -> Seq(Final!Sends)] /\ finalPool[c] # <<>>
  BY DEF FinalInv, FinalScript, Final!Mined
<1>2. tx \in Final!Sends /\ Tail(finalPool[c]) \in Seq(Final!Sends)
  BY <1>1
<1>3. /\ IF ~late THEN Final!Execute(tx) ELSE UNCHANGED Final!contracts
      /\ IF resumed THEN Final!Resume(tx, ok) ELSE UNCHANGED <<finalPc, finalChain, done>>
      /\ finalPool' = [finalPool EXCEPT ![c] = Tail(finalPool[c])]
      /\ finalBudget' = [finalBudget EXCEPT !.late = IF late THEN finalBudget.late - 1
                                                     ELSE finalBudget.late]
      /\ late => finalBudget.late > 0
  BY DEF Final!Mined
<1> HIDE DEF tx
<1>4. finalPool' \in [Final!Chains -> Seq(Final!Sends)]
  BY <1>1, <1>2, <1>3
<1>5. finalBudget' \in [rounds : 0 .. MaxRounds, crashes : 0 .. MaxCrashes, late : 0 .. MaxLate]
  <2>1. /\ finalBudget \in [rounds : 0 .. MaxRounds, crashes : 0 .. MaxCrashes,
                            late : 0 .. MaxLate]
        /\ MaxLate \in Nat
    BY FinalAmounts DEF FinalInv, FinalScript
  <2>2. finalBudget.late \in 0 .. MaxLate
    BY <2>1
  <2>3. CASE late
    <3>1. finalBudget.late - 1 \in 0 .. MaxLate
      BY <1>3, <2>1, <2>2, <2>3
    <3>2. finalBudget' = [finalBudget EXCEPT !.late = finalBudget.late - 1]
      BY <1>3, <2>3
    <3> QED BY <2>1, <3>1, <3>2
  <2>4. CASE ~late
    BY <1>3, <2>1, <2>4
  <2> QED BY <2>3, <2>4
<1>6. /\ FinalTokens' /\ FinalBacked' /\ Final!OraclesNeedLender'
      /\ oracles' = oracles \/ oracles' = BBs
      /\ tSglSdai'["host"] + WrapSide * sent' >= tSglSdai["host"] + WrapSide * sent
      /\ ok /\ tx = "seed" => oracles' = BBs
      /\ ok /\ tx = "send" => tSglSdai'["host"] + WrapSide * sent' >= WrapSide
  <2>1. CASE ~late
    <3>1. Final!Execute(tx)
      BY <1>3, <2>1
    <3> QED BY <1>2, <3>1, FinalExecute DEF FinalInv
  <2>2. CASE late
    <3>1. UNCHANGED Final!contracts
      BY <1>3, <2>2
    <3>2. tSglSdai["host"] \in Nat /\ sent \in Nat /\ WrapSide \in Nat
      BY FinalAmounts DEF FinalInv, FinalTokens, Final!Chains
    <3>3. tSglSdai'["host"] + WrapSide * sent' >= tSglSdai["host"] + WrapSide * sent
      BY <3>1, <3>2, FinalTokensRest
    <3> QED BY <2>2, <3>1, <3>3, FinalTokensRest DEF FinalInv
  <2> QED BY <2>1, <2>2
<1>7. FinalDone(finalPc) /\ Final!DoneMeansSeeded
      /\ finalPc \in Final!Steps /\ finalChain \in Final!Chains /\ done \subseteq Final!Chains
  BY DEF FinalInv, FinalScript
<1>n. /\ tSglSdai["host"] \in Nat /\ tSglSdai'["host"] \in Nat
      /\ WrapSide * sent \in Nat /\ WrapSide * sent' \in Nat /\ WrapSide \in Nat
  BY <1>6, FinalAmounts DEF FinalInv, FinalTokens, Final!Chains
<1>8. CASE ~resumed
  <2>1. UNCHANGED <<finalPc, finalChain, done>>
    BY <1>3, <1>8
  <2>2. FinalDone(finalPc)'
    BY <1>6, <1>7, <2>1, FinalDoneKept
  <2>3. Final!DoneMeansSeeded'
    BY <1>6, <1>7, <1>n, <2>1 DEF Final!DoneMeansSeeded
  <2> QED BY <1>4, <1>5, <1>6, <1>7, <2>1, <2>2, <2>3 DEF FinalInv, FinalScript
<1>9. CASE resumed /\ ~ok
  <2>1. finalPc' = "idle" /\ UNCHANGED <<finalChain, done>>
    BY <1>3, <1>9 DEF Final!Resume, Final!Throw
  <2>2. Final!DoneMeansSeeded'
    BY <1>6, <1>7, <1>n, <2>1 DEF Final!DoneMeansSeeded
  <2>3. finalPc' \in Final!Steps
    BY <2>1, FinalSteps
  <2> QED BY <1>4, <1>5, <1>6, <1>7, <2>1, <2>2, <2>3, FinalIdle DEF FinalInv, FinalScript
<1>10. CASE resumed /\ ok
  <2>1. Final!Resume(tx, TRUE)
    BY <1>3, <1>10
  <2>2. CASE tx = "lend"
    <3>1. finalPc' = "send" /\ UNCHANGED <<finalChain, done>> /\ finalPc = "lendWait"
      BY <2>1, <2>2, <1>10, FinalSteps DEF Final!Resume, Final!Following
    <3>2. FinalDone(finalPc)'
      BY <1>7, <3>1 DEF FinalDone
    <3>3. Final!DoneMeansSeeded'
      BY <1>6, <1>7, <1>n, <3>1 DEF Final!DoneMeansSeeded
    <3>4. finalPc' \in Final!Steps
      BY <3>1, FinalSteps
    <3> QED BY <1>4, <1>5, <1>6, <1>7, <3>1, <3>2, <3>3, <3>4 DEF FinalInv, FinalScript
  <2>3. CASE tx = "seed"
    <3>1. finalPc' = "empty" /\ UNCHANGED <<finalChain, done>> /\ finalPc = "seedWait"
      BY <2>1, <2>3, <1>10, FinalSteps DEF Final!Resume, Final!Following
    <3>2. FinalDone(finalPc)'
      BY <1>6, <1>7, <1>10, <2>3, <3>1 DEF FinalDone
    <3>3. Final!DoneMeansSeeded'
      BY <1>6, <1>7, <1>n, <3>1 DEF Final!DoneMeansSeeded
    <3>4. finalPc' \in Final!Steps
      BY <3>1, FinalSteps
    <3> QED BY <1>4, <1>5, <1>6, <1>7, <3>1, <3>2, <3>3, <3>4 DEF FinalInv, FinalScript
  <2>4. CASE tx = "send"
    <3>1. /\ finalPc' = "idle" /\ done' = done \cup {finalChain} /\ finalChain' = finalChain
          /\ finalPc = "sendWait"
      BY <2>1, <2>4, <1>10, FinalSteps DEF Final!Resume, Final!Following
    <3>2. finalChain = "side"
      BY <1>7, <3>1 DEF FinalDone
    <3>3. Final!DoneMeansSeeded'
      BY <1>6, <1>7, <1>n, <1>10, <2>4, <3>1, <3>2 DEF Final!DoneMeansSeeded
    <3>4. finalPc' \in Final!Steps /\ done' \subseteq Final!Chains
      BY <1>7, <3>1, FinalSteps
    <3> QED BY <1>4, <1>5, <1>6, <1>7, <3>1, <3>3, <3>4, FinalIdle DEF FinalInv, FinalScript
  <2>5. CASE tx = "empty"
    <3>1. /\ finalPc' = "idle" /\ done' = done \cup {finalChain} /\ finalChain' = finalChain
          /\ finalPc = "emptyWait"
      BY <2>1, <2>5, <1>10, FinalSteps DEF Final!Resume, Final!Following
    <3>2. finalChain = "host" /\ oracles' = BBs
      BY <1>6, <1>7, <3>1 DEF FinalDone
    <3>3. Final!DoneMeansSeeded'
      BY <1>6, <1>7, <1>n, <3>1, <3>2 DEF Final!DoneMeansSeeded
    <3>4. finalPc' \in Final!Steps /\ done' \subseteq Final!Chains
      BY <1>7, <3>1, FinalSteps
    <3> QED BY <1>4, <1>5, <1>6, <1>7, <3>1, <3>3, <3>4, FinalIdle DEF FinalInv, FinalScript
  <2> QED BY <1>2, <2>2, <2>3, <2>4, <2>5 DEF Final!Sends
<1> HIDE DEF ok, resumed
<1> QED BY <1>8, <1>9, <1>10

LEMMA FinalInvInit ==
  ASSUME Final!FinalAssumption, Final!Init
  PROVE  FinalInv
<1>1. FinalTokens
  BY DEF Final!Init, Final!Zero, FinalTokens
<1>2. FinalScript
  BY FinalAmounts, FinalSteps DEF Final!Init, FinalScript
<1>3. FinalBacked
  <2>1. /\ WrapSide * 0 = 0 /\ ReceiptsPer * 0 = 0
    BY FinalAmounts
  <2>2. Final!Zero["side"] = 0 /\ Final!Zero["host"] = 0
    BY DEF Final!Zero, Final!Chains
  <2> QED BY <2>1, <2>2 DEF Final!Init, FinalBacked
<1> QED BY <1>1, <1>2, <1>3 DEF Final!Init, FinalInv, FinalDone, Final!OraclesNeedLender,
                                Final!DoneMeansSeeded

LEMMA FinalInvNext ==
  ASSUME Final!FinalAssumption, FinalInv, Final!Next
  PROVE  FinalInv'
<1>0. /\ finalBudget \in [rounds : 0 .. MaxRounds, crashes : 0 .. MaxCrashes, late : 0 .. MaxLate]
      /\ finalBudget.rounds \in 0 .. MaxRounds /\ finalBudget.crashes \in 0 .. MaxCrashes
      /\ MaxRounds \in Nat /\ MaxCrashes \in Nat
  BY FinalAmounts DEF FinalInv, FinalScript
<1>1. ASSUME NEW c \in Final!Chains, Final!deployFinal(c)
      PROVE  FinalInv'
  <2>1. /\ finalPc' = (IF c = "side" THEN "lend" ELSE "seed") /\ finalChain' = c
        /\ UNCHANGED <<Final!contracts, finalPool, done>>
        /\ \/ finalBudget.rounds > 0 /\ finalBudget' = [finalBudget EXCEPT !.rounds = finalBudget.rounds - 1]
           \/ finalBudget' = finalBudget
    BY <1>1 DEF Final!deployFinal
  <2>2. finalBudget' \in [rounds : 0 .. MaxRounds, crashes : 0 .. MaxCrashes, late : 0 .. MaxLate]
    <3>1. CASE finalBudget.rounds > 0 /\ finalBudget' = [finalBudget EXCEPT !.rounds = finalBudget.rounds - 1]
      <4>1. finalBudget.rounds - 1 \in 0 .. MaxRounds
        BY <1>0, <3>1
      <4> QED BY <1>0, <3>1, <4>1
    <3> QED BY <1>0, <2>1, <3>1
  <2>3. finalPc' \in Final!Steps /\ FinalDone(finalPc)'
    BY <2>1, FinalSteps DEF FinalDone
  <2>4. Final!DoneMeansSeeded'
    BY <2>1, FinalTokensRest DEF FinalInv, Final!DoneMeansSeeded
  <2> QED BY <2>1, <2>2, <2>3, <2>4, FinalTokensRest DEF FinalInv, FinalScript
<1>2. ASSUME NEW c \in Final!Chains, Final!Fund(c)
      PROVE  FinalInv'
  <2>1. /\ usdo' = [usdo EXCEPT ![c] = Final!Lend(c)]
        /\ UNCHANGED <<receipts, wrapped, tSglSdai, tSglSglp, sent, lent, oracles,
                       finalPool, finalPc, finalChain, done, finalBudget>>
    BY <1>2 DEF Final!Fund
  <2>2. Final!Lend(c) \in Nat
    BY FinalAmounts DEF Final!Lend
  <2>3. FinalTokens'
    BY <2>1, <2>2 DEF FinalInv, FinalTokens
  <2> QED BY <2>1, <2>3 DEF FinalInv, FinalScript, FinalBacked, FinalDone,
                            Final!OraclesNeedLender, Final!DoneMeansSeeded
<1>3. ASSUME NEW step \in Final!Sends, Final!executeMulticall(step)
      PROVE  FinalInv'
  <2>1. UNCHANGED <<Final!contracts, finalBudget>> /\ finalPc = step
    BY <1>3 DEF Final!executeMulticall
  <2>2. CASE finalPc' = "idle" /\ UNCHANGED <<finalChain, done, finalPool>>
    <3>1. Final!DoneMeansSeeded'
      BY <2>1, <2>2, FinalTokensRest DEF FinalInv, Final!DoneMeansSeeded
    <3>2. finalPc' \in Final!Steps
      BY <2>2, FinalSteps
    <3> QED BY <2>1, <2>2, <3>1, <3>2, FinalTokensRest, FinalIdle DEF FinalInv, FinalScript
  <2>3. CASE /\ finalPool' = [finalPool EXCEPT ![finalChain] = Append(finalPool[finalChain], step)]
             /\ finalPc' = Final!Waiting[step] /\ UNCHANGED <<finalChain, done>>
    <3>1. Final!DoneMeansSeeded'
      BY <2>1, <2>3, FinalTokensRest DEF FinalInv, Final!DoneMeansSeeded
    <3>2. finalPc' \in Final!Steps /\ FinalDone(finalPc)'
      BY <2>1, <2>3, FinalSteps, FinalTokensRest DEF FinalInv, FinalDone
    <3>3. finalPool' \in [Final!Chains -> Seq(Final!Sends)]
      <4>1. finalPool \in [Final!Chains -> Seq(Final!Sends)] /\ finalChain \in Final!Chains
        BY DEF FinalInv, FinalScript
      <4>2. Append(finalPool[finalChain], step) \in Seq(Final!Sends)
        BY <4>1
      <4> QED BY <2>3, <4>1, <4>2
    <3> QED BY <2>1, <2>3, <3>1, <3>2, <3>3, FinalTokensRest DEF FinalInv, FinalScript
  <2> QED BY <1>3, <2>2, <2>3 DEF Final!executeMulticall, Final!Throw
<1>4. CASE Final!Crash
  <2>1. /\ finalPc' = "idle" /\ UNCHANGED <<finalChain, done>> /\ UNCHANGED <<Final!contracts, finalPool>>
        /\ finalBudget.crashes > 0
        /\ finalBudget' = [finalBudget EXCEPT !.crashes = finalBudget.crashes - 1]
    BY <1>4 DEF Final!Crash, Final!Throw
  <2>2. finalBudget' \in [rounds : 0 .. MaxRounds, crashes : 0 .. MaxCrashes, late : 0 .. MaxLate]
    <3>1. finalBudget.crashes - 1 \in 0 .. MaxCrashes
      BY <1>0, <2>1
    <3> QED BY <1>0, <2>1, <3>1
  <2>3. Final!DoneMeansSeeded'
    BY <2>1, FinalTokensRest DEF FinalInv, Final!DoneMeansSeeded
  <2>4. finalPc' \in Final!Steps
    BY <2>1, FinalSteps
  <2> QED BY <2>1, <2>2, <2>3, <2>4, FinalTokensRest, FinalIdle DEF FinalInv, FinalScript
<1>5. CASE Final!lzReceive
  <2> DEFINE th == tSglSdai["host"]
  <2>1. /\ sent > 0 /\ sent' = sent - 1
        /\ tSglSdai' = [tSglSdai EXCEPT !["host"] = th + WrapSide]
        /\ UNCHANGED <<usdo, receipts, wrapped, tSglSglp, lent, oracles, finalPool, finalPc,
                       finalChain, done, finalBudget>>
    BY <1>5 DEF Final!lzReceive
  <2>2. /\ th \in Nat /\ tSglSdai["side"] \in Nat /\ sent \in Nat /\ WrapSide \in Nat
        /\ wrapped["side"] \in Nat
    BY FinalAmounts DEF FinalInv, FinalTokens, Final!Chains
  <2> HIDE DEF th
  <2>3. /\ th + WrapSide \in Nat /\ sent - 1 \in Nat
        /\ (th + WrapSide) + WrapSide * (sent - 1) = th + WrapSide * sent
        /\ WrapSide * sent \in Nat /\ WrapSide * (sent - 1) \in Nat
    BY <2>1, <2>2
  <2>4. FinalTokens'
    BY <2>1, <2>3 DEF FinalInv, FinalTokens
  <2>5. tSglSdai'["side"] = tSglSdai["side"] /\ tSglSdai'["host"] = th + WrapSide
    BY <2>1 DEF FinalInv, FinalTokens, Final!Chains
  <2>6. tSglSdai'["side"] + tSglSdai'["host"] + WrapSide * sent'
           = tSglSdai["side"] + tSglSdai["host"] + WrapSide * sent
    BY <2>1, <2>2, <2>3, <2>5 DEF th
  <2>7. FinalBacked'
    BY <2>1, <2>6 DEF FinalInv, FinalBacked
  <2>8. Final!DoneMeansSeeded'
    BY <2>1, <2>3, <2>5 DEF FinalInv, Final!DoneMeansSeeded, th
  <2> QED BY <2>1, <2>4, <2>7, <2>8 DEF FinalInv, FinalScript, FinalDone, Final!OraclesNeedLender
<1> QED BY <1>1, <1>2, <1>3, <1>4, <1>5, FinalMinedStep DEF Final!Next

LEMMA FinalInvGives ==
  ASSUME Final!FinalAssumption, FinalInv
  PROVE  /\ Final!TypeOK /\ Final!ToftsBacked /\ Final!OraclesNeedLender
         /\ Final!DoneMeansSeeded
<1>1. Final!TypeOK
  BY DEF FinalInv, FinalTokens, FinalScript, Final!TypeOK
<1>2. Final!ToftsBacked
  BY DEF FinalInv, FinalBacked, Final!ToftsBacked, Final!Chains
<1> QED BY <1>1, <1>2 DEF FinalInv

-----------------------------------------------------------------------------
(***************************************************************************)
(* Deployment.                                                             *)
(***************************************************************************)
Has(s, x) == \E i \in DOMAIN s : s[i] = x

(* Calls built from a set are of all its members and of no others. *)
LEMMA DeploySetToSeq ==
  ASSUME NEW S, IsFiniteSet(S)
  PROVE  /\ Deploy!SetToSeq(S) \in Seq(S)
         /\ \A x \in S : Has(Deploy!SetToSeq(S), x)
<1> DEFINE n == Cardinality(S)
           s == Deploy!SetToSeq(S)
<1>1. n \in Nat /\ ExistsBijection(1 .. n, S)
  BY FS_CardinalityType
<1>2. PICK f : f \in Bijection(1 .. n, S)
  BY <1>1 DEF ExistsBijection
<1>3. Deploy!Cardinality(S) = n
  BY DEF Deploy!Cardinality, Cardinality
<1> HIDE DEF n
<1>4. f \in [1 .. n -> S] /\ Deploy!IsInjective(f)
  BY <1>2 DEF Deploy!IsInjective, Bijection, Injection, IsInjective
<1>5. s \in [1 .. n -> S] /\ Deploy!IsInjective(s)
  BY <1>3, <1>4 DEF Deploy!SetToSeq
<1> HIDE DEF s
<1>6. s \in Injection(1 .. n, S)
  BY <1>5 DEF Deploy!IsInjective, Injection, IsInjective
<1>7. IsFiniteSet(1 .. n) /\ Cardinality(1 .. n) = Cardinality(S)
  BY <1>1, FS_Interval DEF n
<1>8. s \in Surjection(1 .. n, S)
  BY <1>6, <1>7, FS_Injection
<1>9. \A x \in S : \E i \in 1 .. n : s[i] = x
  BY <1>8 DEF Surjection
<1>10. s \in Seq(S) /\ DOMAIN s = 1 .. n
  BY <1>1, <1>5
<1> QED BY <1>9, <1>10 DEF Has, s

(* A sequence of sequences put together has the members of each of them. *)
LEMMA DeployFlatten ==
  ASSUME NEW K, NEW s, s \in Seq(Seq(K))
  PROVE  /\ Deploy!FlattenSeq(s) \in Seq(K)
         /\ \A i \in DOMAIN s : \A x : Has(s[i], x) => Has(Deploy!FlattenSeq(s), x)
<1> DEFINE n == Len(s)
           Body(f) == [i \in 1 .. n |-> IF i = 1 THEN s[i] ELSE f[i - 1] \o s[i]]
           flat == CHOOSE f : f = Body(f)
<1>1. n \in Nat /\ DOMAIN s = 1 .. n /\ \A i \in 1 .. n : s[i] \in Seq(K)
  OBVIOUS
<1>2. CASE n = 0
  BY <1>1, <1>2 DEF Deploy!FlattenSeq
<1>3. CASE n # 0
  <2>1. Deploy!FlattenSeq(s) = flat[n]
    BY <1>1, <1>3 DEF Deploy!FlattenSeq
  <2> HIDE DEF n
  <2> DEFINE Fits(f, k) == \A i \in 1 .. k : f[i] = IF i = 1 THEN s[i] ELSE f[i - 1] \o s[i]
             S == {k \in 0 .. n : \E f \in [1 .. k -> Seq(K)] : Fits(f, k)}
  <2>2. 0 \in S
    <3>1. [i \in 1 .. 0 |-> <<>>] \in [1 .. 0 -> Seq(K)] /\ Fits([i \in 1 .. 0 |-> <<>>], 0)
      OBVIOUS
    <3>2. 0 \in 0 .. n
      BY <1>1
    <3> HIDE DEF Fits
    <3> QED BY <3>1, <3>2
  <2>3. ASSUME NEW k \in 1 .. n, k - 1 \in S PROVE k \in S
    <3>1. PICK f \in [1 .. k - 1 -> Seq(K)] : Fits(f, k - 1)
      BY <2>3
    <3> DEFINE g == [i \in 1 .. k |-> IF i < k THEN f[i]
                                      ELSE IF k = 1 THEN s[k] ELSE f[k - 1] \o s[k]]
    <3>2. g \in [1 .. k -> Seq(K)]
      BY <1>1
    <3>3. Fits(g, k)
      <4> SUFFICES ASSUME NEW i \in 1 .. k
                   PROVE  g[i] = IF i = 1 THEN s[i] ELSE g[i - 1] \o s[i]
        OBVIOUS
      <4>1. i # 1 => i - 1 \in 1 .. k - 1 /\ g[i - 1] = f[i - 1]
        OBVIOUS
      <4>2. CASE i < k
        <5>1. i \in 1 .. k - 1 /\ g[i] = f[i]
          BY <4>2
        <5>2. f[i] = IF i = 1 THEN s[i] ELSE f[i - 1] \o s[i]
          BY <3>1, <5>1
        <5> HIDE DEF g
        <5> QED BY <4>1, <5>1, <5>2
      <4>3. CASE i = k
        <5>1. g[i] = IF i = 1 THEN s[i] ELSE f[i - 1] \o s[i]
          BY <4>3
        <5> HIDE DEF g
        <5> QED BY <4>1, <5>1
      <4> QED BY <4>2, <4>3
    <3>4. \E h \in [1 .. k -> Seq(K)] : Fits(h, k)
      <4> HIDE DEF Fits, g
      <4> QED BY <3>2, <3>3
    <3> HIDE DEF Fits
    <3> QED BY <3>4, <1>1
  <2> HIDE DEF S
  <2>4. n \in S
    BY <1>1, <2>2, <2>3, Prefixes
  <2>5. PICK f \in [1 .. n -> Seq(K)] : Fits(f, n)
    BY <2>4 DEF S
  <2>6. f = Body(f)
    BY <2>5
  <2>7. flat = Body(flat)
    BY <2>6
  <2> HIDE DEF flat
  <2> DEFINE T == {k \in 0 .. n : k # 0 =>
                     /\ flat[k] \in Seq(K)
                     /\ \A i \in 1 .. k : \A x : Has(s[i], x) => Has(flat[k], x)}
  <2>8. 0 \in T
    BY <1>1
  <2>9. ASSUME NEW k \in 1 .. n, k - 1 \in T PROVE k \in T
    <3>1. flat[k] = IF k = 1 THEN s[k] ELSE flat[k - 1] \o s[k]
      BY <2>7
    <3>2. CASE k = 1
      BY <3>1, <3>2, <1>1
    <3>3. CASE k # 1
      <4> DEFINE a == flat[k - 1]
                 b == s[k]
      <4>1. a \in Seq(K) /\ b \in Seq(K) /\ flat[k] = a \o b
            /\ \A i \in 1 .. k - 1 : \A x : Has(s[i], x) => Has(a, x)
        BY <2>9, <3>1, <3>3, <1>1
      <4> HIDE DEF a
      <4>2. ASSUME NEW x, Has(a, x) \/ Has(b, x)
            PROVE  Has(a \o b, x)
        <5> HIDE DEF b
        <5>1. /\ Len(a) \in Nat /\ Len(b) \in Nat
              /\ DOMAIN a = 1 .. Len(a) /\ DOMAIN b = 1 .. Len(b)
              /\ DOMAIN (a \o b) = 1 .. (Len(a) + Len(b))
          BY <4>1
        <5>2. CASE Has(a, x)
          <6>1. PICK i \in 1 .. Len(a) : a[i] = x
            BY <5>1, <5>2 DEF Has
          <6>2. i \in DOMAIN (a \o b) /\ (a \o b)[i] = x
            BY <4>1, <5>1, <6>1
          <6> QED BY <6>2 DEF Has
        <5>3. CASE Has(b, x)
          <6>1. PICK i \in 1 .. Len(b) : b[i] = x
            BY <5>1, <5>3 DEF Has
          <6>2. Len(a) + i \in DOMAIN (a \o b) /\ (a \o b)[Len(a) + i] = x
            BY <4>1, <5>1, <6>1
          <6> QED BY <6>2 DEF Has
        <5> QED BY <4>2, <5>2, <5>3
      <4>3. ASSUME NEW i \in 1 .. k, NEW x, Has(s[i], x)
            PROVE  Has(flat[k], x)
        <5>1. i = k \/ i \in 1 .. k - 1
          OBVIOUS
        <5> QED BY <4>1, <4>2, <4>3, <5>1
      <4>4. flat[k] \in Seq(K)
        BY <4>1
      <4> QED BY <4>3, <4>4, <1>1
    <3> QED BY <3>2, <3>3
  <2> HIDE DEF T
  <2>10. n \in T
    BY <1>1, <2>8, <2>9, Prefixes
  <2> QED BY <1>1, <1>3, <2>1, <2>10 DEF T
<1> QED BY <1>2, <1>3

(***************************************************************************)
(* A batch.  What each of its calls makes of the chain before it, the      *)
(* whole of it makes of the chain it started from, if it goes through.     *)
(***************************************************************************)
DeployFold(c, b, late) ==
  Deploy!FoldLeft(LAMBDA r, k : Deploy!Step(late, r, k), [ok |-> TRUE, chain |-> c], b)

LEMMA DeployBatch ==
  ASSUME NEW U, NEW c, NEW b, NEW n \in Nat, DOMAIN b = 1 .. n, NEW late,
         \A x \in U, i \in 1 .. n : Deploy!After(x, b[i]) \in U,
         NEW G \in [0 .. n -> SUBSET U], c \in G[0],
         \A i \in 1 .. n : \A x \in G[i - 1] :
            Deploy!Succeeds(x, b[i], late) => Deploy!After(x, b[i]) \in G[i]
  PROVE  DeployFold(c, b, late).ok => DeployFold(c, b, late).chain \in G[n]
<1> DEFINE D == [ok : BOOLEAN, chain : U]
           base == [ok |-> TRUE, chain |-> c]
           Body(g) == [s \in SUBSET (1 .. n) |->
                         IF s = {} THEN base
                         ELSE Deploy!Step(late, g[s \ {GreatestOf(s)}], b[GreatestOf(s)])]
           it == CHOOSE g : g = Body(g)
<1>1. DeployFold(c, b, late) = it[1 .. n]
  BY DEF DeployFold, Deploy!FoldLeft, Deploy!MapThenFoldSet, Deploy!Max, GreatestOf
<1>2. c \in U
  OBVIOUS
<1>3. ASSUME NEW x \in D, NEW i \in 1 .. n
      PROVE  Deploy!Step(late, x, b[i]) \in D
  <2>1. Deploy!After(x.chain, b[i]) \in U /\ x.chain \in U
    OBVIOUS
  <2> DEFINE a == Deploy!After(x.chain, b[i])
  <2> HIDE DEF a
  <2>2. [ok |-> TRUE, chain |-> a] \in D /\ [ok |-> FALSE, chain |-> x.chain] \in D
    BY <2>1 DEF a
  <2> QED BY <2>2, Zenon DEF Deploy!Step, a
<1>4. \E g : g = Body(g)
  <2> DEFINE F == [p \in D \X (1 .. n) |-> Deploy!Step(late, p[1], b[p[2]])]
  <2> HIDE DEF it
  <2>1. F \in [D \X (1 .. n) -> D]
    <3> SUFFICES ASSUME NEW p \in D \X (1 .. n) PROVE Deploy!Step(late, p[1], b[p[2]]) \in D
      OBVIOUS
    <3>1. p[1] \in D /\ p[2] \in 1 .. n
      OBVIOUS
    <3> HIDE DEF D
    <3> QED BY <1>3, <3>1
  <2>0. base \in D
    BY <1>2
  <2>2. PICK g \in [SUBSET (1 .. n) -> D] : IsFold(g, n, base, F)
    <3> HIDE DEF F, Body, D, base
    <3> QED BY <2>0, <2>1, FoldExists
  <2> HIDE DEF base, D
  <2>3. ASSUME NEW s \in SUBSET (1 .. n)
        PROVE  g[s] = IF s = {} THEN base
                      ELSE Deploy!Step(late, g[s \ {GreatestOf(s)}], b[GreatestOf(s)])
    <3>1. CASE s = {}
      BY <2>2, <3>1 DEF IsFold
    <3>2. CASE s # {}
      <4>1. GreatestOf(s) \in 1 .. n
        BY <3>2, Greatest
      <4>2. g[s \ {GreatestOf(s)}] \in D
        BY <4>1
      <4>3. F[<<g[s \ {GreatestOf(s)}], GreatestOf(s)>>]
               = Deploy!Step(late, g[s \ {GreatestOf(s)}], b[GreatestOf(s)])
        BY <4>1, <4>2
      <4> QED BY <2>2, <3>2, <4>3 DEF IsFold
    <3> QED BY <3>1, <3>2
  <2>4. g = Body(g)
    BY <2>3
  <2> QED BY <2>4
<1>5. it = Body(it)
  BY <1>4
<1> HIDE DEF it
<1>6. it[{}] = base
  BY <1>5
<1>7. ASSUME NEW k \in 1 .. n
      PROVE  it[1 .. k] = Deploy!Step(late, it[1 .. k - 1], b[k])
  <2>1. /\ 1 .. k # {} /\ 1 .. k \in SUBSET (1 .. n)
        /\ GreatestOf(1 .. k) = k /\ (1 .. k) \ {k} = 1 .. k - 1
    BY GreatestOfPrefix
  <2>2. Body(it)[1 .. k] = Deploy!Step(late, it[1 .. k - 1], b[k])
    BY <2>1
  <2> HIDE DEF Body
  <2> QED BY <1>5, <2>2
<1> HIDE DEF Body, D
<1> DEFINE S == {k \in 0 .. n : it[1 .. k].ok => it[1 .. k].chain \in G[k]}
<1>8. 0 \in S
  <2>1. 1 .. 0 = {} /\ 0 \in 0 .. n
    OBVIOUS
  <2> QED BY <1>6, <2>1
<1>9. ASSUME NEW k \in 1 .. n, k - 1 \in S PROVE k \in S
  <2>1. k \in 0 .. n
    OBVIOUS
  <2> DEFINE r == it[1 .. k - 1]
             q == it[1 .. k]
             succ == Deploy!Succeeds(r.chain, b[k], late)
             aft == Deploy!After(r.chain, b[k])
  <2>2. q = IF r.ok /\ succ THEN [ok |-> TRUE, chain |-> aft] ELSE [ok |-> FALSE, chain |-> r.chain]
    BY <1>7, Zenon DEF Deploy!Step
  <2>3. r.ok => r.chain \in G[k - 1]
    BY <1>9
  <2>4. r.ok /\ succ => aft \in G[k]
    BY <2>3
  <2>5. ASSUME NEW x
        PROVE  [ok |-> TRUE, chain |-> x].chain = x /\ [ok |-> FALSE, chain |-> x].ok = FALSE
    OBVIOUS
  <2>6. q.ok => q.chain \in G[k]
    <3> HIDE DEF q, r, succ, aft
    <3> QED BY <2>2, <2>4, <2>5, Zenon
  <2> QED BY <2>1, <2>6
<1>10. n \in S
  <2> HIDE DEF S
  <2> QED BY <1>8, <1>9, Prefixes
<1> QED BY <1>1, <1>10

(***************************************************************************)
(* What the calls change.                                                  *)
(***************************************************************************)
DeployUsdos == [helper : BOOLEAN, minters : SUBSET Deploy!Operators,
                burners : SUBSET Deploy!Operators]
DeployPenroses ==
  [usdo : 0 .. MaxDeployments, usdoId : Deploy!Ids \cup {NoId},
   mainToken : {Weth, EthMarket}, mainId : Deploy!Ids \cup {Weth},
   masters : SUBSET Deploy!Kinds, markets : SUBSET Deploy!Markets, eth : BBs \cup {NoMarket}]
DeployMarkets ==
  [ready : BOOLEAN, assetId : Deploy!Ids \cup {NoId}, collateralId : Deploy!Ids \cup {NoId},
   isMain : BOOLEAN, cap : Caps \cup {0}, helper : BOOLEAN]
DeployChains ==
  [usdo : [Deploy!Deployments -> DeployUsdos], penrose : [Deploy!Deployments -> DeployPenroses],
   market : [Deploy!Deployments -> [Deploy!Markets -> DeployMarkets]],
   assets : SUBSET Deploy!Ids, seeded : SUBSET Deploy!Ids, funds : 0 .. 2]

LEMMA DeployChainParts ==
  ASSUME NEW c, c \in DeployChains
  PROVE  /\ c.usdo \in [Deploy!Deployments -> DeployUsdos]
         /\ c.penrose \in [Deploy!Deployments -> DeployPenroses]
         /\ c.market \in [Deploy!Deployments -> [Deploy!Markets -> DeployMarkets]]
         /\ c.assets \in SUBSET Deploy!Ids /\ c.seeded \in SUBSET Deploy!Ids /\ c.funds \in 0 .. 2
  BY DEF DeployChains

DeployWithPenrose(c, d, p) == [c EXCEPT !.penrose[d] = p]

LEMMA DeploySetPenrose ==
  ASSUME NEW c \in DeployChains, NEW d \in Deploy!Deployments, NEW p \in DeployPenroses,
         NEW x, x = DeployWithPenrose(c, d, p)
  PROVE  /\ x \in DeployChains /\ x.penrose[d] = p
         /\ \A e \in Deploy!Deployments \ {d} : x.penrose[e] = c.penrose[e]
         /\ x.usdo = c.usdo /\ x.market = c.market
         /\ x.assets = c.assets /\ x.seeded = c.seeded
  BY DEF DeployChains, DeployWithPenrose

DeployWithUsdo(c, d, u) == [c EXCEPT !.usdo[d] = u]

LEMMA DeploySetUsdo ==
  ASSUME NEW c \in DeployChains, NEW d \in Deploy!Deployments, NEW u \in DeployUsdos,
         NEW x, x = DeployWithUsdo(c, d, u)
  PROVE  /\ x \in DeployChains /\ x.usdo[d] = u
         /\ \A e \in Deploy!Deployments \ {d} : x.usdo[e] = c.usdo[e]
         /\ x.penrose = c.penrose /\ x.market = c.market
         /\ x.assets = c.assets /\ x.seeded = c.seeded
  BY DEF DeployChains, DeployWithUsdo

DeployWithMarket(c, d, m, v) == [c EXCEPT !.market[d][m] = v]

LEMMA DeploySetMarket ==
  ASSUME NEW c \in DeployChains, NEW d \in Deploy!Deployments, NEW m \in Deploy!Markets,
         NEW v \in DeployMarkets, NEW x, x = DeployWithMarket(c, d, m, v)
  PROVE  /\ x \in DeployChains /\ x.market[d][m] = v
         /\ \A n \in Deploy!Markets \ {m} : x.market[d][n] = c.market[d][n]
         /\ \A e \in Deploy!Deployments \ {d} : x.market[e] = c.market[e]
         /\ x.penrose = c.penrose /\ x.usdo = c.usdo
         /\ x.assets = c.assets /\ x.seeded = c.seeded
  BY DEF DeployChains, DeployWithMarket

(* Penrose. *)
DeployWithUsdoId(p, d, id) == [p EXCEPT !.usdo = d, !.usdoId = id]

LEMMA DeploySetsUsdo ==
  ASSUME NEW c \in DeployChains, NEW d \in Deploy!Deployments, NEW id \in Deploy!Ids,
         NEW x, x = Deploy!After(c, Deploy!setUsdoToken(d, id))
  PROVE  /\ x \in DeployChains
         /\ x.penrose[d] = DeployWithUsdoId(c.penrose[d], d, id)
         /\ \A e \in Deploy!Deployments \ {d} : x.penrose[e] = c.penrose[e]
         /\ x.usdo = c.usdo /\ x.market = c.market
         /\ x.assets = c.assets /\ x.seeded = c.seeded
<1> DEFINE p == [c.penrose[d] EXCEPT !.usdo = d, !.usdoId = id]
<1>1. x = DeployWithPenrose(c, d, p)
  BY DEF DeployWithPenrose, Deploy!After, Deploy!setUsdoToken
<1>2. p \in DeployPenroses
  <2>1. c.penrose[d] \in DeployPenroses /\ d \in 0 .. MaxDeployments
    <3>1. MaxDeployments \in Nat
      BY RolloutAssumption DEF Deploy!MarketsAssumption
    <3> QED BY <3>1, DeployChainParts DEF Deploy!Deployments
  <2> QED BY <2>1 DEF DeployPenroses
<1> HIDE DEF p
<1>3. /\ x \in DeployChains /\ x.penrose[d] = p
      /\ \A e \in Deploy!Deployments \ {d} : x.penrose[e] = c.penrose[e]
      /\ x.usdo = c.usdo /\ x.market = c.market
      /\ x.assets = c.assets /\ x.seeded = c.seeded
  BY <1>1, <1>2, DeploySetPenrose
<1> QED BY <1>3 DEF p, DeployWithUsdoId

LEMMA DeployRegistersMaster ==
  ASSUME NEW c \in DeployChains, NEW d \in Deploy!Deployments, NEW k \in Deploy!Kinds,
         NEW x, x = Deploy!After(c, Deploy!registerMaster(d, k))
  PROVE  /\ x \in DeployChains
         /\ x.penrose[d] = [c.penrose[d] EXCEPT !.masters = c.penrose[d].masters \cup {k}]
         /\ \A e \in Deploy!Deployments \ {d} : x.penrose[e] = c.penrose[e]
         /\ x.usdo = c.usdo /\ x.market = c.market
         /\ x.assets = c.assets /\ x.seeded = c.seeded
<1> DEFINE p == [c.penrose[d] EXCEPT !.masters = c.penrose[d].masters \cup {k}]
<1>1. x = DeployWithPenrose(c, d, p)
  BY DEF DeployWithPenrose, Deploy!After, Deploy!registerMaster
<1>2. p \in DeployPenroses
  <2>1. c.penrose[d] \in DeployPenroses
    BY DeployChainParts
  <2> QED BY <2>1 DEF DeployPenroses
<1> HIDE DEF p
<1>3. /\ x \in DeployChains /\ x.penrose[d] = p
      /\ \A e \in Deploy!Deployments \ {d} : x.penrose[e] = c.penrose[e]
      /\ x.usdo = c.usdo /\ x.market = c.market
      /\ x.assets = c.assets /\ x.seeded = c.seeded
  BY <1>1, <1>2, DeploySetPenrose
<1> QED BY <1>3 DEF p

LEMMA DeployAddsMarket ==
  ASSUME NEW c \in DeployChains, NEW d \in Deploy!Deployments, NEW m \in Deploy!Markets,
         NEW x, x = Deploy!After(c, Deploy!addMarket(d, m))
  PROVE  /\ x \in DeployChains
         /\ x.penrose[d] = [c.penrose[d] EXCEPT !.markets = c.penrose[d].markets \cup {m}]
         /\ \A e \in Deploy!Deployments \ {d} : x.penrose[e] = c.penrose[e]
         /\ x.usdo = c.usdo /\ x.market = c.market
         /\ x.assets = c.assets /\ x.seeded = c.seeded
<1> DEFINE p == [c.penrose[d] EXCEPT !.markets = c.penrose[d].markets \cup {m}]
<1>1. x = DeployWithPenrose(c, d, p)
  BY DEF DeployWithPenrose, Deploy!After, Deploy!addMarket
<1>2. p \in DeployPenroses
  <2>1. c.penrose[d] \in DeployPenroses
    BY DeployChainParts
  <2> QED BY <2>1 DEF DeployPenroses
<1> HIDE DEF p
<1>3. /\ x \in DeployChains /\ x.penrose[d] = p
      /\ \A e \in Deploy!Deployments \ {d} : x.penrose[e] = c.penrose[e]
      /\ x.usdo = c.usdo /\ x.market = c.market
      /\ x.assets = c.assets /\ x.seeded = c.seeded
  BY <1>1, <1>2, DeploySetPenrose
<1> QED BY <1>3 DEF p

LEMMA DeploySetsEthMarket ==
  ASSUME NEW c \in DeployChains, NEW d \in Deploy!Deployments, NEW m \in BBs,
         NEW x, x = Deploy!After(c, Deploy!setEthMarket(d, m))
  PROVE  /\ x \in DeployChains
         /\ x.penrose[d] = [c.penrose[d] EXCEPT !.eth = m]
         /\ \A e \in Deploy!Deployments \ {d} : x.penrose[e] = c.penrose[e]
         /\ x.usdo = c.usdo /\ x.market = c.market
         /\ x.assets = c.assets /\ x.seeded = c.seeded
<1> DEFINE p == [c.penrose[d] EXCEPT !.eth = m]
<1>1. x = DeployWithPenrose(c, d, p)
  BY DEF DeployWithPenrose, Deploy!After, Deploy!setEthMarket
<1>2. p \in DeployPenroses
  <2>1. c.penrose[d] \in DeployPenroses
    BY DeployChainParts
  <2> QED BY <2>1 DEF DeployPenroses
<1> HIDE DEF p
<1>3. /\ x \in DeployChains /\ x.penrose[d] = p
      /\ \A e \in Deploy!Deployments \ {d} : x.penrose[e] = c.penrose[e]
      /\ x.usdo = c.usdo /\ x.market = c.market
      /\ x.assets = c.assets /\ x.seeded = c.seeded
  BY <1>1, <1>2, DeploySetPenrose
<1> QED BY <1>3 DEF p

DeployWithMain(p, id) == [p EXCEPT !.mainToken = EthMarket, !.mainId = id]

LEMMA DeploySetsMain ==
  ASSUME NEW c \in DeployChains, NEW d \in Deploy!Deployments, NEW id \in Deploy!Ids, id # NoId,
         NEW x, x = Deploy!After(c, Deploy!setMain(d, EthMarket, id))
  PROVE  /\ x \in DeployChains
         /\ x.penrose[d] = DeployWithMain(c.penrose[d], id)
         /\ \A e \in Deploy!Deployments \ {d} : x.penrose[e] = c.penrose[e]
         /\ x.usdo = c.usdo /\ x.market = c.market
         /\ x.assets = c.assets /\ x.seeded = c.seeded
<1> DEFINE p == [c.penrose[d] EXCEPT !.mainToken = EthMarket, !.mainId = id]
<1>1. x = DeployWithPenrose(c, d, p)
  BY DEF DeployWithPenrose, Deploy!After, Deploy!setMain
<1>2. p \in DeployPenroses
  <2>1. c.penrose[d] \in DeployPenroses
    BY DeployChainParts
  <2> QED BY <2>1 DEF DeployPenroses
<1> HIDE DEF p
<1>3. /\ x \in DeployChains /\ x.penrose[d] = p
      /\ \A e \in Deploy!Deployments \ {d} : x.penrose[e] = c.penrose[e]
      /\ x.usdo = c.usdo /\ x.market = c.market
      /\ x.assets = c.assets /\ x.seeded = c.seeded
  BY <1>1, <1>2, DeploySetPenrose
<1> QED BY <1>3 DEF p, DeployWithMain

(* USDO and YieldBox. *)
LEMMA DeploySetsHelper ==
  ASSUME NEW c \in DeployChains, NEW d \in Deploy!Deployments,
         NEW x, x = Deploy!After(c, Deploy!setFlashHelper(d))
  PROVE  /\ x \in DeployChains /\ x.usdo[d].helper
         /\ \A e \in Deploy!Deployments \ {d} : x.usdo[e] = c.usdo[e]
         /\ x.penrose = c.penrose /\ x.market = c.market
         /\ x.assets = c.assets /\ x.seeded = c.seeded
<1> DEFINE u == [c.usdo[d] EXCEPT !.helper = TRUE]
<1>1. x = DeployWithUsdo(c, d, u)
  BY DEF DeployWithUsdo, Deploy!After, Deploy!setFlashHelper
<1>2. u \in DeployUsdos /\ u.helper
  <2>1. c.usdo[d] \in DeployUsdos
    BY DeployChainParts
  <2> QED BY <2>1 DEF DeployUsdos
<1> HIDE DEF u
<1> QED BY <1>1, <1>2, DeploySetUsdo

LEMMA DeploySetsMinter ==
  ASSUME NEW c \in DeployChains, NEW d \in Deploy!Deployments, NEW a \in Deploy!Operators, NEW b,
         NEW x, x \in {Deploy!After(c, Deploy!setMinter(d, a, b)),
                       Deploy!After(c, Deploy!setBurner(d, a, b))}
  PROVE  /\ x \in DeployChains
         /\ \A e \in Deploy!Deployments : x.usdo[e].helper = c.usdo[e].helper
         /\ x.penrose = c.penrose /\ x.market = c.market
         /\ x.assets = c.assets /\ x.seeded = c.seeded
<1> DEFINE u == [c.usdo[d] EXCEPT !.minters = Deploy!Member(c.usdo[d].minters, a, b)]
           w == [c.usdo[d] EXCEPT !.burners = Deploy!Member(c.usdo[d].burners, a, b)]
<1>1. \/ x = DeployWithUsdo(c, d, u)
      \/ x = DeployWithUsdo(c, d, w)
  <2>1. Deploy!After(c, Deploy!setMinter(d, a, b)) = DeployWithUsdo(c, d, u)
    BY DEF Deploy!After, Deploy!setMinter, DeployWithUsdo
  <2>2. Deploy!After(c, Deploy!setBurner(d, a, b)) = DeployWithUsdo(c, d, w)
    BY DEF Deploy!After, Deploy!setBurner, DeployWithUsdo
  <2> HIDE DEF u, w
  <2> QED BY <2>1, <2>2
<1>2. /\ u \in DeployUsdos /\ u.helper = c.usdo[d].helper
      /\ w \in DeployUsdos /\ w.helper = c.usdo[d].helper
  <2>1. c.usdo[d] \in DeployUsdos
    BY DeployChainParts
  <2>2. \A S \in SUBSET Deploy!Operators : Deploy!Member(S, a, b) \in SUBSET Deploy!Operators
    BY DEF Deploy!Member
  <2> QED BY <2>1, <2>2 DEF DeployUsdos
<1> HIDE DEF u, w
<1>3. ASSUME NEW v \in DeployUsdos, v.helper = c.usdo[d].helper,
             x = DeployWithUsdo(c, d, v)
      PROVE  /\ x \in DeployChains
             /\ \A e \in Deploy!Deployments : x.usdo[e].helper = c.usdo[e].helper
             /\ x.penrose = c.penrose /\ x.market = c.market
             /\ x.assets = c.assets /\ x.seeded = c.seeded
  BY <1>3, DeploySetUsdo
<1> QED BY <1>1, <1>2, <1>3

LEMMA DeployRegistersAsset ==
  ASSUME NEW c \in DeployChains, NEW d, NEW id \in Deploy!Ids,
         NEW x, x = Deploy!After(c, Deploy!registerAsset(d, id))
  PROVE  /\ x \in DeployChains /\ x.usdo = c.usdo
         /\ x.penrose = c.penrose /\ x.market = c.market
         /\ x.assets = c.assets \cup {id} /\ x.seeded = c.seeded
<1>1. x = [c EXCEPT !.assets = c.assets \cup {id}]
  BY DEF Deploy!After, Deploy!registerAsset
<1> QED BY <1>1 DEF DeployChains

LEMMA DeployDeposits ==
  ASSUME NEW c \in DeployChains, NEW d, NEW id \in Deploy!Ids,
         NEW x, x = Deploy!After(c, Deploy!depositAsset(d, id))
  PROVE  /\ x \in DeployChains /\ x.usdo = c.usdo
         /\ x.penrose = c.penrose /\ x.market = c.market
         /\ x.assets = c.assets /\ x.seeded = c.seeded \cup {id}
<1>1. x = [c EXCEPT !.seeded = c.seeded \cup {id}]
  BY DEF Deploy!After, Deploy!depositAsset
<1> QED BY <1>1 DEF DeployChains

LEMMA DeployWraps ==
  ASSUME NEW c, NEW d
  PROVE  Deploy!After(c, Deploy!wrap(d)) = c
  BY DEF Deploy!After, Deploy!wrap

(* The markets. *)
DeployInitedBB(v, w, p, id) ==
  /\ w.ready /\ w.helper = v.helper /\ w.assetId = p.usdoId /\ w.collateralId = id
  /\ w.isMain <=> id = p.mainId
DeployInitedSGL(v, w, asset, id) ==
  w.ready /\ w.helper = v.helper /\ w.assetId = asset /\ w.collateralId = id
DeployConfigured(v, w) ==
  /\ w.helper /\ w.ready = v.ready /\ w.assetId = v.assetId
  /\ w.collateralId = v.collateralId /\ w.isMain = v.isMain
LEMMA DeployInitsBB ==
  ASSUME NEW c \in DeployChains, NEW d \in Deploy!Deployments, NEW m \in Deploy!Markets,
         NEW id \in Deploy!Ids,
         NEW x, x = Deploy!After(c, Deploy!initBB(d, m, id))
  PROVE  /\ x \in DeployChains
         /\ DeployInitedBB(c.market[d][m], x.market[d][m], c.penrose[d], id)
         /\ \A n \in Deploy!Markets \ {m} : x.market[d][n] = c.market[d][n]
         /\ \A e \in Deploy!Deployments \ {d} : x.market[e] = c.market[e]
         /\ x.penrose = c.penrose /\ x.usdo = c.usdo
         /\ x.assets = c.assets /\ x.seeded = c.seeded
<1> DEFINE v == [c.market[d][m] EXCEPT !.ready = TRUE,
                   !.assetId = c.penrose[d].usdoId, !.collateralId = id,
                   !.isMain = (id = c.penrose[d].mainId)]
<1>1. x = DeployWithMarket(c, d, m, v)
  BY DEF DeployWithMarket, Deploy!After, Deploy!initBB
<1>2. v \in DeployMarkets
  <2>1. c.market[d][m] \in DeployMarkets /\ c.penrose[d].usdoId \in Deploy!Ids \cup {NoId}
    BY DeployChainParts DEF DeployPenroses
  <2>2. (id = c.penrose[d].mainId) \in BOOLEAN
    OBVIOUS
  <2> QED BY <2>1, <2>2 DEF DeployMarkets
<1>4. DeployInitedBB(c.market[d][m], v, c.penrose[d], id)
  <2>1. c.market[d][m] \in DeployMarkets
    BY DeployChainParts
  <2> QED BY <2>1 DEF DeployMarkets, DeployInitedBB
<1> HIDE DEF v
<1>3. /\ x \in DeployChains /\ x.market[d][m] = v
      /\ \A n \in Deploy!Markets \ {m} : x.market[d][n] = c.market[d][n]
      /\ \A e \in Deploy!Deployments \ {d} : x.market[e] = c.market[e]
      /\ x.penrose = c.penrose /\ x.usdo = c.usdo
      /\ x.assets = c.assets /\ x.seeded = c.seeded
  BY <1>1, <1>2, DeploySetMarket
<1> QED BY <1>3, <1>4

LEMMA DeployInitsSGL ==
  ASSUME NEW c \in DeployChains, NEW d \in Deploy!Deployments, NEW m \in Deploy!Markets,
         NEW asset \in Deploy!Ids, NEW id \in Deploy!Ids,
         NEW x, x = Deploy!After(c, Deploy!initSGL(d, m, asset, id))
  PROVE  /\ x \in DeployChains
         /\ DeployInitedSGL(c.market[d][m], x.market[d][m], asset, id)
         /\ \A n \in Deploy!Markets \ {m} : x.market[d][n] = c.market[d][n]
         /\ \A e \in Deploy!Deployments \ {d} : x.market[e] = c.market[e]
         /\ x.penrose = c.penrose /\ x.usdo = c.usdo
         /\ x.assets = c.assets /\ x.seeded = c.seeded
<1> DEFINE v == [c.market[d][m] EXCEPT !.ready = TRUE, !.assetId = asset, !.collateralId = id]
<1>1. x = DeployWithMarket(c, d, m, v)
  BY DEF DeployWithMarket, Deploy!After, Deploy!initSGL
<1>2. v \in DeployMarkets
  <2>1. c.market[d][m] \in DeployMarkets
    BY DeployChainParts
  <2> QED BY <2>1 DEF DeployMarkets
<1>4. DeployInitedSGL(c.market[d][m], v, asset, id)
  <2>1. c.market[d][m] \in DeployMarkets
    BY DeployChainParts
  <2> QED BY <2>1 DEF DeployMarkets, DeployInitedSGL
<1> HIDE DEF v
<1>3. /\ x \in DeployChains /\ x.market[d][m] = v
      /\ \A n \in Deploy!Markets \ {m} : x.market[d][n] = c.market[d][n]
      /\ \A e \in Deploy!Deployments \ {d} : x.market[e] = c.market[e]
      /\ x.penrose = c.penrose /\ x.usdo = c.usdo
      /\ x.assets = c.assets /\ x.seeded = c.seeded
  BY <1>1, <1>2, DeploySetMarket
<1> QED BY <1>3, <1>4

LEMMA DeployConfigs ==
  ASSUME NEW c \in DeployChains, NEW d \in Deploy!Deployments, NEW m \in Deploy!Markets,
         NEW cap \in Caps,
         NEW x, x \in {Deploy!After(c, Deploy!configBB(d, m, cap)),
                       Deploy!After(c, Deploy!configSGL(d, m))}
  PROVE  /\ x \in DeployChains
         /\ DeployConfigured(c.market[d][m], x.market[d][m])
         /\ \A n \in Deploy!Markets \ {m} : x.market[d][n] = c.market[d][n]
         /\ \A e \in Deploy!Deployments \ {d} : x.market[e] = c.market[e]
         /\ x.penrose = c.penrose /\ x.usdo = c.usdo
         /\ x.assets = c.assets /\ x.seeded = c.seeded
<1> DEFINE n == IF cap = 0 THEN c.market[d][m].cap ELSE cap
           o == c.market[d][m].cap
           v(y) == [c.market[d][m] EXCEPT !.helper = TRUE, !.cap = y]
           w == [c.market[d][m] EXCEPT !.helper = TRUE]
<1>1. \/ x = DeployWithMarket(c, d, m, v(n))
      \/ x = DeployWithMarket(c, d, m, w)
  <2>1. Deploy!After(c, Deploy!configBB(d, m, cap)) = DeployWithMarket(c, d, m, v(n))
    BY DEF Deploy!After, Deploy!configBB, DeployWithMarket
  <2>2. Deploy!After(c, Deploy!configSGL(d, m)) = DeployWithMarket(c, d, m, w)
    BY DEF Deploy!After, Deploy!configSGL, DeployWithMarket
  <2> HIDE DEF v, w, n
  <2> QED BY <2>1, <2>2
<1>2. c.market[d][m] \in DeployMarkets
  BY DeployChainParts
<1>3. o \in Caps \cup {0} /\ n \in Caps \cup {0}
  BY <1>2 DEF DeployMarkets
<1>4. w = v(o)
  BY <1>2 DEF DeployMarkets
<1> HIDE DEF n, o
<1>5. ASSUME NEW y \in Caps \cup {0}
      PROVE  v(y) \in DeployMarkets
  BY <1>2 DEF DeployMarkets
<1>6. PICK y \in Caps \cup {0} : x = DeployWithMarket(c, d, m, v(y))
  <2> HIDE DEF v, w
  <2> QED BY <1>1, <1>3, <1>4
<1>7. /\ x \in DeployChains /\ x.market[d][m] = v(y)
      /\ \A q \in Deploy!Markets \ {m} : x.market[d][q] = c.market[d][q]
      /\ \A e \in Deploy!Deployments \ {d} : x.market[e] = c.market[e]
      /\ x.penrose = c.penrose /\ x.usdo = c.usdo
      /\ x.assets = c.assets /\ x.seeded = c.seeded
  <2> HIDE DEF v
  <2> QED BY <1>5, <1>6, DeploySetMarket
<1>8. DeployConfigured(c.market[d][m], v(y))
  <2> HIDE DEF n, o
  <2> QED BY <1>2 DEF DeployMarkets, DeployConfigured
<1> QED BY <1>7, <1>8

(***************************************************************************)
(* A batch of calls of K.  D[x] are the calls of K that x shows the effect *)
(* of.  The batch goes from Q to P, keeps the effects D0 and has all of    *)
(* its own.                                                                *)
(***************************************************************************)
LEMMA DeployBatchDoes ==
  ASSUME NEW K, NEW b \in Seq(K), NEW late, NEW c,
         \A x \in DeployChains, k \in K : Deploy!After(x, k) \in DeployChains,
         NEW P \in SUBSET DeployChains, NEW Q \in SUBSET DeployChains,
         NEW D \in [DeployChains -> SUBSET K], NEW D0,
         c \in Q, D0 \subseteq D[c], Q \subseteq P \/ b # <<>>,
         \A x \in P, k \in K :
            Deploy!Succeeds(x, k, late)
               => Deploy!After(x, k) \in P /\ D[x] \cup {k} \subseteq D[Deploy!After(x, k)],
         b # <<>> => \A x \in Q :
            Deploy!Succeeds(x, b[1], late)
               => /\ Deploy!After(x, b[1]) \in P
                  /\ D[x] \cup {b[1]} \subseteq D[Deploy!After(x, b[1])]
  PROVE  DeployFold(c, b, late).ok =>
            /\ DeployFold(c, b, late).chain \in P
            /\ D0 \subseteq D[DeployFold(c, b, late).chain]
            /\ \A k : Has(b, k) => k \in D[DeployFold(c, b, late).chain]
<1> DEFINE n == Len(b)
           R(i) == IF i = 0 THEN Q ELSE P
           G == [i \in 0 .. n |->
                   {x \in R(i) : D0 \subseteq D[x] /\ \A j \in 1 .. i : b[j] \in D[x]}]
<1>1. n \in Nat /\ DOMAIN b = 1 .. n /\ \A i \in 1 .. n : b[i] \in K
  OBVIOUS
<1>2. n = 0 <=> b = <<>>
  OBVIOUS
<1>3. G \in [0 .. n -> SUBSET DeployChains]
  OBVIOUS
<1>4. c \in G[0]
  BY <1>1
<1>5. ASSUME NEW i \in 1 .. n, NEW x \in G[i - 1], Deploy!Succeeds(x, b[i], late)
      PROVE  Deploy!After(x, b[i]) \in G[i]
  <2> DEFINE y == Deploy!After(x, b[i])
  <2>1. /\ i \in 0 .. n /\ i - 1 \in 0 .. n /\ i # 0 /\ b[i] \in K
        /\ \A j \in 1 .. i : j = i \/ j \in 1 .. (i - 1)
        /\ (i = 1 \/ i - 1 # 0)
    BY <1>1
  <2>2. x \in R(i - 1) /\ D0 \subseteq D[x] /\ \A j \in 1 .. (i - 1) : b[j] \in D[x]
    BY <2>1
  <2>3. y \in P /\ D[x] \cup {b[i]} \subseteq D[y]
    <3>1. CASE i = 1
      <4>1. x \in Q /\ b # <<>>
        BY <2>2, <3>1, <1>1, <1>2
      <4> HIDE DEF G, R, n
      <4> QED BY <4>1, <3>1, <1>5
    <3>2. CASE i - 1 # 0
      <4>1. x \in P
        BY <2>2, <3>2
      <4> HIDE DEF G, R, n
      <4> QED BY <4>1, <2>1, <1>5
    <3> QED BY <3>1, <3>2, <2>1
  <2> HIDE DEF y
  <2>4. D0 \subseteq D[y] /\ \A j \in 1 .. i : b[j] \in D[y]
    BY <2>1, <2>2, <2>3
  <2>5. y \in R(i)
    BY <2>1, <2>3
  <2>6. y \in G[i]
    BY <2>1, <2>4, <2>5
  <2> QED BY <2>6 DEF y
<1>6. ASSUME NEW x \in DeployChains, NEW i \in 1 .. n
      PROVE  Deploy!After(x, b[i]) \in DeployChains
  BY <1>1
<1>7. DeployFold(c, b, late).ok => DeployFold(c, b, late).chain \in G[n]
  <2> HIDE DEF G, n
  <2>1. \A x \in DeployChains, i \in 1 .. n : Deploy!After(x, b[i]) \in DeployChains
    BY <1>6
  <2>2. \A i \in 1 .. n : \A x \in G[i - 1] :
          Deploy!Succeeds(x, b[i], late) => Deploy!After(x, b[i]) \in G[i]
    BY <1>5
  <2> QED BY <1>1, <1>3, <1>4, <2>1, <2>2, DeployBatch
<1>8. ASSUME NEW x \in G[n]
      PROVE  /\ x \in P /\ D0 \subseteq D[x]
             /\ \A k : Has(b, k) => k \in D[x]
  <2>1. x \in R(n) /\ D0 \subseteq D[x] /\ \A j \in 1 .. n : b[j] \in D[x]
    BY <1>1
  <2>2. x \in P
    BY <2>1, <1>2
  <2> QED BY <1>1, <2>1, <2>2 DEF Has
<1> HIDE DEF G, n
<1> QED BY <1>7, <1>8

(***************************************************************************)
(* The first batch of deployment d, whose USDO has the asset id u.         *)
(***************************************************************************)
DeployMasters == IF IsHost THEN Deploy!Kinds ELSE {"SGL"}
DeployRoles(d) == {Deploy!setMinter(d, a, b) : a \in Deploy!Operators, b \in BOOLEAN}
                  \cup {Deploy!setBurner(d, a, b) : a \in Deploy!Operators, b \in BOOLEAN}
DeployFirst(d, u) ==
  {Deploy!setUsdoToken(d, u), Deploy!setFlashHelper(d)} \cup DeployRoles(d)
  \cup {Deploy!registerMaster(d, k) : k \in DeployMasters}
  \cup {Deploy!addMarket(d, m) : m \in Deploy!Markets}
  \cup {Deploy!setEthMarket(d, m) : m \in IF IsHost THEN {EthMarket} ELSE {}}
  \cup {Deploy!registerAsset(d, <<t, d>>) : t \in Deploy!YbTokens}

(* What a call of it does that later calls do not undo. *)
DeployFirstDone(x, d, u, k) ==
  /\ k.fn = "setUsdoToken" => x.penrose[d].usdo = d /\ x.penrose[d].usdoId = u
  /\ k.fn = "registerMasterContract" => k.kind \in x.penrose[d].masters
  /\ k.fn = "addMarket" => k.market \in x.penrose[d].markets
  /\ k.fn = "setBigBangEthMarket" => x.penrose[d].eth = EthMarket
  /\ k.fn = "setFlashloanHelper" => x.usdo[d].helper
  /\ k.fn = "registerAsset" => k.id \in x.assets

DeployHasMasters(x, d) ==
  \A m \in x.penrose[d].markets : Deploy!Kind(m) \in x.penrose[d].masters
DeployFirstBase(x, d) ==
  /\ x.penrose[d].masters \subseteq DeployMasters
  /\ x.penrose[d].eth \in {NoMarket, IF IsHost THEN EthMarket ELSE NoMarket}
  /\ DeployHasMasters(x, d)
DeployFirstKeeps(x, y, d, u) ==
  /\ y.market = x.market /\ y.seeded = x.seeded
  /\ \A e \in Deploy!Deployments \ {d} :
        y.penrose[e] = x.penrose[e] /\ y.usdo[e].helper = x.usdo[e].helper
  /\ x.usdo[d].helper => y.usdo[d].helper
  /\ y.penrose[d].mainToken = x.penrose[d].mainToken
  /\ y.penrose[d].mainId = x.penrose[d].mainId
  /\ x.penrose[d].masters \subseteq y.penrose[d].masters
  /\ x.penrose[d].markets \subseteq y.penrose[d].markets
  /\ x.penrose[d].usdo = d /\ x.penrose[d].usdoId = u
        => y.penrose[d].usdo = d /\ y.penrose[d].usdoId = u
  /\ x.penrose[d].eth = EthMarket => y.penrose[d].eth = EthMarket
  /\ x.assets \subseteq y.assets
  /\ \A id \in y.assets \ x.assets : \E t \in Deploy!YbTokens : id = <<t, d>>

LEMMA DeployFirstKeepsOn ==
  ASSUME NEW x, NEW y, NEW z, NEW d, NEW u,
         DeployFirstKeeps(x, y, d, u), DeployFirstKeeps(y, z, d, u)
  PROVE  DeployFirstKeeps(x, z, d, u)
<1>1. \A id \in z.assets \ x.assets : \E t \in Deploy!YbTokens : id = <<t, d>>
  BY DEF DeployFirstKeeps
<1> QED BY <1>1 DEF DeployFirstKeeps

LEMMA DeployFirstDoneStays ==
  ASSUME NEW x, NEW y, NEW d, NEW u, NEW k,
         DeployFirstKeeps(x, y, d, u), DeployFirstDone(x, d, u, k)
  PROVE  DeployFirstDone(y, d, u, k)
  BY DEF DeployFirstKeeps, DeployFirstDone

LEMMA DeployFirstCases ==
  ASSUME NEW d, NEW u, NEW k \in DeployFirst(d, u)
  PROVE  \/ k = Deploy!setUsdoToken(d, u) \/ k = Deploy!setFlashHelper(d)
         \/ \E a \in Deploy!Operators, b \in BOOLEAN :
               k = Deploy!setMinter(d, a, b) \/ k = Deploy!setBurner(d, a, b)
         \/ \E n \in DeployMasters : k = Deploy!registerMaster(d, n)
         \/ \E m \in Deploy!Markets : k = Deploy!addMarket(d, m)
         \/ IsHost /\ k = Deploy!setEthMarket(d, EthMarket)
         \/ \E t \in Deploy!YbTokens : k = Deploy!registerAsset(d, <<t, d>>)
  BY DEF DeployFirst, DeployRoles

LEMMA DeployYbIds ==
  ASSUME NEW d \in Deploy!Deployments, NEW t \in Deploy!YbTokens
  PROVE  <<t, d>> \in Deploy!Ids
  BY DEF Deploy!YbTokens, Deploy!Ids, Deploy!CollateralIds

LEMMA DeployFirstStep ==
  ASSUME NEW d \in Deploy!Deployments, NEW u \in Deploy!Ids, NEW k \in DeployFirst(d, u),
         NEW x \in DeployChains, NEW late, Deploy!Succeeds(x, k, late), DeployFirstBase(x, d),
         NEW y, y = Deploy!After(x, k)
  PROVE  /\ y \in DeployChains /\ DeployFirstBase(y, d)
         /\ DeployFirstKeeps(x, y, d, u) /\ DeployFirstDone(y, d, u, k)
<1>0. /\ x.penrose \in [Deploy!Deployments -> DeployPenroses]
      /\ x.penrose[d] \in DeployPenroses
  BY DeployChainParts
<1>1. CASE k = Deploy!setUsdoToken(d, u)
  <2>1. /\ y \in DeployChains
        /\ y.penrose[d] = DeployWithUsdoId(x.penrose[d], d, u)
        /\ \A e \in Deploy!Deployments \ {d} : y.penrose[e] = x.penrose[e]
        /\ y.usdo = x.usdo /\ y.market = x.market
        /\ y.assets = x.assets /\ y.seeded = x.seeded
    BY <1>1, DeploySetsUsdo
  <2>2. DeployFirstBase(y, d) /\ DeployFirstKeeps(x, y, d, u)
    BY <1>0, <2>1 DEF DeployFirstBase, DeployFirstKeeps, DeployHasMasters, DeployPenroses,
                      DeployWithUsdoId
  <2>3. DeployFirstDone(y, d, u, k)
    BY <1>0, <2>1, <1>1 DEF DeployFirstDone, Deploy!setUsdoToken, DeployPenroses,
                            DeployWithUsdoId
  <2> QED BY <2>1, <2>2, <2>3
<1>2. CASE k = Deploy!setFlashHelper(d)
  <2>1. /\ y \in DeployChains /\ y.usdo[d].helper
        /\ \A e \in Deploy!Deployments \ {d} : y.usdo[e] = x.usdo[e]
        /\ y.penrose = x.penrose /\ y.market = x.market
        /\ y.assets = x.assets /\ y.seeded = x.seeded
    BY <1>2, DeploySetsHelper
  <2>2. DeployFirstBase(y, d) /\ DeployFirstKeeps(x, y, d, u)
    BY <2>1 DEF DeployFirstBase, DeployFirstKeeps, DeployHasMasters
  <2>3. DeployFirstDone(y, d, u, k)
    BY <2>1, <1>2 DEF DeployFirstDone, Deploy!setFlashHelper
  <2> QED BY <2>1, <2>2, <2>3
<1>3. CASE \E a \in Deploy!Operators, b \in BOOLEAN :
              k = Deploy!setMinter(d, a, b) \/ k = Deploy!setBurner(d, a, b)
  <2>1. PICK a \in Deploy!Operators, b \in BOOLEAN :
              k = Deploy!setMinter(d, a, b) \/ k = Deploy!setBurner(d, a, b)
    BY <1>3
  <2>2. /\ y \in DeployChains
        /\ \A e \in Deploy!Deployments : y.usdo[e].helper = x.usdo[e].helper
        /\ y.penrose = x.penrose /\ y.market = x.market
        /\ y.assets = x.assets /\ y.seeded = x.seeded
    <3>1. y \in {Deploy!After(x, Deploy!setMinter(d, a, b)),
                 Deploy!After(x, Deploy!setBurner(d, a, b))}
      BY <2>1
    <3> QED BY <3>1, DeploySetsMinter
  <2>3. DeployFirstBase(y, d) /\ DeployFirstKeeps(x, y, d, u)
    BY <2>2 DEF DeployFirstBase, DeployFirstKeeps, DeployHasMasters
  <2>4. DeployFirstDone(y, d, u, k)
    BY <2>1 DEF DeployFirstDone, Deploy!setMinter, Deploy!setBurner
  <2> QED BY <2>2, <2>3, <2>4
<1>4. CASE \E n \in DeployMasters : k = Deploy!registerMaster(d, n)
  <2>1. PICK n \in DeployMasters : k = Deploy!registerMaster(d, n)
    BY <1>4
  <2>2. n \in Deploy!Kinds
    BY DEF DeployMasters, Deploy!Kinds
  <2>3. /\ y \in DeployChains
        /\ y.penrose[d] = [x.penrose[d] EXCEPT !.masters = x.penrose[d].masters \cup {n}]
        /\ \A e \in Deploy!Deployments \ {d} : y.penrose[e] = x.penrose[e]
        /\ y.usdo = x.usdo /\ y.market = x.market
        /\ y.assets = x.assets /\ y.seeded = x.seeded
    BY <2>1, <2>2, DeployRegistersMaster
  <2>4. DeployFirstBase(y, d) /\ DeployFirstKeeps(x, y, d, u)
    BY <1>0, <2>3 DEF DeployFirstBase, DeployFirstKeeps, DeployHasMasters, DeployPenroses
  <2>5. DeployFirstDone(y, d, u, k)
    BY <1>0, <2>3, <2>1 DEF DeployFirstDone, Deploy!registerMaster, DeployPenroses
  <2> QED BY <2>3, <2>4, <2>5
<1>5. CASE \E m \in Deploy!Markets : k = Deploy!addMarket(d, m)
  <2>1. PICK m \in Deploy!Markets : k = Deploy!addMarket(d, m)
    BY <1>5
  <2>2. Deploy!Kind(m) \in x.penrose[d].masters
    BY <2>1 DEF Deploy!Succeeds, Deploy!addMarket
  <2>3. /\ y \in DeployChains
        /\ y.penrose[d] = [x.penrose[d] EXCEPT !.markets = x.penrose[d].markets \cup {m}]
        /\ \A e \in Deploy!Deployments \ {d} : y.penrose[e] = x.penrose[e]
        /\ y.usdo = x.usdo /\ y.market = x.market
        /\ y.assets = x.assets /\ y.seeded = x.seeded
    BY <2>1, DeployAddsMarket
  <2>4. DeployFirstBase(y, d) /\ DeployFirstKeeps(x, y, d, u)
    BY <1>0, <2>2, <2>3 DEF DeployFirstBase, DeployFirstKeeps, DeployHasMasters, DeployPenroses
  <2>5. DeployFirstDone(y, d, u, k)
    BY <1>0, <2>3, <2>1 DEF DeployFirstDone, Deploy!addMarket, DeployPenroses
  <2> QED BY <2>3, <2>4, <2>5
<1>6. CASE IsHost /\ k = Deploy!setEthMarket(d, EthMarket)
  <2>1. EthMarket \in BBs
    BY <1>6, RolloutAssumption DEF Deploy!ChainAssumption
  <2>2. /\ y \in DeployChains
        /\ y.penrose[d] = [x.penrose[d] EXCEPT !.eth = EthMarket]
        /\ \A e \in Deploy!Deployments \ {d} : y.penrose[e] = x.penrose[e]
        /\ y.usdo = x.usdo /\ y.market = x.market
        /\ y.assets = x.assets /\ y.seeded = x.seeded
    BY <1>6, <2>1, DeploySetsEthMarket
  <2>3. DeployFirstBase(y, d) /\ DeployFirstKeeps(x, y, d, u)
    BY <1>0, <1>6, <2>2
       DEF DeployFirstBase, DeployFirstKeeps, DeployHasMasters, DeployPenroses
  <2>4. DeployFirstDone(y, d, u, k)
    BY <1>0, <1>6, <2>2 DEF DeployFirstDone, Deploy!setEthMarket, DeployPenroses
  <2> QED BY <2>2, <2>3, <2>4
<1>7. CASE \E t \in Deploy!YbTokens : k = Deploy!registerAsset(d, <<t, d>>)
  <2>1. PICK t \in Deploy!YbTokens : k = Deploy!registerAsset(d, <<t, d>>)
    BY <1>7
  <2>2. /\ y \in DeployChains /\ y.usdo = x.usdo
        /\ y.penrose = x.penrose /\ y.market = x.market
        /\ y.assets = x.assets \cup {<<t, d>>} /\ y.seeded = x.seeded
    BY <2>1, DeployYbIds, DeployRegistersAsset
  <2>3. DeployFirstBase(y, d) /\ DeployFirstKeeps(x, y, d, u)
    BY <2>2 DEF DeployFirstBase, DeployFirstKeeps, DeployHasMasters
  <2>4. DeployFirstDone(y, d, u, k)
    BY <2>1, <2>2 DEF DeployFirstDone, Deploy!registerAsset
  <2> QED BY <2>2, <2>3, <2>4
<1> QED BY <1>1, <1>2, <1>3, <1>4, <1>5, <1>6, <1>7, DeployFirstCases

LEMMA DeployFirstTyped ==
  ASSUME NEW d \in Deploy!Deployments, NEW u \in Deploy!Ids, NEW k \in DeployFirst(d, u),
         NEW x \in DeployChains
  PROVE  Deploy!After(x, k) \in DeployChains
<1>1. CASE k = Deploy!setUsdoToken(d, u)
  BY <1>1, DeploySetsUsdo
<1>2. CASE k = Deploy!setFlashHelper(d)
  BY <1>2, DeploySetsHelper
<1>3. ASSUME NEW a \in Deploy!Operators, NEW b \in BOOLEAN,
             k = Deploy!setMinter(d, a, b) \/ k = Deploy!setBurner(d, a, b)
      PROVE  Deploy!After(x, k) \in DeployChains
  <2>1. Deploy!After(x, k) \in {Deploy!After(x, Deploy!setMinter(d, a, b)),
                                Deploy!After(x, Deploy!setBurner(d, a, b))}
    BY <1>3
  <2> QED BY <2>1, DeploySetsMinter
<1>4. ASSUME NEW n \in DeployMasters, k = Deploy!registerMaster(d, n)
      PROVE  Deploy!After(x, k) \in DeployChains
  <2>1. n \in Deploy!Kinds
    BY DEF DeployMasters, Deploy!Kinds
  <2> QED BY <1>4, <2>1, DeployRegistersMaster
<1>5. ASSUME NEW m \in Deploy!Markets, k = Deploy!addMarket(d, m)
      PROVE  Deploy!After(x, k) \in DeployChains
  BY <1>5, DeployAddsMarket
<1>6. CASE IsHost /\ k = Deploy!setEthMarket(d, EthMarket)
  <2>1. EthMarket \in BBs
    BY <1>6, RolloutAssumption DEF Deploy!ChainAssumption
  <2> QED BY <1>6, <2>1, DeploySetsEthMarket
<1>7. ASSUME NEW t \in Deploy!YbTokens, k = Deploy!registerAsset(d, <<t, d>>)
      PROVE  Deploy!After(x, k) \in DeployChains
  BY <1>7, DeployYbIds, DeployRegistersAsset
<1> QED BY <1>1, <1>2, <1>3, <1>4, <1>5, <1>6, <1>7, DeployFirstCases

LEMMA DeployFirstKeepsAll ==
  ASSUME NEW x, NEW d, NEW u
  PROVE  DeployFirstKeeps(x, x, d, u)
  BY DEF DeployFirstKeeps

(* The batch has every call of the first phase that is not done yet. *)
DeployFirstFull(c, b, d, u) ==
  \A k \in DeployFirst(d, u) : DeployFirstDone(c, d, u, k) \/ Has(b, k)

LEMMA DeployFirstBatch ==
  ASSUME NEW d \in Deploy!Deployments, NEW u \in Deploy!Ids, NEW c \in DeployChains,
         DeployFirstBase(c, d), NEW b \in Seq(DeployFirst(d, u)),
         DeployFirstFull(c, b, d, u), NEW late, DeployFold(c, b, late).ok,
         NEW x, x = DeployFold(c, b, late).chain
  PROVE  /\ x \in DeployChains /\ DeployFirstBase(x, d) /\ DeployFirstKeeps(c, x, d, u)
         /\ \A k \in DeployFirst(d, u) : DeployFirstDone(x, d, u, k)
<1> DEFINE K == DeployFirst(d, u)
           P == {y \in DeployChains : DeployFirstKeeps(c, y, d, u) /\ DeployFirstBase(y, d)}
           D == [y \in DeployChains |-> {k \in K : DeployFirstDone(y, d, u, k)}]
<1>1. \A y \in DeployChains, k \in K : Deploy!After(y, k) \in DeployChains
  BY DeployFirstTyped
<1>2. ASSUME NEW y \in P, NEW k \in K, Deploy!Succeeds(y, k, late)
      PROVE  /\ Deploy!After(y, k) \in P
             /\ D[y] \cup {k} \subseteq D[Deploy!After(y, k)]
  <2> DEFINE z == Deploy!After(y, k)
  <2>1. y \in DeployChains /\ DeployFirstKeeps(c, y, d, u) /\ DeployFirstBase(y, d)
    OBVIOUS
  <2>2. /\ z \in DeployChains /\ DeployFirstBase(z, d)
        /\ DeployFirstKeeps(y, z, d, u) /\ DeployFirstDone(z, d, u, k)
    <3> HIDE DEF P, D, K
    <3>1. k \in DeployFirst(d, u)
      BY DEF K
    <3> QED BY <3>1, <2>1, <1>2, DeployFirstStep
  <2> HIDE DEF z
  <2>3. DeployFirstKeeps(c, z, d, u)
    BY <2>1, <2>2, DeployFirstKeepsOn
  <2>4. ASSUME NEW n \in D[y] PROVE n \in D[z]
    <3>1. n \in K /\ DeployFirstDone(y, d, u, n)
      BY <2>1, <2>4
    <3>2. DeployFirstDone(z, d, u, n)
      BY <3>1, <2>2, DeployFirstDoneStays
    <3> QED BY <3>1, <3>2, <2>2
  <2>5. k \in D[z] /\ z \in P
    BY <2>2, <2>3
  <2>6. D[y] \cup {k} \subseteq D[z]
    BY <2>4, <2>5
  <2> QED BY <2>5, <2>6 DEF z
<1>3. c \in P /\ P \in SUBSET DeployChains /\ D \in [DeployChains -> SUBSET K]
  BY DeployFirstKeepsAll
<1>4. \A y \in P, k \in K :
        Deploy!Succeeds(y, k, late)
          => Deploy!After(y, k) \in P /\ D[y] \cup {k} \subseteq D[Deploy!After(y, k)]
  BY <1>2
<1>5. b # <<>> => b[1] \in K
  OBVIOUS
<1>6. /\ x \in P /\ D[c] \subseteq D[x]
      /\ \A k : Has(b, k) => k \in D[x]
  <2> HIDE DEF P, D, K
  <2>1. b \in Seq(K)
    BY DEF K
  <2>2. b # <<>> => \A y \in P :
            Deploy!Succeeds(y, b[1], late)
               => /\ Deploy!After(y, b[1]) \in P
                  /\ D[y] \cup {b[1]} \subseteq D[Deploy!After(y, b[1])]
    BY <1>4, <1>5
  <2> DEFINE D0 == D[c]
  <2>3. D0 \subseteq D[c]
    OBVIOUS
  <2> HIDE DEF D0
  <2>4. DeployFold(c, b, late).ok =>
            /\ DeployFold(c, b, late).chain \in P
            /\ D0 \subseteq D[DeployFold(c, b, late).chain]
            /\ \A k : Has(b, k) => k \in D[DeployFold(c, b, late).chain]
    BY <1>1, <1>3, <1>4, <2>1, <2>2, <2>3, DeployBatchDoes
  <2> QED BY <2>4 DEF D0
<1>7. ASSUME NEW k \in K PROVE DeployFirstDone(x, d, u, k)
  <2>1. k \in D[x]
    <3>1. CASE Has(b, k)
      BY <3>1, <1>6
    <3>2. CASE DeployFirstDone(c, d, u, k)
      BY <3>2, <1>6
    <3> QED BY <3>1, <3>2 DEF DeployFirstFull
  <2> QED BY <1>6, <2>1
<1> QED BY <1>6, <1>7

(* Deployments as the properties see them. *)
DeployUntouched(c, d) ==
  /\ c.penrose[d] = Deploy!NewPenrose /\ ~c.usdo[d].helper
  /\ \A t \in Deploy!YbTokens : <<t, d>> \notin c.assets
DeployWired(c, d) ==
  LET p == c.penrose[d] IN
  /\ p.usdo = d /\ p.markets = Deploy!Markets /\ p.masters = DeployMasters
  /\ p.eth = IF IsHost THEN EthMarket ELSE NoMarket
  /\ c.usdo[d].helper
  /\ \A t \in Deploy!YbTokens : <<t, d>> \in c.assets
DeployClosed(c, d) ==
  /\ \A m \in Deploy!Markets : c.market[d][m] = Deploy!NewMarket
  /\ c.penrose[d].mainToken = Weth
  /\ \A t \in Deploy!YbTokens : <<t, d>> \notin c.seeded
DeployUp(c, d) ==
  /\ \A m \in Deploy!Markets : c.market[d][m].ready /\ c.market[d][m].helper
  /\ c.penrose[d].mainToken = IF IsHost THEN EthMarket ELSE Weth
  /\ \A t \in Deploy!YbTokens \ {UsdcMock} : <<t, d>> \in c.seeded

LEMMA DeployFirstWires ==
  ASSUME NEW d \in Deploy!Deployments, NEW u \in Deploy!Ids, NEW c \in DeployChains,
         DeployFirstBase(c, d),
         \A k \in DeployFirst(d, u) : DeployFirstDone(c, d, u, k)
  PROVE  DeployWired(c, d) /\ DeployHasMasters(c, d) /\ c.penrose[d].usdoId = u
<1> DEFINE p == c.penrose[d]
<1>1. p \in DeployPenroses
  BY DeployChainParts
<1>2. p.usdo = d /\ p.usdoId = u
  <2>1. DeployFirstDone(c, d, u, Deploy!setUsdoToken(d, u))
    BY DEF DeployFirst
  <2> QED BY <2>1 DEF DeployFirstDone, Deploy!setUsdoToken
<1>3. c.usdo[d].helper
  <2>1. DeployFirstDone(c, d, u, Deploy!setFlashHelper(d))
    BY DEF DeployFirst
  <2> QED BY <2>1 DEF DeployFirstDone, Deploy!setFlashHelper
<1>4. p.masters = DeployMasters
  <2>1. ASSUME NEW n \in DeployMasters PROVE n \in p.masters
    <3>1. DeployFirstDone(c, d, u, Deploy!registerMaster(d, n))
      BY DEF DeployFirst
    <3> QED BY <3>1 DEF DeployFirstDone, Deploy!registerMaster
  <2> QED BY <2>1 DEF DeployFirstBase
<1>5. p.markets = Deploy!Markets
  <2>1. ASSUME NEW m \in Deploy!Markets PROVE m \in p.markets
    <3>1. DeployFirstDone(c, d, u, Deploy!addMarket(d, m))
      BY DEF DeployFirst
    <3> QED BY <3>1 DEF DeployFirstDone, Deploy!addMarket
  <2> QED BY <1>1, <2>1 DEF DeployPenroses
<1>6. p.eth = IF IsHost THEN EthMarket ELSE NoMarket
  <2>1. CASE IsHost
    <3>1. DeployFirstDone(c, d, u, Deploy!setEthMarket(d, EthMarket))
      BY <2>1 DEF DeployFirst
    <3> QED BY <2>1, <3>1 DEF DeployFirstDone, Deploy!setEthMarket
  <2>2. CASE ~IsHost
    BY <2>2 DEF DeployFirstBase
  <2> QED BY <2>1, <2>2
<1>7. ASSUME NEW t \in Deploy!YbTokens PROVE <<t, d>> \in c.assets
  <2>1. DeployFirstDone(c, d, u, Deploy!registerAsset(d, <<t, d>>))
    BY DEF DeployFirst
  <2> QED BY <2>1 DEF DeployFirstDone, Deploy!registerAsset
<1>8. DeployHasMasters(c, d)
  BY DEF DeployFirstBase
<1> QED BY <1>2, <1>3, <1>4, <1>5, <1>6, <1>7, <1>8 DEF DeployWired

LEMMA DeployWiredIsFull ==
  ASSUME NEW d, NEW u, NEW c, NEW b, DeployWired(c, d), c.penrose[d].usdoId = u
  PROVE  DeployFirstFull(c, b, d, u)
<1>1. ASSUME NEW k \in DeployFirst(d, u) PROVE DeployFirstDone(c, d, u, k)
  <2>1. \/ k = Deploy!setUsdoToken(d, u) \/ k = Deploy!setFlashHelper(d)
        \/ \E a \in Deploy!Operators, v \in BOOLEAN :
              k = Deploy!setMinter(d, a, v) \/ k = Deploy!setBurner(d, a, v)
        \/ \E n \in DeployMasters : k = Deploy!registerMaster(d, n)
        \/ \E m \in Deploy!Markets : k = Deploy!addMarket(d, m)
        \/ IsHost /\ k = Deploy!setEthMarket(d, EthMarket)
        \/ \E t \in Deploy!YbTokens : k = Deploy!registerAsset(d, <<t, d>>)
    BY DeployFirstCases
  <2> QED BY <2>1 DEF DeployFirstDone, DeployWired, Deploy!setUsdoToken, Deploy!setFlashHelper,
             Deploy!setMinter, Deploy!setBurner, Deploy!registerMaster, Deploy!addMarket,
             Deploy!setEthMarket, Deploy!registerAsset
<1> QED BY <1>1 DEF DeployFirstFull

(***************************************************************************)
(* The second batch of a wired deployment d: for markets that are not up   *)
(* it is all of DeploySecond, for a live deployment it is calls of         *)
(* DeployRest.                                                             *)
(***************************************************************************)
DeploySeeds == Deploy!YbTokens \ {UsdcMock}
DeployRest(d) ==
  {Deploy!wrap(d)} \cup DeployRoles(d) \cup {Deploy!depositAsset(d, <<t, d>>) : t \in DeploySeeds}
DeploySecond(d, u) ==
  DeployRest(d)
  \cup {Deploy!setMain(d, m, <<m, d>>) : m \in IF IsHost THEN {EthMarket} ELSE {}}
  \cup {Deploy!initBB(d, m, <<Deploy!Collateral(m), d>>) : m \in BBs}
  \cup {Deploy!configBB(d, m, ConfiguredCap) : m \in BBs}
  \cup {Deploy!initSGL(d, m, u, <<Deploy!Collateral(m), d>>) : m \in SGLs}
  \cup {Deploy!configSGL(d, m) : m \in SGLs}

DeploySecondDone(x, d, k) ==
  /\ k.fn = "setMainTokens" => x.penrose[d].mainToken = EthMarket
  /\ k.fn = "depositAsset" => k.id \in x.seeded
  /\ k.fn \in {"initBB", "initSGL"} => x.market[d][k.market].ready
  /\ k.fn \in {"configBB", "configSGL"} => x.market[d][k.market].helper

(* What is known of its markets and of the main asset in between. *)
DeploySecondFits(x, d, u) ==
  /\ x.penrose[d].usdoId = u
  /\ \A m \in Deploy!Markets : x.market[d][m].ready =>
        /\ x.market[d][m].assetId = u
        /\ x.market[d][m].collateralId = <<Deploy!Collateral(m), d>>
        /\ m \in BBs => (x.market[d][m].isMain <=> m = EthMarket)
DeploySecondMain(x, d) ==
  IF IsHost THEN /\ x.penrose[d].mainToken = EthMarket
                 /\ x.penrose[d].mainId = <<EthMarket, d>>
  ELSE x.penrose[d].mainToken = Weth
DeploySecondKeeps(x, y, d) ==
  /\ \A e \in Deploy!Deployments : y.usdo[e].helper = x.usdo[e].helper
  /\ \A e \in Deploy!Deployments \ {d} :
        y.penrose[e] = x.penrose[e] /\ y.market[e] = x.market[e]
  /\ y.penrose[d].usdo = x.penrose[d].usdo /\ y.penrose[d].usdoId = x.penrose[d].usdoId
  /\ y.penrose[d].masters = x.penrose[d].masters /\ y.penrose[d].markets = x.penrose[d].markets
  /\ y.penrose[d].eth = x.penrose[d].eth
  /\ x.penrose[d].mainToken = EthMarket => y.penrose[d].mainToken = EthMarket
  /\ \A m \in Deploy!Markets : /\ x.market[d][m].ready => y.market[d][m].ready
                               /\ x.market[d][m].helper => y.market[d][m].helper
  /\ y.assets = x.assets /\ x.seeded \subseteq y.seeded
  /\ \A id \in y.seeded \ x.seeded : \E t \in DeploySeeds : id = <<t, d>>

LEMMA DeploySecondKeepsOn ==
  ASSUME NEW x, NEW y, NEW z, NEW d, DeploySecondKeeps(x, y, d), DeploySecondKeeps(y, z, d)
  PROVE  DeploySecondKeeps(x, z, d)
<1>1. \A id \in z.seeded \ x.seeded : \E t \in DeploySeeds : id = <<t, d>>
  BY DEF DeploySecondKeeps
<1>2. \A m \in Deploy!Markets : /\ x.market[d][m].ready => z.market[d][m].ready
                                /\ x.market[d][m].helper => z.market[d][m].helper
  BY DEF DeploySecondKeeps
<1> QED BY <1>1, <1>2 DEF DeploySecondKeeps

LEMMA DeploySecondKeepsAll ==
  ASSUME NEW x, NEW d
  PROVE  DeploySecondKeeps(x, x, d)
  BY DEF DeploySecondKeeps

LEMMA DeploySecondDoneStays ==
  ASSUME NEW x, NEW y, NEW d, NEW u, NEW k \in DeploySecond(d, u),
         DeploySecondKeeps(x, y, d), DeploySecondDone(x, d, k)
  PROVE  DeploySecondDone(y, d, k)
<1>1. k.fn \in {"initBB", "initSGL", "configBB", "configSGL"} => k.market \in Deploy!Markets
  BY DEF DeploySecond, DeployRest, DeployRoles, Deploy!Markets, Deploy!initBB, Deploy!initSGL,
         Deploy!configBB, Deploy!configSGL, Deploy!setMain, Deploy!wrap, Deploy!setMinter,
         Deploy!setBurner, Deploy!depositAsset
<1> QED BY <1>1 DEF DeploySecondKeeps, DeploySecondDone

LEMMA DeployRestCases ==
  ASSUME NEW d, NEW k \in DeployRest(d)
  PROVE  \/ k = Deploy!wrap(d)
         \/ \E a \in Deploy!Operators, b \in BOOLEAN :
               k = Deploy!setMinter(d, a, b) \/ k = Deploy!setBurner(d, a, b)
         \/ \E t \in DeploySeeds : k = Deploy!depositAsset(d, <<t, d>>)
  BY DEF DeployRest, DeployRoles

LEMMA DeploySecondCases ==
  ASSUME NEW d, NEW u, NEW k \in DeploySecond(d, u)
  PROVE  \/ k \in DeployRest(d)
         \/ IsHost /\ k = Deploy!setMain(d, EthMarket, <<EthMarket, d>>)
         \/ \E m \in BBs : k = Deploy!initBB(d, m, <<Deploy!Collateral(m), d>>)
         \/ \E m \in BBs : k = Deploy!configBB(d, m, ConfiguredCap)
         \/ \E m \in SGLs : k = Deploy!initSGL(d, m, u, <<Deploy!Collateral(m), d>>)
         \/ \E m \in SGLs : k = Deploy!configSGL(d, m)
  BY DEF DeploySecond

LEMMA DeployCollaterals ==
  /\ \A m \in Deploy!Markets, d \in Deploy!Deployments :
        <<Deploy!Collateral(m), d>> \in Deploy!Ids
  /\ \A m \in Deploy!Markets \ Mocks :
        Deploy!Collateral(m) = m /\ m \in DeploySeeds
  /\ IsHost => \A m \in Deploy!Markets : Deploy!Collateral(m) = EthMarket <=> m = EthMarket
  /\ IsHost => EthMarket \in BBs /\ EthMarket \in Deploy!Markets
  /\ \A d \in Deploy!Deployments : IsHost => <<EthMarket, d>> \in Deploy!Ids
<1>1. \A m \in Deploy!Markets, d \in Deploy!Deployments :
        <<Deploy!Collateral(m), d>> \in Deploy!Ids
  BY DEF Deploy!Ids, Deploy!CollateralIds
<1>2. UsdcMock \notin Deploy!Markets
  BY RolloutAssumption DEF Deploy!MarketsAssumption
<1>3. ASSUME NEW m \in Deploy!Markets \ Mocks
      PROVE  Deploy!Collateral(m) = m /\ m \in DeploySeeds
  BY <1>2 DEF Deploy!Collateral, DeploySeeds, Deploy!YbTokens
<1>4. IsHost => EthMarket \in BBs \ Mocks /\ EthMarket \in Deploy!Markets
  BY RolloutAssumption DEF Deploy!ChainAssumption, Deploy!Markets
<1>5. IsHost => \A m \in Deploy!Markets : Deploy!Collateral(m) = EthMarket <=> m = EthMarket
  BY <1>2, <1>4 DEF Deploy!Collateral
<1>6. ASSUME NEW d \in Deploy!Deployments, IsHost PROVE <<EthMarket, d>> \in Deploy!Ids
  BY <1>1, <1>3, <1>4, <1>6
<1> QED BY <1>1, <1>3, <1>4, <1>5, <1>6

LEMMA DeployRestStep ==
  ASSUME NEW d \in Deploy!Deployments, NEW k \in DeployRest(d), NEW x \in DeployChains,
         NEW y, y = Deploy!After(x, k)
  PROVE  /\ y \in DeployChains /\ y.penrose = x.penrose /\ y.market = x.market
         /\ DeploySecondKeeps(x, y, d) /\ DeploySecondDone(y, d, k)
<1>1. CASE k = Deploy!wrap(d)
  <2>1. y = x
    BY <1>1, DeployWraps
  <2>2. DeploySecondDone(y, d, k)
    BY <1>1 DEF DeploySecondDone, Deploy!wrap
  <2> QED BY <2>1, <2>2, DeploySecondKeepsAll
<1>2. CASE \E a \in Deploy!Operators, b \in BOOLEAN :
              k = Deploy!setMinter(d, a, b) \/ k = Deploy!setBurner(d, a, b)
  <2>1. PICK a \in Deploy!Operators, b \in BOOLEAN :
              k = Deploy!setMinter(d, a, b) \/ k = Deploy!setBurner(d, a, b)
    BY <1>2
  <2>2. /\ y \in DeployChains
        /\ \A e \in Deploy!Deployments : y.usdo[e].helper = x.usdo[e].helper
        /\ y.penrose = x.penrose /\ y.market = x.market
        /\ y.assets = x.assets /\ y.seeded = x.seeded
    <3>1. y \in {Deploy!After(x, Deploy!setMinter(d, a, b)),
                 Deploy!After(x, Deploy!setBurner(d, a, b))}
      BY <2>1
    <3> QED BY <3>1, DeploySetsMinter
  <2>3. DeploySecondKeeps(x, y, d)
    BY <2>2 DEF DeploySecondKeeps
  <2>4. DeploySecondDone(y, d, k)
    BY <2>1 DEF DeploySecondDone, Deploy!setMinter, Deploy!setBurner
  <2> QED BY <2>2, <2>3, <2>4
<1>3. CASE \E t \in DeploySeeds : k = Deploy!depositAsset(d, <<t, d>>)
  <2>1. PICK t \in DeploySeeds : k = Deploy!depositAsset(d, <<t, d>>)
    BY <1>3
  <2>2. <<t, d>> \in Deploy!Ids
    BY DeployYbIds DEF DeploySeeds
  <2>3. /\ y \in DeployChains /\ y.usdo = x.usdo
        /\ y.penrose = x.penrose /\ y.market = x.market
        /\ y.assets = x.assets /\ y.seeded = x.seeded \cup {<<t, d>>}
    BY <2>1, <2>2, DeployDeposits
  <2>4. DeploySecondKeeps(x, y, d)
    BY <2>3 DEF DeploySecondKeeps
  <2>5. DeploySecondDone(y, d, k)
    BY <2>1, <2>3 DEF DeploySecondDone, Deploy!depositAsset
  <2> QED BY <2>3, <2>4, <2>5
<1> QED BY <1>1, <1>2, <1>3, DeployRestCases

LEMMA DeploySecondStep ==
  ASSUME NEW d \in Deploy!Deployments, NEW u \in Deploy!Ids, NEW k \in DeploySecond(d, u),
         NEW x \in DeployChains, DeploySecondFits(x, d, u), BBs = {} \/ IsHost,
         DeploySecondMain(x, d) \/ k = Deploy!setMain(d, EthMarket, <<EthMarket, d>>),
         NEW y, y = Deploy!After(x, k), k \in DeployRest(d) => DeploySecondMain(x, d)
  PROVE  /\ y \in DeployChains /\ DeploySecondFits(y, d, u) /\ DeploySecondMain(y, d)
         /\ DeploySecondKeeps(x, y, d) /\ DeploySecondDone(y, d, k)
<1>0. /\ x.penrose \in [Deploy!Deployments -> DeployPenroses]
      /\ x.penrose[d] \in DeployPenroses
      /\ x.market \in [Deploy!Deployments -> [Deploy!Markets -> DeployMarkets]]
  BY DeployChainParts
<1>1. CASE k \in DeployRest(d)
  <2>1. /\ y \in DeployChains /\ y.penrose = x.penrose /\ y.market = x.market
        /\ DeploySecondKeeps(x, y, d) /\ DeploySecondDone(y, d, k)
    BY <1>1, DeployRestStep
  <2> QED BY <1>1, <2>1 DEF DeploySecondFits, DeploySecondMain
<1>2. CASE IsHost /\ k = Deploy!setMain(d, EthMarket, <<EthMarket, d>>)
  <2>1. <<EthMarket, d>> \in Deploy!Ids
    BY <1>2, DeployCollaterals
  <2>2. <<EthMarket, d>> # NoId
    <3>1. EthMarket \in Deploy!Markets
      BY <1>2, DeployCollaterals
    <3> QED BY <3>1, RolloutAssumption DEF Deploy!MarketsAssumption
  <2>3. /\ y \in DeployChains
        /\ y.penrose[d] = DeployWithMain(x.penrose[d], <<EthMarket, d>>)
        /\ \A e \in Deploy!Deployments \ {d} : y.penrose[e] = x.penrose[e]
        /\ y.usdo = x.usdo /\ y.market = x.market
        /\ y.assets = x.assets /\ y.seeded = x.seeded
    <3> DEFINE id == <<EthMarket, d>>
    <3>1. id \in Deploy!Ids /\ id # NoId /\ y = Deploy!After(x, Deploy!setMain(d, EthMarket, id))
      BY <1>2, <2>1, <2>2
    <3> HIDE DEF id
    <3>2. /\ y \in DeployChains
          /\ y.penrose[d] = DeployWithMain(x.penrose[d], id)
          /\ \A e \in Deploy!Deployments \ {d} : y.penrose[e] = x.penrose[e]
          /\ y.usdo = x.usdo /\ y.market = x.market
          /\ y.assets = x.assets /\ y.seeded = x.seeded
      BY <3>1, DeploySetsMain
    <3> QED BY <3>2 DEF id
  <2>4. /\ y.penrose[d].mainToken = EthMarket /\ y.penrose[d].mainId = <<EthMarket, d>>
        /\ y.penrose[d].usdo = x.penrose[d].usdo /\ y.penrose[d].usdoId = x.penrose[d].usdoId
        /\ y.penrose[d].masters = x.penrose[d].masters
        /\ y.penrose[d].markets = x.penrose[d].markets /\ y.penrose[d].eth = x.penrose[d].eth
    BY <1>0, <2>3 DEF DeployWithMain, DeployPenroses
  <2>5. DeploySecondFits(y, d, u) /\ DeploySecondMain(y, d)
    BY <1>2, <2>3, <2>4 DEF DeploySecondFits, DeploySecondMain
  <2>6. DeploySecondKeeps(x, y, d)
    BY <2>3, <2>4 DEF DeploySecondKeeps
  <2>7. DeploySecondDone(y, d, k)
    BY <1>2, <2>4 DEF DeploySecondDone, Deploy!setMain
  <2> QED BY <2>3, <2>5, <2>6, <2>7
<1> DEFINE Moved(m) ==
      /\ y \in DeployChains
      /\ \A n \in Deploy!Markets \ {m} : y.market[d][n] = x.market[d][n]
      /\ \A e \in Deploy!Deployments \ {d} : y.market[e] = x.market[e]
      /\ y.penrose = x.penrose /\ y.usdo = x.usdo
      /\ y.assets = x.assets /\ y.seeded = x.seeded
      /\ x.market[d][m].ready => y.market[d][m].ready
      /\ x.market[d][m].helper => y.market[d][m].helper
      /\ y.market[d][m].ready =>
           /\ y.market[d][m].assetId = u
           /\ y.market[d][m].collateralId = <<Deploy!Collateral(m), d>>
           /\ m \in BBs => (y.market[d][m].isMain <=> m = EthMarket)
<1>3. ASSUME NEW m \in Deploy!Markets, Moved(m), DeploySecondMain(x, d)
      PROVE  /\ y \in DeployChains /\ DeploySecondFits(y, d, u) /\ DeploySecondMain(y, d)
             /\ DeploySecondKeeps(x, y, d)
  <2>1. DeploySecondFits(y, d, u)
    BY <1>3 DEF DeploySecondFits
  <2>2. DeploySecondMain(y, d)
    BY <1>3 DEF DeploySecondMain
  <2>3. DeploySecondKeeps(x, y, d)
    BY <1>3 DEF DeploySecondKeeps
  <2> QED BY <1>3, <2>1, <2>2, <2>3
<1>4. CASE \E m \in BBs : k = Deploy!initBB(d, m, <<Deploy!Collateral(m), d>>)
  <2>1. PICK m \in BBs : k = Deploy!initBB(d, m, <<Deploy!Collateral(m), d>>)
    BY <1>4
  <2> DEFINE id == <<Deploy!Collateral(m), d>>
  <2>2. /\ m \in Deploy!Markets /\ IsHost /\ id \in Deploy!Ids
        /\ Deploy!Collateral(m) = EthMarket <=> m = EthMarket
    BY DeployCollaterals DEF Deploy!Markets
  <2>3. id = <<EthMarket, d>> <=> m = EthMarket
    BY <2>2
  <2>4. DeploySecondMain(x, d)
    BY <2>1 DEF Deploy!initBB, Deploy!setMain
  <2>5. id = x.penrose[d].mainId <=> m = EthMarket
    BY <2>2, <2>3, <2>4 DEF DeploySecondMain
  <2>6. k = Deploy!initBB(d, m, id)
    BY <2>1
  <2> HIDE DEF id
  <2>7. /\ y \in DeployChains
        /\ DeployInitedBB(x.market[d][m], y.market[d][m], x.penrose[d], id)
        /\ \A n \in Deploy!Markets \ {m} : y.market[d][n] = x.market[d][n]
        /\ \A e \in Deploy!Deployments \ {d} : y.market[e] = x.market[e]
        /\ y.penrose = x.penrose /\ y.usdo = x.usdo
        /\ y.assets = x.assets /\ y.seeded = x.seeded
    BY <2>2, <2>6, DeployInitsBB
  <2>8. Moved(m)
    BY <2>5, <2>7 DEF DeployInitedBB, DeploySecondFits, id
  <2>9. DeploySecondDone(y, d, k)
    BY <2>6, <2>7 DEF DeployInitedBB, DeploySecondDone, Deploy!initBB
  <2> HIDE DEF Moved
  <2> QED BY <1>3, <2>2, <2>4, <2>8, <2>9
<1>5. CASE \E m \in SGLs : k = Deploy!initSGL(d, m, u, <<Deploy!Collateral(m), d>>)
  <2>1. PICK m \in SGLs : k = Deploy!initSGL(d, m, u, <<Deploy!Collateral(m), d>>)
    BY <1>5
  <2> DEFINE id == <<Deploy!Collateral(m), d>>
  <2>2. m \in Deploy!Markets /\ id \in Deploy!Ids /\ m \notin BBs
    BY DeployCollaterals, RolloutAssumption DEF Deploy!Markets, Deploy!MarketsAssumption
  <2>4. DeploySecondMain(x, d)
    BY <2>1 DEF Deploy!initSGL, Deploy!setMain
  <2>6. k = Deploy!initSGL(d, m, u, id)
    BY <2>1
  <2> HIDE DEF id
  <2>7. /\ y \in DeployChains
        /\ DeployInitedSGL(x.market[d][m], y.market[d][m], u, id)
        /\ \A n \in Deploy!Markets \ {m} : y.market[d][n] = x.market[d][n]
        /\ \A e \in Deploy!Deployments \ {d} : y.market[e] = x.market[e]
        /\ y.penrose = x.penrose /\ y.usdo = x.usdo
        /\ y.assets = x.assets /\ y.seeded = x.seeded
    BY <2>2, <2>6, DeployInitsSGL
  <2>8. Moved(m)
    BY <2>2, <2>7 DEF DeployInitedSGL, id
  <2>9. DeploySecondDone(y, d, k)
    BY <2>6, <2>7 DEF DeployInitedSGL, DeploySecondDone, Deploy!initSGL
  <2> HIDE DEF Moved
  <2> QED BY <1>3, <2>2, <2>4, <2>8, <2>9
<1>6. CASE \/ \E m \in BBs : k = Deploy!configBB(d, m, ConfiguredCap)
           \/ \E m \in SGLs : k = Deploy!configSGL(d, m)
  <2>1. PICK m \in Deploy!Markets :
           k = Deploy!configBB(d, m, ConfiguredCap) \/ k = Deploy!configSGL(d, m)
    BY <1>6 DEF Deploy!Markets
  <2>2. DeploySecondMain(x, d)
    BY <2>1 DEF Deploy!configBB, Deploy!configSGL, Deploy!setMain
  <2>3. ConfiguredCap \in Caps
    BY RolloutAssumption DEF Deploy!MarketsAssumption
  <2>4. y \in {Deploy!After(x, Deploy!configBB(d, m, ConfiguredCap)),
               Deploy!After(x, Deploy!configSGL(d, m))}
    BY <2>1
  <2>5. /\ y \in DeployChains
        /\ DeployConfigured(x.market[d][m], y.market[d][m])
        /\ \A n \in Deploy!Markets \ {m} : y.market[d][n] = x.market[d][n]
        /\ \A e \in Deploy!Deployments \ {d} : y.market[e] = x.market[e]
        /\ y.penrose = x.penrose /\ y.usdo = x.usdo
        /\ y.assets = x.assets /\ y.seeded = x.seeded
    BY <2>3, <2>4, DeployConfigs
  <2>6. Moved(m)
    BY <2>5 DEF DeployConfigured, DeploySecondFits
  <2>7. DeploySecondDone(y, d, k)
    BY <2>1, <2>5 DEF DeployConfigured, DeploySecondDone, Deploy!configBB, Deploy!configSGL
  <2> HIDE DEF Moved
  <2> QED BY <1>3, <2>2, <2>6, <2>7
<1> QED BY <1>1, <1>2, <1>4, <1>5, <1>6, DeploySecondCases

DeploySecondFull(b, d, u) ==
  /\ b \in Seq(DeploySecond(d, u)) /\ b # <<>>
  /\ IsHost => b[1] = Deploy!setMain(d, EthMarket, <<EthMarket, d>>)
  /\ \A t \in DeploySeeds : Has(b, Deploy!depositAsset(d, <<t, d>>))
  /\ \A m \in BBs : /\ Has(b, Deploy!initBB(d, m, <<Deploy!Collateral(m), d>>))
                    /\ Has(b, Deploy!configBB(d, m, ConfiguredCap))
  /\ \A m \in SGLs : /\ Has(b, Deploy!initSGL(d, m, u, <<Deploy!Collateral(m), d>>))
                     /\ Has(b, Deploy!configSGL(d, m))

LEMMA DeployWiredHost ==
  ASSUME NEW c, NEW d, DeployWired(c, d), DeployHasMasters(c, d)
  PROVE  BBs = {} \/ IsHost
<1> SUFFICES ASSUME NEW m \in BBs, ~IsHost PROVE FALSE
  OBVIOUS
<1>1. Deploy!Kind(m) = "BB" /\ m \in c.penrose[d].markets
  BY DEF Deploy!Kind, DeployWired, Deploy!Markets
<1>2. c.penrose[d].masters = {"SGL"}
  BY DEF DeployWired, DeployMasters
<1> QED BY <1>1, <1>2 DEF DeployHasMasters

LEMMA DeploySecondBatch ==
  ASSUME NEW d \in Deploy!Deployments, NEW u \in Deploy!Ids, NEW c \in DeployChains,
         DeployWired(c, d), DeployHasMasters(c, d), DeployClosed(c, d), c.penrose[d].usdoId = u,
         NEW b, DeploySecondFull(b, d, u), NEW late, DeployFold(c, b, late).ok,
         NEW x, x = DeployFold(c, b, late).chain
  PROVE  /\ x \in DeployChains /\ DeploySecondKeeps(c, x, d) /\ DeploySecondFits(x, d, u)
         /\ DeployUp(x, d)
<1> DEFINE K == DeploySecond(d, u)
           Q == {y \in DeployChains : /\ DeploySecondKeeps(c, y, d) /\ DeploySecondFits(y, d, u)
                                      /\ IsHost \/ DeploySecondMain(y, d)}
           P == {y \in Q : DeploySecondMain(y, d)}
           D == [y \in DeployChains |-> {k \in K : DeploySecondDone(y, d, k)}]
<1>0. BBs = {} \/ IsHost
  BY DeployWiredHost
<1>1. ASSUME NEW y \in DeployChains, NEW k \in K
      PROVE  Deploy!After(y, k) \in DeployChains
  <2> HIDE DEF P, Q, D
  <2>1. CASE k \in DeployRest(d)
    BY <2>1, DeployRestStep
  <2>2. CASE IsHost /\ k = Deploy!setMain(d, EthMarket, <<EthMarket, d>>)
    <3>1. <<EthMarket, d>> \in Deploy!Ids
      BY <2>2, DeployCollaterals
    <3>2. <<EthMarket, d>> # NoId
      <4>1. EthMarket \in Deploy!Markets
        BY <2>2, DeployCollaterals
      <4> QED BY <4>1, RolloutAssumption DEF Deploy!MarketsAssumption
    <3> DEFINE id == <<EthMarket, d>>
    <3>3. id \in Deploy!Ids /\ id # NoId
          /\ Deploy!After(y, k) = Deploy!After(y, Deploy!setMain(d, EthMarket, id))
      BY <2>2, <3>1, <3>2
    <3> HIDE DEF id
    <3> QED BY <3>3, DeploySetsMain
  <2>3. ASSUME NEW m \in BBs, k = Deploy!initBB(d, m, <<Deploy!Collateral(m), d>>)
        PROVE  Deploy!After(y, k) \in DeployChains
    <3> DEFINE id == <<Deploy!Collateral(m), d>>
    <3>1. m \in Deploy!Markets /\ id \in Deploy!Ids /\ k = Deploy!initBB(d, m, id)
      BY <2>3, DeployCollaterals DEF Deploy!Markets
    <3> HIDE DEF id
    <3> QED BY <3>1, DeployInitsBB
  <2>4. ASSUME NEW m \in SGLs, k = Deploy!initSGL(d, m, u, <<Deploy!Collateral(m), d>>)
        PROVE  Deploy!After(y, k) \in DeployChains
    <3> DEFINE id == <<Deploy!Collateral(m), d>>
    <3>1. m \in Deploy!Markets /\ id \in Deploy!Ids /\ k = Deploy!initSGL(d, m, u, id)
      BY <2>4, DeployCollaterals DEF Deploy!Markets
    <3> HIDE DEF id
    <3> QED BY <3>1, DeployInitsSGL
  <2>5. ASSUME NEW m \in Deploy!Markets,
               k = Deploy!configBB(d, m, ConfiguredCap) \/ k = Deploy!configSGL(d, m)
        PROVE  Deploy!After(y, k) \in DeployChains
    <3>1. Deploy!After(y, k) \in {Deploy!After(y, Deploy!configBB(d, m, ConfiguredCap)),
                                  Deploy!After(y, Deploy!configSGL(d, m))}
      BY <2>5
    <3>2. ConfiguredCap \in Caps
      BY RolloutAssumption DEF Deploy!MarketsAssumption
    <3> QED BY <3>1, <3>2, DeployConfigs
  <2> QED BY <2>1, <2>2, <2>3, <2>4, <2>5, DeploySecondCases DEF Deploy!Markets
<1>2. ASSUME NEW y \in Q, NEW k \in K,
             DeploySecondMain(y, d) \/ k = Deploy!setMain(d, EthMarket, <<EthMarket, d>>)
      PROVE  /\ Deploy!After(y, k) \in P
             /\ D[y] \cup {k} \subseteq D[Deploy!After(y, k)]
  <2> DEFINE z == Deploy!After(y, k)
  <2>1. y \in DeployChains /\ DeploySecondKeeps(c, y, d) /\ DeploySecondFits(y, d, u)
    OBVIOUS
  <2>2. k \in DeployRest(d) => DeploySecondMain(y, d)
    <3>1. k \in DeployRest(d) => k # Deploy!setMain(d, EthMarket, <<EthMarket, d>>)
      BY DEF DeployRest, DeployRoles, Deploy!setMain, Deploy!wrap, Deploy!setMinter,
             Deploy!setBurner, Deploy!depositAsset
    <3> QED BY <1>2, <3>1
  <2>3. /\ z \in DeployChains /\ DeploySecondFits(z, d, u) /\ DeploySecondMain(z, d)
        /\ DeploySecondKeeps(y, z, d) /\ DeploySecondDone(z, d, k)
    <3> HIDE DEF P, Q, D, K
    <3>1. k \in DeploySecond(d, u)
      BY DEF K
    <3> QED BY <3>1, <2>1, <2>2, <1>0, <1>2, DeploySecondStep
  <2> HIDE DEF z
  <2>4. DeploySecondKeeps(c, z, d)
    BY <2>1, <2>3, DeploySecondKeepsOn
  <2>5. ASSUME NEW n \in D[y] PROVE n \in D[z]
    <3>1. n \in K /\ DeploySecondDone(y, d, n)
      BY <2>1, <2>5
    <3>2. DeploySecondDone(z, d, n)
      BY <3>1, <2>3, DeploySecondDoneStays
    <3> QED BY <3>1, <3>2, <2>3
  <2>6. k \in D[z] /\ z \in P
    BY <2>3, <2>4
  <2>7. D[y] \cup {k} \subseteq D[z]
    BY <2>5, <2>6
  <2> QED BY <2>6, <2>7 DEF z
<1>3. c \in Q
  <2>1. DeploySecondFits(c, d, u)
    BY DEF DeploySecondFits, DeployClosed, Deploy!NewMarket
  <2>2. IsHost \/ DeploySecondMain(c, d)
    BY DEF DeploySecondMain, DeployClosed
  <2> QED BY <2>1, <2>2, DeploySecondKeepsAll
<1>4. /\ P \in SUBSET DeployChains /\ Q \in SUBSET DeployChains
      /\ D \in [DeployChains -> SUBSET K]
  OBVIOUS
<1>5. \A y \in P, k \in K :
        Deploy!Succeeds(y, k, late)
          => Deploy!After(y, k) \in P /\ D[y] \cup {k} \subseteq D[Deploy!After(y, k)]
  <2>1. ASSUME NEW y \in P, NEW k \in K
        PROVE  Deploy!After(y, k) \in P /\ D[y] \cup {k} \subseteq D[Deploy!After(y, k)]
    <3>1. y \in Q /\ DeploySecondMain(y, d)
      OBVIOUS
    <3> HIDE DEF P, Q, D, K
    <3> QED BY <3>1, <1>2
  <2> QED BY <2>1
<1>6. b \in Seq(K) /\ b # <<>> /\ b[1] \in K
  BY DEF DeploySecondFull
<1>7. \A y \in Q :
        Deploy!Succeeds(y, b[1], late)
          => /\ Deploy!After(y, b[1]) \in P
             /\ D[y] \cup {b[1]} \subseteq D[Deploy!After(y, b[1])]
  <2>1. ASSUME NEW y \in Q
        PROVE  /\ Deploy!After(y, b[1]) \in P
               /\ D[y] \cup {b[1]} \subseteq D[Deploy!After(y, b[1])]
    <3>1. \/ DeploySecondMain(y, d)
          \/ b[1] = Deploy!setMain(d, EthMarket, <<EthMarket, d>>)
      BY DEF DeploySecondFull
    <3> HIDE DEF P, Q, D, K
    <3> QED BY <3>1, <1>2, <1>6
  <2> QED BY <2>1
<1>8. x \in P /\ \A k : Has(b, k) => k \in D[x]
  <2> HIDE DEF P, Q, D, K
  <2>1. \A y \in DeployChains, k \in K : Deploy!After(y, k) \in DeployChains
    BY <1>1
  <2> DEFINE D0 == {}
  <2>2. D0 \subseteq D[c]
    OBVIOUS
  <2> HIDE DEF D0
  <2>3. DeployFold(c, b, late).ok =>
            /\ DeployFold(c, b, late).chain \in P
            /\ D0 \subseteq D[DeployFold(c, b, late).chain]
            /\ \A k : Has(b, k) => k \in D[DeployFold(c, b, late).chain]
    BY <2>1, <2>2, <1>3, <1>4, <1>5, <1>6, <1>7, DeployBatchDoes
  <2> QED BY <2>3
<1>9. ASSUME NEW k, Has(b, k) PROVE DeploySecondDone(x, d, k)
  BY <1>8, <1>9
<1>10. x \in DeployChains /\ DeploySecondKeeps(c, x, d) /\ DeploySecondFits(x, d, u)
       /\ DeploySecondMain(x, d)
  BY <1>8
<1> HIDE DEF P, Q, D, K
<1>11. ASSUME NEW m \in Deploy!Markets
       PROVE  x.market[d][m].ready /\ x.market[d][m].helper
  <2>1. CASE m \in BBs
    <3>1. /\ DeploySecondDone(x, d, Deploy!initBB(d, m, <<Deploy!Collateral(m), d>>))
          /\ DeploySecondDone(x, d, Deploy!configBB(d, m, ConfiguredCap))
      BY <2>1, <1>9 DEF DeploySecondFull
    <3> QED BY <3>1 DEF DeploySecondDone, Deploy!initBB, Deploy!configBB
  <2>2. CASE m \in SGLs
    <3>1. /\ DeploySecondDone(x, d, Deploy!initSGL(d, m, u, <<Deploy!Collateral(m), d>>))
          /\ DeploySecondDone(x, d, Deploy!configSGL(d, m))
      BY <2>2, <1>9 DEF DeploySecondFull
    <3> QED BY <3>1 DEF DeploySecondDone, Deploy!initSGL, Deploy!configSGL
  <2> QED BY <2>1, <2>2 DEF Deploy!Markets
<1>12. ASSUME NEW t \in DeploySeeds PROVE <<t, d>> \in x.seeded
  <2>1. DeploySecondDone(x, d, Deploy!depositAsset(d, <<t, d>>))
    BY <1>9 DEF DeploySecondFull
  <2> QED BY <2>1 DEF DeploySecondDone, Deploy!depositAsset
<1> QED BY <1>10, <1>11, <1>12 DEF DeployUp, DeploySecondMain, DeploySeeds

LEMMA DeployRestBatch ==
  ASSUME NEW d \in Deploy!Deployments, NEW c \in DeployChains,
         NEW b \in Seq(DeployRest(d)), NEW late, DeployFold(c, b, late).ok,
         NEW x, x = DeployFold(c, b, late).chain
  PROVE  /\ x \in DeployChains /\ DeploySecondKeeps(c, x, d)
         /\ x.penrose = c.penrose /\ x.market = c.market
<1> DEFINE K == DeployRest(d)
           P == {y \in DeployChains : /\ DeploySecondKeeps(c, y, d)
                                      /\ y.penrose = c.penrose /\ y.market = c.market}
           D == [y \in DeployChains |-> K]
<1>1. \A y \in DeployChains, k \in K : Deploy!After(y, k) \in DeployChains
  BY DeployRestStep
<1>2. ASSUME NEW y \in P, NEW k \in K
      PROVE  /\ Deploy!After(y, k) \in P
             /\ D[y] \cup {k} \subseteq D[Deploy!After(y, k)]
  <2> DEFINE z == Deploy!After(y, k)
  <2>1. /\ y \in DeployChains /\ DeploySecondKeeps(c, y, d)
        /\ y.penrose = c.penrose /\ y.market = c.market
    OBVIOUS
  <2>2. /\ z \in DeployChains /\ z.penrose = y.penrose /\ z.market = y.market
        /\ DeploySecondKeeps(y, z, d)
    <3> HIDE DEF P, D, K
    <3>1. k \in DeployRest(d)
      BY DEF K
    <3> QED BY <3>1, <2>1, DeployRestStep
  <2> HIDE DEF z
  <2>3. DeploySecondKeeps(c, z, d)
    BY <2>1, <2>2, DeploySecondKeepsOn
  <2>4. z \in P /\ D[y] \cup {k} \subseteq D[z]
    BY <2>1, <2>2, <2>3
  <2> QED BY <2>4 DEF z
<1>3. c \in P /\ P \in SUBSET DeployChains /\ D \in [DeployChains -> SUBSET K]
  BY DeploySecondKeepsAll
<1>4. b # <<>> => b[1] \in K
  OBVIOUS
<1>5. x \in P
  <2> HIDE DEF P, D
  <2>1. b \in Seq(K)
    OBVIOUS
  <2> HIDE DEF K
  <2>2. \A y \in P, k \in K :
           Deploy!Succeeds(y, k, late)
             => Deploy!After(y, k) \in P /\ D[y] \cup {k} \subseteq D[Deploy!After(y, k)]
    BY <1>2
  <2>3. b # <<>> => \A y \in P :
           Deploy!Succeeds(y, b[1], late)
             => /\ Deploy!After(y, b[1]) \in P
                /\ D[y] \cup {b[1]} \subseteq D[Deploy!After(y, b[1])]
    BY <1>2, <1>4
  <2> DEFINE D0 == {}
  <2>4. D0 \subseteq D[c]
    OBVIOUS
  <2> HIDE DEF D0
  <2>5. DeployFold(c, b, late).ok => DeployFold(c, b, late).chain \in P
    BY <1>1, <1>3, <2>1, <2>2, <2>3, <2>4, DeployBatchDoes
  <2> QED BY <2>5
<1> QED BY <1>5

(***************************************************************************)
(* A deployment between transactions.                                      *)
(***************************************************************************)
(* What MarketsFit says of its markets. *)
DeployFits(c, d) ==
  \A m \in Deploy!Markets : c.market[d][m].ready =>
     /\ c.market[d][m].assetId = c.penrose[d].usdoId
     /\ c.market[d][m].assetId \in {d} \X (1 .. MaxStrats)
     /\ m \in BBs => (c.market[d][m].isMain <=> m = c.penrose[d].eth)
     /\ m \notin Mocks => c.market[d][m].collateralId \in c.seeded
DeployGood(c, d) ==
  /\ \/ DeployUntouched(c, d) /\ DeployClosed(c, d)
     \/ DeployWired(c, d) /\ DeployHasMasters(c, d) /\ (DeployClosed(c, d) \/ DeployUp(c, d))
  /\ DeployFits(c, d)

(* The chain changes and the deployment does not. *)
DeployStays(c, x, e) ==
  /\ x.penrose[e] = c.penrose[e] /\ x.usdo[e].helper = c.usdo[e].helper
  /\ x.market[e] = c.market[e]
  /\ \A t \in Deploy!YbTokens : /\ <<t, e>> \in x.assets <=> <<t, e>> \in c.assets
                                /\ <<t, e>> \in x.seeded <=> <<t, e>> \in c.seeded
  /\ c.seeded \subseteq x.seeded

LEMMA DeployStaysGood ==
  ASSUME NEW c, NEW x, NEW e, DeployStays(c, x, e)
  PROVE  /\ DeployUntouched(x, e) <=> DeployUntouched(c, e)
         /\ DeployWired(x, e) <=> DeployWired(c, e)
         /\ DeployClosed(x, e) <=> DeployClosed(c, e)
         /\ DeployGood(c, e) => DeployGood(x, e)
<1>1. DeployUntouched(x, e) <=> DeployUntouched(c, e)
  BY DEF DeployStays, DeployUntouched
<1>2. DeployWired(x, e) <=> DeployWired(c, e)
  BY DEF DeployStays, DeployWired
<1>3. DeployClosed(x, e) <=> DeployClosed(c, e)
  BY DEF DeployStays, DeployClosed
<1>4. DeployUp(c, e) => DeployUp(x, e)
  BY DEF DeployStays, DeployUp
<1>5. DeployHasMasters(c, e) => DeployHasMasters(x, e)
  BY DEF DeployStays, DeployHasMasters
<1>6. DeployFits(c, e) => DeployFits(x, e)
  BY DEF DeployStays, DeployFits
<1> QED BY <1>1, <1>2, <1>3, <1>4, <1>5, <1>6 DEF DeployGood

LEMMA DeployOthersStay ==
  ASSUME NEW c, NEW x, NEW d, NEW u, NEW e \in Deploy!Deployments \ {d},
         DeployFirstKeeps(c, x, d, u) \/ DeploySecondKeeps(c, x, d)
  PROVE  DeployStays(c, x, e)
<1>1. ASSUME NEW t, NEW s PROVE <<t, e>> # <<s, d>>
  OBVIOUS
<1>2. CASE DeployFirstKeeps(c, x, d, u)
  BY <1>1, <1>2 DEF DeployFirstKeeps, DeployStays
<1>3. CASE DeploySecondKeeps(c, x, d)
  BY <1>1, <1>3 DEF DeploySecondKeeps, DeployStays
<1> QED BY <1>2, <1>3

LEMMA DeployNewIsNotReady == ~Deploy!NewMarket.ready
  BY Zenon DEF Deploy!NewMarket

(* The first batch is mined. *)
LEMMA DeployGoodBase ==
  ASSUME NEW c, NEW d, DeployGood(c, d)
  PROVE  DeployFirstBase(c, d)
<1>1. CASE DeployUntouched(c, d)
  BY <1>1 DEF DeployUntouched, DeployFirstBase, DeployHasMasters, Deploy!NewPenrose
<1>2. CASE DeployWired(c, d) /\ DeployHasMasters(c, d)
  BY <1>2 DEF DeployWired, DeployFirstBase
<1> QED BY <1>1, <1>2 DEF DeployGood

LEMMA DeployMinesFirst ==
  ASSUME NEW d \in Deploy!Deployments, NEW u \in Deploy!Ids, NEW c \in DeployChains,
         DeployGood(c, d), DeployWired(c, d) => c.penrose[d].usdoId = u,
         NEW b \in Seq(DeployFirst(d, u)), DeployFirstFull(c, b, d, u),
         NEW late, DeployFold(c, b, late).ok,
         NEW x, x = DeployFold(c, b, late).chain
  PROVE  /\ x \in DeployChains /\ DeployGood(x, d)
         /\ DeployWired(x, d) /\ x.penrose[d].usdoId = u
         /\ DeployClosed(x, d) <=> DeployClosed(c, d)
         /\ DeployUp(c, d) => DeployUp(x, d)
         /\ c.assets \subseteq x.assets /\ x.market = c.market
         /\ \A e \in Deploy!Deployments \ {d} : DeployStays(c, x, e)
<1>1. DeployFirstBase(c, d)
  BY DeployGoodBase
<1>2. /\ x \in DeployChains /\ DeployFirstBase(x, d) /\ DeployFirstKeeps(c, x, d, u)
      /\ \A k \in DeployFirst(d, u) : DeployFirstDone(x, d, u, k)
  BY <1>1, DeployFirstBatch
<1>3. DeployWired(x, d) /\ DeployHasMasters(x, d) /\ x.penrose[d].usdoId = u
  BY <1>2, DeployFirstWires
<1>4. DeployClosed(x, d) <=> DeployClosed(c, d)
  BY <1>2 DEF DeployFirstKeeps, DeployClosed
<1>5. DeployUp(c, d) => DeployUp(x, d)
  BY <1>2 DEF DeployFirstKeeps, DeployUp
<1>6. DeployFits(x, d)
  <2>1. CASE DeployClosed(c, d)
    <3>1. \A m \in Deploy!Markets : x.market[d][m] = Deploy!NewMarket
      BY <2>1, <1>4 DEF DeployClosed
    <3> QED BY <3>1, DeployNewIsNotReady DEF DeployFits
  <2>2. CASE DeployWired(c, d)
    <3>1. x.penrose[d].usdoId = c.penrose[d].usdoId /\ x.penrose[d].eth = c.penrose[d].eth
      BY <2>2, <1>3 DEF DeployWired
    <3>2. DeployFits(c, d)
      BY DEF DeployGood
    <3> QED BY <3>1, <3>2, <1>2 DEF DeployFits, DeployFirstKeeps
  <2> QED BY <2>1, <2>2 DEF DeployGood
<1>7. DeployGood(x, d)
  BY <1>3, <1>4, <1>5, <1>6 DEF DeployGood
<1>8. \A e \in Deploy!Deployments \ {d} : DeployStays(c, x, e)
  BY <1>2, DeployOthersStay
<1>9. c.assets \subseteq x.assets /\ x.market = c.market
  BY <1>2 DEF DeployFirstKeeps
<1> QED BY <1>2, <1>3, <1>4, <1>5, <1>7, <1>8, <1>9

(* The second batch is mined. *)
DeploySecondBatchOf(c, b, d, u) ==
  /\ DeployWired(c, d)
  /\ \/ DeployUp(c, d) /\ b \in Seq(DeployRest(d))
     \/ DeployClosed(c, d) /\ DeploySecondFull(b, d, u)

LEMMA DeployMinesSecond ==
  ASSUME NEW d \in Deploy!Deployments, NEW u \in Deploy!Ids, NEW c \in DeployChains,
         u \in {d} \X (1 .. MaxStrats),
         DeployGood(c, d), c.penrose[d].usdoId = u,
         NEW b, DeploySecondBatchOf(c, b, d, u), NEW late, DeployFold(c, b, late).ok,
         NEW x, x = DeployFold(c, b, late).chain
  PROVE  /\ x \in DeployChains /\ DeployGood(x, d)
         /\ DeployWired(x, d) /\ x.penrose[d].usdoId = u /\ DeployUp(x, d)
         /\ DeployClosed(x, d) => DeployClosed(c, d)
         /\ c.assets \subseteq x.assets
         /\ \A m \in Deploy!Markets : c.market[d][m].ready => x.market[d][m] = c.market[d][m]
         /\ \A e \in Deploy!Deployments \ {d} : DeployStays(c, x, e)
<1>0. d # 0 /\ DeployWired(c, d) /\ DeployHasMasters(c, d) /\ DeployFits(c, d)
  <2>1. d # 0
    BY RolloutAssumption DEF Deploy!Deployments, Deploy!MarketsAssumption
  <2>2. DeployWired(c, d)
    BY DEF DeploySecondBatchOf
  <2>3. ~DeployUntouched(c, d)
    BY <2>1, <2>2 DEF DeployWired, DeployUntouched, Deploy!NewPenrose
  <2> QED BY <2>1, <2>2, <2>3 DEF DeployGood
<1>1. ASSUME DeploySecondKeeps(c, x, d)
      PROVE  /\ DeployWired(x, d) /\ x.penrose[d].usdoId = u /\ DeployHasMasters(x, d)
             /\ c.assets \subseteq x.assets
             /\ \A e \in Deploy!Deployments \ {d} : DeployStays(c, x, e)
  <2>1. DeployWired(x, d) /\ x.penrose[d].usdoId = u
    BY <1>0, <1>1 DEF DeployWired, DeploySecondKeeps
  <2>2. DeployHasMasters(x, d)
    BY <1>0, <1>1 DEF DeployHasMasters, DeploySecondKeeps
  <2>3. \A e \in Deploy!Deployments \ {d} : DeployStays(c, x, e)
    BY <1>1, DeployOthersStay
  <2> QED BY <2>1, <2>2, <2>3, <1>1 DEF DeploySecondKeeps
<1>2. CASE DeployUp(c, d) /\ b \in Seq(DeployRest(d))
  <2>1. /\ x \in DeployChains /\ DeploySecondKeeps(c, x, d)
        /\ x.penrose = c.penrose /\ x.market = c.market
    BY <1>2, DeployRestBatch
  <2>2. c.seeded \subseteq x.seeded
    BY <2>1 DEF DeploySecondKeeps
  <2>3. DeployUp(x, d)
    BY <1>2, <2>1, <2>2 DEF DeployUp
  <2>4. DeployFits(x, d)
    BY <1>0, <2>1, <2>2 DEF DeployFits
  <2>5. DeployClosed(x, d) => DeployClosed(c, d)
    BY <2>1, <2>2 DEF DeployClosed
  <2>6. DeployGood(x, d)
    BY <1>1, <2>1, <2>3, <2>4 DEF DeployGood
  <2> QED BY <1>1, <2>1, <2>3, <2>5, <2>6
<1>3. CASE DeployClosed(c, d) /\ DeploySecondFull(b, d, u)
  <2>1. /\ x \in DeployChains /\ DeploySecondKeeps(c, x, d) /\ DeploySecondFits(x, d, u)
        /\ DeployUp(x, d)
    BY <1>0, <1>3, DeploySecondBatch
  <2>2. DeployWired(x, d) /\ x.penrose[d].usdoId = u /\ DeployHasMasters(x, d)
    BY <1>1, <2>1
  <2>3. ASSUME NEW m \in Deploy!Markets, x.market[d][m].ready
        PROVE  /\ x.market[d][m].assetId = u
               /\ m \in BBs => (x.market[d][m].isMain <=> m = x.penrose[d].eth)
               /\ m \notin Mocks => x.market[d][m].collateralId \in x.seeded
    <3>1. /\ x.market[d][m].assetId = u
          /\ x.market[d][m].collateralId = <<Deploy!Collateral(m), d>>
          /\ m \in BBs => (x.market[d][m].isMain <=> m = EthMarket)
      BY <2>1, <2>3 DEF DeploySecondFits
    <3>2. m \in BBs => x.penrose[d].eth = EthMarket
      BY <1>0, <2>2, DeployWiredHost DEF DeployWired
    <3>3. m \notin Mocks => <<Deploy!Collateral(m), d>> \in x.seeded
      <4>1. m \notin Mocks => Deploy!Collateral(m) \in Deploy!YbTokens \ {UsdcMock}
        BY DeployCollaterals DEF DeploySeeds
      <4> QED BY <4>1, <2>1 DEF DeployUp
    <3> QED BY <3>1, <3>2, <3>3
  <2>4. DeployFits(x, d)
    BY <2>2, <2>3 DEF DeployFits
  <2>5. DeployGood(x, d)
    BY <2>1, <2>2, <2>4 DEF DeployGood
  <2>6. \A m \in Deploy!Markets : c.market[d][m].ready => x.market[d][m] = c.market[d][m]
    BY <1>3 DEF DeployClosed, Deploy!NewMarket
  <2> QED BY <1>1, <1>3, <2>1, <2>2, <2>5, <2>6
<1> QED BY <1>2, <1>3 DEF DeploySecondBatchOf

(* Changes that leave every deployment at its stage. *)
DeployMild(c, x) ==
  /\ x.penrose = c.penrose /\ x.seeded = c.seeded /\ c.assets \subseteq x.assets
  /\ \A e \in Deploy!Deployments :
        /\ x.usdo[e].helper = c.usdo[e].helper
        /\ \A t \in Deploy!YbTokens : <<t, e>> \in x.assets <=> <<t, e>> \in c.assets
        /\ \A m \in Deploy!Markets :
              /\ x.market[e][m].ready = c.market[e][m].ready
              /\ x.market[e][m].assetId = c.market[e][m].assetId
              /\ x.market[e][m].collateralId = c.market[e][m].collateralId
              /\ x.market[e][m].isMain = c.market[e][m].isMain
              /\ c.market[e][m].helper => x.market[e][m].helper
              /\ x.market[e][m] = Deploy!NewMarket <=> c.market[e][m] = Deploy!NewMarket

LEMMA DeployMildGood ==
  ASSUME NEW c, NEW x, DeployMild(c, x), NEW e \in Deploy!Deployments
  PROVE  /\ DeployUntouched(x, e) <=> DeployUntouched(c, e)
         /\ DeployWired(x, e) <=> DeployWired(c, e)
         /\ DeployClosed(x, e) <=> DeployClosed(c, e)
         /\ DeployUp(c, e) => DeployUp(x, e)
         /\ DeployGood(c, e) => DeployGood(x, e)
<1>1. DeployUntouched(x, e) <=> DeployUntouched(c, e)
  BY DEF DeployMild, DeployUntouched
<1>2. DeployWired(x, e) <=> DeployWired(c, e)
  BY DEF DeployMild, DeployWired
<1>3. DeployClosed(x, e) <=> DeployClosed(c, e)
  BY DEF DeployMild, DeployClosed
<1>4. DeployUp(c, e) => DeployUp(x, e)
  BY DEF DeployMild, DeployUp
<1>5. DeployHasMasters(c, e) => DeployHasMasters(x, e)
  BY DEF DeployMild, DeployHasMasters
<1>6. DeployFits(c, e) => DeployFits(x, e)
  <2> SUFFICES ASSUME DeployFits(c, e), NEW m \in Deploy!Markets, x.market[e][m].ready
               PROVE  /\ x.market[e][m].assetId = x.penrose[e].usdoId
                      /\ x.market[e][m].assetId \in {e} \X (1 .. MaxStrats)
                      /\ m \in BBs => (x.market[e][m].isMain <=> m = x.penrose[e].eth)
                      /\ m \notin Mocks => x.market[e][m].collateralId \in x.seeded
    BY DEF DeployFits
  <2>1. /\ x.market[e][m].ready = c.market[e][m].ready
        /\ x.market[e][m].assetId = c.market[e][m].assetId
        /\ x.market[e][m].collateralId = c.market[e][m].collateralId
        /\ x.market[e][m].isMain = c.market[e][m].isMain
        /\ x.penrose = c.penrose /\ x.seeded = c.seeded
    BY DEF DeployMild
  <2> QED BY <2>1 DEF DeployFits
<1> QED BY <1>1, <1>2, <1>3, <1>4, <1>5, <1>6 DEF DeployGood

LEMMA DeployMildDone ==
  ASSUME NEW c, NEW x, DeployMild(c, x), NEW d \in Deploy!Deployments, NEW u, NEW k,
         DeployFirstDone(c, d, u, k)
  PROVE  DeployFirstDone(x, d, u, k)
  BY DEF DeployMild, DeployFirstDone

(* All but the funds and the roles in USDO. *)
DeploySame(c, x) ==
  /\ x.penrose = c.penrose /\ x.usdo = c.usdo /\ x.market = c.market
  /\ x.assets = c.assets /\ x.seeded = c.seeded

LEMMA DeploySameIsMild ==
  ASSUME NEW c, NEW x, DeploySame(c, x)
  PROVE  DeployMild(c, x)
  BY DEF DeploySame, DeployMild

LEMMA DeployFundsSet ==
  ASSUME NEW c \in DeployChains, NEW f \in 0 .. 2, NEW x, x = [c EXCEPT !.funds = f]
  PROVE  x \in DeployChains /\ DeploySame(c, x)
  BY DEF DeployChains, DeploySame

LEMMA DeployExecute ==
  ASSUME NEW c, NEW b, NEW late, NEW run, run = Deploy!executeMulticall(c, b, late)
  PROVE  /\ ~DeployFold(c, b, late).ok => run.chain = c /\ ~run.ok
         /\ DeployFold(c, b, late).ok /\ DeployFold(c, b, late).chain \in DeployChains
               => run.ok /\ run.chain \in DeployChains
                  /\ DeploySame(DeployFold(c, b, late).chain, run.chain)
<1> DEFINE fold == DeployFold(c, b, late)
           wraps == \E i \in 1 .. Deploy!Len(b) : b[i].fn = "wrap"
           f == IF wraps THEN 0 ELSE fold.chain.funds
           x == [fold.chain EXCEPT !.funds = f]
<1>1. run = [ok |-> fold.ok, chain |-> IF ~fold.ok THEN c ELSE x]
  BY Zenon DEF Deploy!executeMulticall, DeployFold
<1> HIDE DEF fold
<1>2. CASE ~fold.ok
  <2>1. run.chain = c /\ run.ok = fold.ok
    BY <1>1, <1>2
  <2> QED BY <1>2, <2>1 DEF fold
<1>3. CASE fold.ok /\ fold.chain \in DeployChains
  <2>1. run.chain = x /\ run.ok = fold.ok
    BY <1>1, <1>3
  <2>2. f \in 0 .. 2
    <3>1. fold.chain.funds \in 0 .. 2
      BY <1>3, DeployChainParts
    <3> HIDE DEF wraps
    <3> QED BY <3>1
  <2> HIDE DEF f
  <2>3. x \in DeployChains /\ DeploySame(fold.chain, x)
    BY <1>3, <2>2, DeployFundsSet
  <2> QED BY <1>3, <2>1, <2>3 DEF fold
<1> QED BY <1>2, <1>3 DEF fold

(***************************************************************************)
(* The invariant: c is the chain, f the deployments file.  The deployment  *)
(* of the file is the only one a batch or a run is about.  A first batch   *)
(* has all that is not done yet, a second one is all of what a closed      *)
(* deployment needs or nothing that changes a live one.                    *)
(***************************************************************************)
DeployUsdoId(f) == <<f.usdoStrat.token, f.usdoStrat.strategy>>
DeployHasStrat(f) ==
  f.usdoStrat.strategy # 0 /\ f.usdoStrat.token = f.deployment /\ f.deployment # 0

DeployIsFirst(c, f, b) ==
  /\ b \in Seq(DeployFirst(f.deployment, DeployUsdoId(f)))
  /\ DeployFirstFull(c, b, f.deployment, DeployUsdoId(f))
DeployIsSecond(c, f, b) == DeploySecondBatchOf(c, b, f.deployment, DeployUsdoId(f))

DeployFileOk(c, f) ==
  /\ f.usdoStrat.strategy # 0 => DeployUsdoId(f) \in c.assets
  /\ f.deployment # 0 /\ DeployWired(c, f.deployment)
        => DeployHasStrat(f) /\ c.penrose[f.deployment].usdoId = DeployUsdoId(f)
  /\ \A d \in Deploy!Deployments :
        /\ DeployGood(c, d)
        /\ d > f.deployment => DeployUntouched(c, d) /\ DeployClosed(c, d)

DeployPooled(c, f, q) ==
  /\ q # <<>> => DeployHasStrat(f)
  /\ \A i \in 1 .. Len(q) : DeployIsFirst(c, f, q[i]) \/ (i = 1 /\ DeployIsSecond(c, f, q[i]))

(* The script before the first batch: F are the functions it is done with. *)
DeployPart(c, f, s, F) ==
  /\ DeployHasStrat(f) /\ s \in Seq(DeployFirst(f.deployment, DeployUsdoId(f)))
  /\ \A k \in DeployFirst(f.deployment, DeployUsdoId(f)) :
        k.fn \in F => DeployFirstDone(c, f.deployment, DeployUsdoId(f), k) \/ Has(s, k)
DeployFn1 == {"setUsdoToken"}
DeployFn2 == DeployFn1 \cup {"registerMasterContract"}
DeployFn3 == DeployFn2 \cup {"addMarket"}
DeployFn4 == DeployFn3 \cup {"setBigBangEthMarket"}
DeployFn5 == DeployFn4 \cup {"setFlashloanHelper", "setMinterStatus", "setBurnerStatus"}
DeployFn6 == DeployFn5 \cup {"registerAsset"}

(* Before the second batch: S says what a closed deployment has in it so far. *)
DeployMid(c, f, q, s, S) ==
  /\ q = <<>> /\ DeployWired(c, f.deployment)
  /\ \/ DeployUp(c, f.deployment) /\ s \in Seq(DeployRest(f.deployment))
     \/ /\ DeployClosed(c, f.deployment)
        /\ s \in Seq(DeploySecond(f.deployment, DeployUsdoId(f))) /\ S
DeployMainFirst(f, s) ==
  IsHost => /\ s # <<>>
            /\ s[1] = Deploy!setMain(f.deployment, EthMarket, <<EthMarket, f.deployment>>)
DeploySeedsAll(f, s) ==
  /\ s # <<>>
  /\ \A t \in DeploySeeds : Has(s, Deploy!depositAsset(f.deployment, <<t, f.deployment>>))

DeployScriptOk(c, f, q, p, m, s, n) ==
  /\ p \notin {"idle", "deploy", "save"} => m = f.deployment /\ m # 0
  /\ p \in {"idle", "deploy", "save", "setupUsdo", "saveStrat", "wait1", "wait2", "done"}
        => s = <<>>
  /\ p = "save" => m = n.deployments /\ f.deployment < m /\ q = <<>>
  /\ p = "saveStrat" => /\ q = <<>> /\ n.strategies > 0 /\ <<m, n.strategies>> \in c.assets
                        /\ ~DeployWired(c, m)
  /\ p = "setupMasters" => DeployPart(c, f, s, DeployFn1)
  /\ p = "setupMarkets" => DeployPart(c, f, s, DeployFn2)
  /\ p = "setupEthMarket" => DeployPart(c, f, s, DeployFn3)
  /\ p = "setupFlashHelper" => DeployPart(c, f, s, DeployFn4)
  /\ p = "setupYbAssets" => DeployPart(c, f, s, DeployFn5)
  /\ p = "send1" => DeployPart(c, f, s, DeployFn6)
  /\ p = "wait1" => q # <<>> /\ DeployIsFirst(c, f, q[Len(q)])
  /\ p = "setupMain" => DeployMid(c, f, q, s, s = <<>>)
  /\ p = "setupDeposits" => DeployMid(c, f, q, s, DeployMainFirst(f, s))
  /\ p = "setupInit" => DeployMid(c, f, q, s, DeployMainFirst(f, s) /\ DeploySeedsAll(f, s))
  /\ p \in {"setupMinters", "send2"}
        => DeployMid(c, f, q, s, DeploySecondFull(s, f.deployment, DeployUsdoId(f)))
  /\ p = "wait2" => Len(q) = 1 /\ DeployIsSecond(c, f, q[1])
  /\ p = "done" => q = <<>> /\ DeployWired(c, m) /\ DeployUp(c, m)

DeployAll == UNION {UNION {DeployFirst(d, u) \cup DeploySecond(d, u) : u \in Deploy!Ids} :
                    d \in Deploy!Deployments}
DeployTypes ==
  /\ chain \in DeployChains
  /\ db \in [deployment : 0 .. made.deployments,
             usdoStrat : [token : 0 .. made.deployments, strategy : 0 .. made.strategies]]
  /\ made \in [deployments : 0 .. MaxDeployments, strategies : 0 .. MaxStrats]
  /\ budget \in [crashes : 0 .. MaxCrashes, late : Nat, owner : Nat]
  /\ pc \in Deploy!Steps /\ mine \in 0 .. made.deployments
  /\ globals \subseteq Deploy!Projects
  /\ pool \in Seq(Seq(DeployAll))
  /\ Len(pool) + budget.crashes
        <= MaxCrashes + (IF pc \in {"wait1", "wait2"} THEN 1 ELSE 0)

DeployInv ==
  /\ DeployTypes /\ DeployFileOk(chain, db) /\ DeployPooled(chain, db, pool)
  /\ DeployScriptOk(chain, db, pool, pc, mine, calls, made)

LEMMA DeployInits ==
  ASSUME Deploy!Init
  PROVE  DeployInv
<1>1. chain \in DeployChains
  <2>1. /\ Deploy!NewUsdo \in DeployUsdos /\ Deploy!NewPenrose \in DeployPenroses
        /\ Deploy!NewMarket \in DeployMarkets
    <3>1. Deploy!NewUsdo \in DeployUsdos
      BY Zenon DEF Deploy!NewUsdo, DeployUsdos
    <3>2. Deploy!NewPenrose \in DeployPenroses
      <4>1. 0 \in 0 .. MaxDeployments
        BY RolloutAssumption DEF Deploy!MarketsAssumption
      <4> QED BY <4>1 DEF Deploy!NewPenrose, DeployPenroses
    <3>3. Deploy!NewMarket \in DeployMarkets
      BY Zenon DEF Deploy!NewMarket, DeployMarkets
    <3> QED BY <3>1, <3>2, <3>3
  <2>2. chain = Deploy!NewChain
    BY DEF Deploy!Init
  <2> QED BY <2>1, <2>2 DEF Deploy!NewChain, DeployChains
<1>2. /\ db = [deployment |-> 0, usdoStrat |-> Deploy!NoStrat] /\ pool = <<>>
      /\ pc = "idle" /\ mine = 0 /\ calls = <<>> /\ globals = {}
      /\ made = [deployments |-> 0, strategies |-> 0]
      /\ budget = [crashes |-> MaxCrashes, late |-> MaxLate, owner |-> MaxOwnerTasks]
  BY DEF Deploy!Init
<1>3. DeployTypes
  <2>1. /\ MaxDeployments \in Nat /\ MaxCrashes \in Nat /\ MaxLate \in Nat /\ MaxStrats \in Nat
        /\ MaxOwnerTasks \in Nat
    BY RolloutAssumption DEF Deploy!MarketsAssumption, Deploy!ChainAssumption
  <2>2. db \in [deployment : 0 .. made.deployments,
             usdoStrat : [token : 0 .. made.deployments, strategy : 0 .. made.strategies]]
    BY <1>2 DEF Deploy!NoStrat
  <2>3. budget \in [crashes : 0 .. MaxCrashes, late : Nat, owner : Nat]
    BY <1>2, <2>1
  <2>4. pool \in Seq(Seq(DeployAll)) /\ Len(pool) = 0
    BY <1>2
  <2> QED BY <1>1, <1>2, <2>1, <2>2, <2>3, <2>4 DEF DeployTypes, Deploy!Steps
<1>4. \A d \in Deploy!Deployments :
         DeployUntouched(chain, d) /\ DeployClosed(chain, d) /\ DeployGood(chain, d)
  <2> TAKE d \in Deploy!Deployments
  <2>1. /\ chain.penrose[d] = Deploy!NewPenrose /\ chain.usdo[d] = Deploy!NewUsdo
        /\ \A m \in Deploy!Markets : chain.market[d][m] = Deploy!NewMarket
        /\ chain.assets = {} /\ chain.seeded = {}
    BY DEF Deploy!Init, Deploy!NewChain
  <2>2. ~Deploy!NewUsdo.helper
    BY Zenon DEF Deploy!NewUsdo
  <2>3. DeployUntouched(chain, d)
    BY <2>1, <2>2 DEF DeployUntouched
  <2>4. DeployClosed(chain, d)
    BY <2>1 DEF DeployClosed, Deploy!NewPenrose
  <2>5. DeployFits(chain, d)
    BY <2>1, DeployNewIsNotReady DEF DeployFits
  <2> QED BY <2>3, <2>4, <2>5 DEF DeployGood
<1>5. DeployFileOk(chain, db)
  BY <1>2, <1>4 DEF DeployFileOk, Deploy!NoStrat
<1>6. DeployPooled(chain, db, pool)
  BY <1>2 DEF DeployPooled
<1>7. DeployScriptOk(chain, db, pool, pc, mine, calls, made)
  BY <1>2 DEF DeployScriptOk
<1> QED BY <1>3, <1>5, <1>6, <1>7 DEF DeployInv

LEMMA DeployStratIds ==
  ASSUME DeployTypes, DeployHasStrat(db)
  PROVE  /\ db.deployment \in Deploy!Deployments
         /\ DeployUsdoId(db) \in {db.deployment} \X (1 .. MaxStrats)
         /\ DeployUsdoId(db) \in Deploy!Ids
<1>1. /\ db.deployment \in 0 .. made.deployments /\ db.usdoStrat.token \in 0 .. made.deployments
      /\ db.usdoStrat.strategy \in 0 .. made.strategies
      /\ made.deployments \in 0 .. MaxDeployments /\ made.strategies \in 0 .. MaxStrats
  BY DEF DeployTypes
<1>2. MaxDeployments \in Nat /\ MaxStrats \in Nat
  BY RolloutAssumption DEF Deploy!MarketsAssumption, Deploy!ChainAssumption
<1>3. db.deployment \in Deploy!Deployments /\ db.usdoStrat.strategy \in 1 .. MaxStrats
  BY <1>1, <1>2 DEF DeployHasStrat, Deploy!Deployments
<1>4. DeployUsdoId(db) \in {db.deployment} \X (1 .. MaxStrats)
  BY <1>3 DEF DeployUsdoId, DeployHasStrat
<1>5. DeployUsdoId(db) \in Deploy!UsdoIds
  BY <1>3, <1>4 DEF Deploy!UsdoIds
<1> QED BY <1>3, <1>4, <1>5 DEF Deploy!Ids

(* A change that leaves every deployment at its stage keeps the invariant. *)
LEMMA DeployMildFirst ==
  ASSUME NEW c, NEW x, DeployMild(c, x), NEW f, f.deployment \in Deploy!Deployments
  PROVE  /\ \A b : DeployIsFirst(c, f, b) => DeployIsFirst(x, f, b)
         /\ \A b : DeployIsSecond(c, f, b) => DeployIsSecond(x, f, b)
         /\ \A s, F : DeployPart(c, f, s, F) => DeployPart(x, f, s, F)
         /\ \A q, s, S : DeployMid(c, f, q, s, S) => DeployMid(x, f, q, s, S)
<1> DEFINE d == f.deployment
           u == DeployUsdoId(f)
<1>1. ASSUME NEW k, DeployFirstDone(c, d, u, k) PROVE DeployFirstDone(x, d, u, k)
  BY <1>1, DeployMildDone
<1>2. /\ DeployWired(x, d) <=> DeployWired(c, d)
      /\ DeployClosed(x, d) <=> DeployClosed(c, d)
      /\ DeployUp(c, d) => DeployUp(x, d)
  BY DeployMildGood
<1>3. ASSUME NEW b, DeployIsFirst(c, f, b) PROVE DeployIsFirst(x, f, b)
  BY <1>1, <1>3 DEF DeployIsFirst, DeployFirstFull
<1>4. ASSUME NEW b, DeployIsSecond(c, f, b) PROVE DeployIsSecond(x, f, b)
  BY <1>2, <1>4 DEF DeployIsSecond, DeploySecondBatchOf
<1>5. ASSUME NEW s, NEW F, DeployPart(c, f, s, F) PROVE DeployPart(x, f, s, F)
  BY <1>1, <1>5 DEF DeployPart
<1>6. ASSUME NEW q, NEW s, NEW S, DeployMid(c, f, q, s, S) PROVE DeployMid(x, f, q, s, S)
  BY <1>2, <1>6 DEF DeployMid
<1> QED BY <1>3, <1>4, <1>5, <1>6

LEMMA DeployMildKeeps ==
  ASSUME NEW c, NEW x, DeployMild(c, x), NEW f, f.deployment \in 0 .. MaxDeployments,
         NEW q \in Seq(Seq(DeployAll)), NEW p, NEW m, NEW s, NEW n
  PROVE  /\ DeployFileOk(c, f) => DeployFileOk(x, f)
         /\ DeployPooled(c, f, q) => DeployPooled(x, f, q)
         /\ DeployScriptOk(c, f, q, p, m, s, n) => DeployScriptOk(x, f, q, p, m, s, n)
<1>0. MaxDeployments \in Nat
  BY RolloutAssumption DEF Deploy!MarketsAssumption
<1>1. f.deployment # 0 => f.deployment \in Deploy!Deployments
  BY <1>0 DEF Deploy!Deployments
<1>2. ASSUME DeployFileOk(c, f) PROVE DeployFileOk(x, f)
  <2>1. f.usdoStrat.strategy # 0 => DeployUsdoId(f) \in x.assets
    BY <1>2 DEF DeployFileOk, DeployMild
  <2>2. f.deployment # 0 /\ DeployWired(x, f.deployment)
          => DeployHasStrat(f) /\ x.penrose[f.deployment].usdoId = DeployUsdoId(f)
    <3>1. x.penrose = c.penrose
      BY DEF DeployMild
    <3>2. f.deployment # 0 => (DeployWired(x, f.deployment) <=> DeployWired(c, f.deployment))
      BY <1>1, DeployMildGood
    <3> QED BY <3>1, <3>2, <1>2 DEF DeployFileOk
  <2>3. \A d \in Deploy!Deployments :
          /\ DeployGood(x, d)
          /\ d > f.deployment => DeployUntouched(x, d) /\ DeployClosed(x, d)
    BY <1>2, DeployMildGood DEF DeployFileOk
  <2> QED BY <2>1, <2>2, <2>3 DEF DeployFileOk
<1>3. ASSUME DeployPooled(c, f, q) PROVE DeployPooled(x, f, q)
  <2>1. ASSUME NEW i \in 1 .. Len(q)
        PROVE  DeployIsFirst(x, f, q[i]) \/ (i = 1 /\ DeployIsSecond(x, f, q[i]))
    <3>1. f.deployment \in Deploy!Deployments
      BY <1>1, <1>3 DEF DeployPooled, DeployHasStrat
    <3>2. DeployIsFirst(c, f, q[i]) \/ (i = 1 /\ DeployIsSecond(c, f, q[i]))
      BY <1>3 DEF DeployPooled
    <3> QED BY <3>1, <3>2, DeployMildFirst
  <2> QED BY <1>3, <2>1 DEF DeployPooled
<1>4. ASSUME DeployScriptOk(c, f, q, p, m, s, n) PROVE DeployScriptOk(x, f, q, p, m, s, n)
  <2>1. CASE p \in {"idle", "deploy", "save"}
    BY <2>1, <1>4 DEF DeployScriptOk
  <2>2. CASE p \notin {"idle", "deploy", "save"}
    <3>1. m = f.deployment /\ f.deployment \in Deploy!Deployments
      BY <2>2, <1>1, <1>4 DEF DeployScriptOk
    <3>2. /\ DeployWired(x, m) <=> DeployWired(c, m)
          /\ DeployUp(c, m) => DeployUp(x, m)
          /\ c.assets \subseteq x.assets
      BY <3>1, DeployMildGood DEF DeployMild
    <3>3. /\ \A b : DeployIsFirst(c, f, b) => DeployIsFirst(x, f, b)
          /\ \A b : DeployIsSecond(c, f, b) => DeployIsSecond(x, f, b)
          /\ \A t, F : DeployPart(c, f, t, F) => DeployPart(x, f, t, F)
          /\ \A y, t, S : DeployMid(c, f, y, t, S) => DeployMid(x, f, y, t, S)
      BY <3>1, DeployMildFirst
    <3> QED BY <1>4, <3>2, <3>3 DEF DeployScriptOk
  <2> QED BY <2>1, <2>2
<1> QED BY <1>2, <1>3, <1>4

(* Of the owner's tasks and the funds. *)
LEMMA DeployFunds ==
  ASSUME DeployInv, NEW f \in 1 .. 2, Deploy!Fund(f)
  PROVE  DeployInv' /\ DeployMild(chain, chain')
<1>1. chain' \in DeployChains /\ DeploySame(chain, chain')
  BY DeployFundsSet DEF Deploy!Fund, DeployInv, DeployTypes
<1>2. DeployMild(chain, chain')
  BY <1>1, DeploySameIsMild
<1>3. UNCHANGED <<pool, db, pc, mine, calls, globals, made, budget>>
  BY DEF Deploy!Fund, Deploy!script
<1>4. DeployTypes'
  BY <1>1, <1>3 DEF DeployInv, DeployTypes
<1>5. /\ DeployFileOk(chain', db) /\ DeployPooled(chain', db, pool)
      /\ DeployScriptOk(chain', db, pool, pc, mine, calls, made)
  <2>1. db.deployment \in 0 .. MaxDeployments /\ pool \in Seq(Seq(DeployAll))
    <3>1. MaxDeployments \in Nat
      BY RolloutAssumption DEF Deploy!MarketsAssumption
    <3>2. /\ db.deployment \in 0 .. made.deployments
          /\ made.deployments \in 0 .. MaxDeployments /\ pool \in Seq(Seq(DeployAll))
      BY DEF DeployInv, DeployTypes
    <3> QED BY <3>1, <3>2
  <2> QED BY <1>2, <2>1, DeployMildKeeps DEF DeployInv
<1> QED BY <1>2, <1>3, <1>4, <1>5 DEF DeployInv

LEMMA DeployOwns ==
  ASSUME DeployInv, NEW k, Deploy!OwnerTask(k), DeployMild(chain, chain'),
         chain' \in DeployChains
  PROVE  DeployInv'
<1>1. UNCHANGED <<pool, db, pc, mine, calls, globals, made>>
  BY DEF Deploy!OwnerTask, Deploy!script
<1>2. DeployTypes'
  <2>1. budget' \in [crashes : 0 .. MaxCrashes, late : Nat, owner : Nat]
        /\ budget'.crashes = budget.crashes
    BY DEF Deploy!OwnerTask, DeployInv, DeployTypes
  <2> QED BY <1>1, <2>1 DEF DeployInv, DeployTypes
<1>3. /\ DeployFileOk(chain', db) /\ DeployPooled(chain', db, pool)
      /\ DeployScriptOk(chain', db, pool, pc, mine, calls, made)
  <2>1. db.deployment \in 0 .. MaxDeployments /\ pool \in Seq(Seq(DeployAll))
    <3>1. MaxDeployments \in Nat
      BY RolloutAssumption DEF Deploy!MarketsAssumption
    <3>2. /\ db.deployment \in 0 .. made.deployments
          /\ made.deployments \in 0 .. MaxDeployments /\ pool \in Seq(Seq(DeployAll))
      BY DEF DeployInv, DeployTypes
    <3> QED BY <3>1, <3>2
  <2> QED BY <2>1, DeployMildKeeps DEF DeployInv
<1> QED BY <1>1, <1>2, <1>3 DEF DeployInv

LEMMA DeploySetsMinterStatus ==
  ASSUME DeployInv, NEW a \in Deploy!Operators, NEW b \in BOOLEAN, Deploy!setMinterStatus(a, b)
  PROVE  DeployInv' /\ DeployMild(chain, chain') /\ chain'.market = chain.market
<1> DEFINE d == db.deployment
<1>1. /\ Deploy!OwnerTask(Deploy!setMinter(d, a, b))
      /\ chain' = Deploy!After(chain, Deploy!setMinter(d, a, b)) /\ d # 0
  BY DEF Deploy!setMinterStatus, Deploy!OwnerTask, Deploy!setMinter
<1>2. d \in Deploy!Deployments /\ chain \in DeployChains
  <2>1. MaxDeployments \in Nat
    BY RolloutAssumption DEF Deploy!MarketsAssumption
  <2>2. /\ d \in 0 .. made.deployments /\ made.deployments \in 0 .. MaxDeployments
        /\ chain \in DeployChains
    BY DEF DeployInv, DeployTypes
  <2> QED BY <1>1, <2>1, <2>2 DEF Deploy!Deployments
<1>3. /\ chain' \in DeployChains
      /\ \A e \in Deploy!Deployments : chain'.usdo[e].helper = chain.usdo[e].helper
      /\ chain'.penrose = chain.penrose /\ chain'.market = chain.market
      /\ chain'.assets = chain.assets /\ chain'.seeded = chain.seeded
  <2>1. chain' \in {Deploy!After(chain, Deploy!setMinter(d, a, b)),
                    Deploy!After(chain, Deploy!setBurner(d, a, b))}
    BY <1>1
  <2> HIDE DEF d
  <2> QED BY <1>2, <2>1, DeploySetsMinter
<1>4. DeployMild(chain, chain')
  BY <1>3 DEF DeployMild
<1> QED BY <1>1, <1>3, <1>4, DeployOwns

LEMMA DeploySetsMarketCap ==
  ASSUME DeployInv, NEW m \in BBs, NEW cap \in Caps, Deploy!setMarketCap(m, cap)
  PROVE  DeployInv' /\ DeployMild(chain, chain') /\ budget'.owner < budget.owner
<1> DEFINE d == db.deployment
<1>1. /\ Deploy!OwnerTask(Deploy!configBB(d, m, cap))
      /\ chain' = Deploy!After(chain, Deploy!configBB(d, m, cap)) /\ d # 0
      /\ Deploy!Succeeds(chain, Deploy!configBB(d, m, cap), FALSE)
  BY DEF Deploy!setMarketCap, Deploy!OwnerTask, Deploy!configBB
<1>2. d \in Deploy!Deployments /\ chain \in DeployChains
  <2>1. MaxDeployments \in Nat
    BY RolloutAssumption DEF Deploy!MarketsAssumption
  <2>2. /\ d \in 0 .. made.deployments /\ made.deployments \in 0 .. MaxDeployments
        /\ chain \in DeployChains
    BY DEF DeployInv, DeployTypes
  <2> QED BY <1>1, <2>1, <2>2 DEF Deploy!Deployments
<1>3. chain.market[d][m].ready
  <2>1. ASSUME NEW late, Deploy!Succeeds(chain, Deploy!configBB(d, m, cap), late)
        PROVE  Deploy!Executes(chain, Deploy!configBB(d, m, cap))
    BY <2>1 DEF Deploy!Succeeds, Deploy!configBB
  <2>2. Deploy!Executes(chain, Deploy!configBB(d, m, cap))
    BY <1>1, <2>1, Zenon
  <2> QED BY <2>2 DEF Deploy!Executes, Deploy!configBB
<1>4. /\ chain' \in DeployChains
      /\ DeployConfigured(chain.market[d][m], chain'.market[d][m])
      /\ \A n \in Deploy!Markets \ {m} : chain'.market[d][n] = chain.market[d][n]
      /\ \A e \in Deploy!Deployments \ {d} : chain'.market[e] = chain.market[e]
      /\ chain'.penrose = chain.penrose /\ chain'.usdo = chain.usdo
      /\ chain'.assets = chain.assets /\ chain'.seeded = chain.seeded
  <2>1. chain' \in {Deploy!After(chain, Deploy!configBB(d, m, cap)),
                    Deploy!After(chain, Deploy!configSGL(d, m))}
    BY <1>1
  <2>2. m \in Deploy!Markets
    BY DEF Deploy!Markets
  <2> HIDE DEF d
  <2> QED BY <1>2, <2>1, <2>2, DeployConfigs
<1>5. DeployMild(chain, chain')
  <2>1. chain'.market[d][m].ready
    BY <1>3, <1>4 DEF DeployConfigured
  <2>2. chain.market[d][m] # Deploy!NewMarket /\ chain'.market[d][m] # Deploy!NewMarket
    BY <1>3, <2>1, DeployNewIsNotReady
  <2> HIDE DEF d
  <2>3. ASSUME NEW e \in Deploy!Deployments, NEW n \in Deploy!Markets
        PROVE  /\ chain'.market[e][n].ready = chain.market[e][n].ready
               /\ chain'.market[e][n].assetId = chain.market[e][n].assetId
               /\ chain'.market[e][n].collateralId = chain.market[e][n].collateralId
               /\ chain'.market[e][n].isMain = chain.market[e][n].isMain
               /\ chain.market[e][n].helper => chain'.market[e][n].helper
               /\ chain'.market[e][n] = Deploy!NewMarket
                     <=> chain.market[e][n] = Deploy!NewMarket
    <3>1. CASE e = d /\ n = m
      BY <3>1, <2>2, <1>4 DEF DeployConfigured
    <3>2. CASE ~(e = d /\ n = m)
      <4>1. chain'.market[e][n] = chain.market[e][n]
        BY <3>2, <1>4
      <4> QED BY <4>1
    <3> QED BY <3>1, <3>2
  <2> QED BY <1>4, <2>3 DEF DeployMild
<1>6. budget'.owner < budget.owner
  <2>1. budget.owner \in Nat /\ budget' = [budget EXCEPT !.owner = budget.owner - 1]
        /\ budget \in [crashes : 0 .. MaxCrashes, late : Nat, owner : Nat]
    BY <1>1 DEF Deploy!OwnerTask, DeployInv, DeployTypes
  <2> QED BY <2>1
<1> QED BY <1>1, <1>4, <1>5, <1>6, DeployOwns

(***************************************************************************)
(* The script builds its batches.                                          *)
(***************************************************************************)
LEMMA DeployAppend ==
  ASSUME NEW K, NEW s \in Seq(K), NEW t \in Seq(K)
  PROVE  /\ s \o t \in Seq(K)
         /\ \A k : Has(s, k) \/ Has(t, k) => Has(s \o t, k)
         /\ s # <<>> => s \o t # <<>> /\ (s \o t)[1] = s[1]
         /\ t # <<>> => s \o t # <<>>
<1>1. /\ s \o t \in Seq(K) /\ Len(s \o t) = Len(s) + Len(t)
      /\ \A i \in 1 .. Len(s) : (s \o t)[i] = s[i]
      /\ \A i \in 1 .. Len(t) : (s \o t)[Len(s) + i] = t[i]
  OBVIOUS
<1>2. ASSUME NEW k, Has(s, k) PROVE Has(s \o t, k)
  <2>1. PICK i \in 1 .. Len(s) : s[i] = k
    BY <1>2 DEF Has
  <2>2. i \in DOMAIN (s \o t) /\ (s \o t)[i] = k
    BY <1>1, <2>1
  <2> QED BY <2>2 DEF Has
<1>3. ASSUME NEW k, Has(t, k) PROVE Has(s \o t, k)
  <2>1. PICK i \in 1 .. Len(t) : t[i] = k
    BY <1>3 DEF Has
  <2>2. Len(s) + i \in DOMAIN (s \o t) /\ (s \o t)[Len(s) + i] = k
    BY <1>1, <2>1
  <2> QED BY <2>2 DEF Has
<1>4. s # <<>> => s \o t # <<>> /\ (s \o t)[1] = s[1]
  BY <1>1
<1>5. t # <<>> => s \o t # <<>>
  BY <1>1
<1> QED BY <1>1, <1>2, <1>3, <1>4, <1>5

LEMMA DeployCallsFor ==
  ASSUME NEW S, IsFiniteSet(S), NEW K, NEW g \in [S -> K], NEW q,
         q = [i \in 1 .. Len(Deploy!SetToSeq(S)) |-> g[Deploy!SetToSeq(S)[i]]]
  PROVE  q \in Seq(K) /\ \A x \in S : Has(q, g[x])
<1> DEFINE s == Deploy!SetToSeq(S)
<1>1. s \in Seq(S) /\ \A x \in S : Has(s, x)
  BY DeploySetToSeq
<1>2. q = [i \in 1 .. Len(s) |-> g[s[i]]]
  OBVIOUS
<1> HIDE DEF s
<1>3. q \in Seq(K)
  BY <1>1, <1>2
<1>4. ASSUME NEW x \in S PROVE Has(q, g[x])
  BY <1>1, <1>2 DEF Has
<1> QED BY <1>3, <1>4

LEMMA DeployWhen ==
  ASSUME NEW b, NEW K, NEW k, b => k \in K
  PROVE  /\ Deploy!When(b, k) \in Seq(K)
         /\ b => Deploy!When(b, k) = <<k>> /\ Has(Deploy!When(b, k), k)
         /\ ~b => Deploy!When(b, k) = <<>>
<1>1. CASE b
  BY <1>1 DEF Deploy!When, Has
<1>2. CASE ~b
  BY <1>2 DEF Deploy!When
<1> QED BY <1>1, <1>2

LEMMA DeployFinite ==
  /\ IsFiniteSet(Deploy!Markets) /\ IsFiniteSet(Deploy!YbTokens) /\ IsFiniteSet(DeploySeeds)
  /\ IsFiniteSet(BBs) /\ IsFiniteSet(SGLs)
<1>1. IsFiniteSet(BBs) /\ IsFiniteSet(SGLs)
  BY RolloutAssumption DEF Deploy!MarketsAssumption, Deploy!IsFiniteSet, IsFiniteSet
<1>2. IsFiniteSet(Deploy!Markets)
  BY <1>1, FS_Union DEF Deploy!Markets
<1>3. IsFiniteSet({Deploy!Collateral(m) : m \in Deploy!Markets})
  <2> DEFINE f == [m \in Deploy!Markets |-> Deploy!Collateral(m)]
           T == {Deploy!Collateral(m) : m \in Deploy!Markets}
  <2>1. f \in [Deploy!Markets -> T] /\ \A t \in T : \E m \in Deploy!Markets : f[m] = t
    OBVIOUS
  <2> HIDE DEF f, T
  <2>2. f \in Surjection(Deploy!Markets, T)
    BY <2>1 DEF Surjection
  <2>3. IsFiniteSet(T)
    BY <1>2, <2>2, FS_Surjection
  <2> QED BY <2>3 DEF T
<1>4. IsFiniteSet(IF IsHost THEN {OriginsToken} ELSE {})
  BY FS_EmptySet, FS_Singleton
<1>5. IsFiniteSet(Deploy!YbTokens)
  BY <1>3, <1>4, FS_Union DEF Deploy!YbTokens
<1>6. IsFiniteSet(DeploySeeds)
  BY <1>5, FS_Subset DEF DeploySeeds
<1> QED BY <1>1, <1>2, <1>5, <1>6

LEMMA DeployFirstOf ==
  ASSUME NEW d, NEW u, NEW k \in DeployFirst(d, u)
  PROVE  /\ k.fn \in DeployFn6
         /\ k.fn = "setUsdoToken" => k = Deploy!setUsdoToken(d, u)
         /\ k.fn = "registerMasterContract" => \E n \in DeployMasters : k = Deploy!registerMaster(d, n)
         /\ k.fn = "addMarket" => \E m \in Deploy!Markets : k = Deploy!addMarket(d, m)
         /\ k.fn = "setBigBangEthMarket" => IsHost /\ k = Deploy!setEthMarket(d, EthMarket)
         /\ k.fn = "setFlashloanHelper" => k = Deploy!setFlashHelper(d)
         /\ k.fn = "registerAsset" => \E t \in Deploy!YbTokens : k = Deploy!registerAsset(d, <<t, d>>)
<1> USE DEF Deploy!setUsdoToken, Deploy!setFlashHelper, Deploy!setMinter, Deploy!setBurner,
       Deploy!registerMaster, Deploy!addMarket, Deploy!setEthMarket, Deploy!registerAsset
<1>1. CASE k = Deploy!setUsdoToken(d, u)
  BY <1>1 DEF DeployFn6, DeployFn5, DeployFn4, DeployFn3, DeployFn2, DeployFn1
<1>2. CASE k = Deploy!setFlashHelper(d)
  BY <1>2 DEF DeployFn6, DeployFn5, DeployFn4, DeployFn3, DeployFn2, DeployFn1
<1>3. CASE \E a \in Deploy!Operators, b \in BOOLEAN :
              k = Deploy!setMinter(d, a, b) \/ k = Deploy!setBurner(d, a, b)
  BY <1>3 DEF DeployFn6, DeployFn5, DeployFn4, DeployFn3, DeployFn2, DeployFn1
<1>4. CASE \E n \in DeployMasters : k = Deploy!registerMaster(d, n)
  BY <1>4 DEF DeployFn6, DeployFn5, DeployFn4, DeployFn3, DeployFn2, DeployFn1
<1>5. CASE \E m \in Deploy!Markets : k = Deploy!addMarket(d, m)
  BY <1>5 DEF DeployFn6, DeployFn5, DeployFn4, DeployFn3, DeployFn2, DeployFn1
<1>6. CASE IsHost /\ k = Deploy!setEthMarket(d, EthMarket)
  BY <1>6 DEF DeployFn6, DeployFn5, DeployFn4, DeployFn3, DeployFn2, DeployFn1
<1>7. CASE \E t \in Deploy!YbTokens : k = Deploy!registerAsset(d, <<t, d>>)
  BY <1>7 DEF DeployFn6, DeployFn5, DeployFn4, DeployFn3, DeployFn2, DeployFn1
<1> HIDE DEF Deploy!setUsdoToken, Deploy!setFlashHelper, Deploy!setMinter, Deploy!setBurner,
       Deploy!registerMaster, Deploy!addMarket, Deploy!setEthMarket, Deploy!registerAsset
<1> QED BY <1>1, <1>2, <1>3, <1>4, <1>5, <1>6, <1>7, DeployFirstCases

LEMMA DeployPartGrows ==
  ASSUME NEW c, NEW f, NEW s, NEW F, DeployPart(c, f, s, F), NEW t, NEW G,
         t \in Seq(DeployFirst(f.deployment, DeployUsdoId(f))),
         \A k \in DeployFirst(f.deployment, DeployUsdoId(f)) :
            k.fn \in G => DeployFirstDone(c, f.deployment, DeployUsdoId(f), k) \/ Has(t, k)
  PROVE  DeployPart(c, f, s \o t, F \cup G)
<1> DEFINE K == DeployFirst(f.deployment, DeployUsdoId(f))
<1>1. s \in Seq(K) /\ t \in Seq(K)
  BY DEF DeployPart
<1>2. /\ s \o t \in Seq(K)
      /\ \A k : Has(s, k) \/ Has(t, k) => Has(s \o t, k)
  <2> HIDE DEF K
  <2> QED BY <1>1, DeployAppend
<1> QED BY <1>2 DEF DeployPart

(* Steps that only move the script. *)
LEMMA DeployMoves ==
  ASSUME DeployInv, UNCHANGED Deploy!world, pc \notin {"wait1", "wait2"},
         pc' \in Deploy!Steps \ {"wait1", "wait2"}, mine' \in 0 .. made.deployments,
         DeployScriptOk(chain, db, pool, pc', mine', calls', made)
  PROVE  DeployInv'
<1>1. UNCHANGED <<chain, pool, db, globals, made, budget>>
  BY DEF Deploy!world
<1>2. DeployTypes'
  BY <1>1 DEF DeployInv, DeployTypes
<1> QED BY <1>1, <1>2 DEF DeployInv

LEMMA DeployThrows ==
  ASSUME DeployInv, UNCHANGED Deploy!world, pc \notin {"wait1", "wait2"}, Deploy!Throw
  PROVE  DeployInv'
<1>1. pc' = "idle" /\ calls' = <<>> /\ mine' = 0
  BY DEF Deploy!Throw
<1>2. DeployScriptOk(chain, db, pool, pc', mine', calls', made)
  BY <1>1 DEF DeployScriptOk
<1>3. made.deployments \in Nat
  <2>1. MaxDeployments \in Nat /\ made.deployments \in 0 .. MaxDeployments
    BY RolloutAssumption DEF Deploy!MarketsAssumption, DeployInv, DeployTypes
  <2> QED BY <2>1
<1> QED BY <1>1, <1>2, <1>3, DeployMoves DEF Deploy!Steps

LEMMA DeployRuns ==
  ASSUME DeployInv, pc \notin {"idle", "deploy", "save"}
  PROVE  mine = db.deployment /\ mine \in Deploy!Deployments /\ mine \in 0 .. made.deployments
<1>1. mine = db.deployment /\ mine # 0
  BY DEF DeployInv, DeployScriptOk
<1>2. mine \in 0 .. made.deployments /\ made.deployments \in 0 .. MaxDeployments
  BY DEF DeployInv, DeployTypes
<1>3. MaxDeployments \in Nat
  BY RolloutAssumption DEF Deploy!MarketsAssumption
<1> QED BY <1>1, <1>2, <1>3 DEF Deploy!Deployments

(* One more part of the first batch. *)
LEMMA DeployBuildsOn ==
  ASSUME DeployInv, NEW F, DeployPart(chain, db, calls, F), NEW t, NEW G,
         t \in Seq(DeployFirst(db.deployment, DeployUsdoId(db))),
         \A k \in DeployFirst(db.deployment, DeployUsdoId(db)) :
            k.fn \in G
              => DeployFirstDone(chain, db.deployment, DeployUsdoId(db), k) \/ Has(t, k),
         NEW next, Deploy!Goto(next, t), UNCHANGED Deploy!world,
         pc \in {"setupUsdo", "setupMasters", "setupMarkets", "setupEthMarket",
                 "setupFlashHelper", "setupYbAssets"},
         \/ next = "setupMasters" /\ F \cup G = DeployFn1
         \/ next = "setupMarkets" /\ F \cup G = DeployFn2
         \/ next = "setupEthMarket" /\ F \cup G = DeployFn3
         \/ next = "setupFlashHelper" /\ F \cup G = DeployFn4
         \/ next = "setupYbAssets" /\ F \cup G = DeployFn5
         \/ next = "send1" /\ F \cup G = DeployFn6
  PROVE  DeployInv'
<1>1. pc' = next /\ calls' = calls \o t /\ mine' = mine
  BY DEF Deploy!Goto
<1>2. DeployPart(chain, db, calls', F \cup G)
  BY <1>1, DeployPartGrows
<1>3. mine = db.deployment /\ mine # 0 /\ mine \in 0 .. made.deployments
  BY DeployRuns DEF DeployInv, DeployScriptOk
<1>4. DeployScriptOk(chain, db, pool, pc', mine', calls', made)
  BY <1>1, <1>2, <1>3 DEF DeployScriptOk
<1>5. pc' \in Deploy!Steps \ {"wait1", "wait2"}
  BY <1>1 DEF Deploy!Steps
<1> QED BY <1>1, <1>3, <1>4, <1>5, DeployMoves

LEMMA DeployBuildsUsdo ==
  ASSUME DeployInv, Deploy!setupUsdoInPenrose
  PROVE  DeployInv'
<1> DEFINE d == db.deployment
           u == DeployUsdoId(db)
           K == DeployFirst(d, u)
           b == chain.penrose[mine].usdo # mine
           call == Deploy!setUsdoToken(mine, <<db.usdoStrat.token, db.usdoStrat.strategy>>)
           t == Deploy!When(b, call)
<1>1. /\ pc = "setupUsdo" /\ Deploy!HasUsdoStrat /\ Deploy!Goto("setupMasters", t)
      /\ UNCHANGED Deploy!world
  BY DEF Deploy!setupUsdoInPenrose, Deploy!penrose
<1>2. mine = d /\ mine \in Deploy!Deployments /\ calls = <<>>
  BY <1>1, DeployRuns DEF DeployInv, DeployScriptOk
<1>3. d # 0
  BY <1>1, <1>2 DEF DeployInv, DeployScriptOk
<1>4. DeployHasStrat(db)
  BY <1>1, <1>2, <1>3 DEF Deploy!HasUsdoStrat, DeployHasStrat
<1>5. call = Deploy!setUsdoToken(d, u) /\ call \in K
  BY <1>2 DEF DeployUsdoId, DeployFirst
<1> HIDE DEF call
<1>6. DeployPart(chain, db, calls, {})
  BY <1>2, <1>4 DEF DeployPart
<1>7. t \in Seq(K) /\ (b => Has(t, call))
  BY <1>5, DeployWhen
<1>8. ASSUME NEW k \in K, k.fn \in DeployFn1
      PROVE  DeployFirstDone(chain, d, u, k) \/ Has(t, k)
  <2>1. k = call
    BY <1>5, <1>8, DeployFirstOf DEF DeployFn1
  <2>2. CASE b
    BY <2>1, <2>2, <1>7
  <2>3. CASE ~b
    <3>1. chain.penrose[d].usdo = d
      BY <2>3, <1>2
    <3>2. DeployGood(chain, d) /\ ~DeployUntouched(chain, d)
      <4>1. DeployGood(chain, d)
        BY <1>2 DEF DeployInv, DeployFileOk
      <4> QED BY <3>1, <1>3, <4>1 DEF DeployUntouched, Deploy!NewPenrose
    <3>3. DeployWired(chain, d)
      BY <3>2 DEF DeployGood
    <3>4. chain.penrose[d].usdoId = u
      BY <3>3, <1>3 DEF DeployInv, DeployFileOk
    <3> QED BY <2>1, <1>5, <3>1, <3>4 DEF DeployFirstDone, Deploy!setUsdoToken
  <2> QED BY <2>2, <2>3
<1> HIDE DEF t
<1>9. {} \cup DeployFn1 = DeployFn1
  OBVIOUS
<1>10. \A k \in K : k.fn \in DeployFn1 => DeployFirstDone(chain, d, u, k) \/ Has(t, k)
  BY <1>8
<1> QED BY <1>1, <1>6, <1>7, <1>9, <1>10, DeployBuildsOn

LEMMA DeployBuildsMasters ==
  ASSUME DeployInv, Deploy!setupRegisterMCInPenrose
  PROVE  DeployInv'
<1> DEFINE d == db.deployment
           u == DeployUsdoId(db)
           K == DeployFirst(d, u)
           b1 == "SGL" \notin chain.penrose[mine].masters
           b2 == IsHost /\ "BB" \notin chain.penrose[mine].masters
           c1 == Deploy!registerMaster(mine, "SGL")
           c2 == Deploy!registerMaster(mine, "BB")
           t1 == Deploy!When(b1, c1)
           t2 == Deploy!When(b2, c2)
           t == t1 \o t2
           G == {"registerMasterContract"}
<1>1. /\ pc = "setupMasters" /\ Deploy!Goto("setupMarkets", t) /\ UNCHANGED Deploy!world
  BY DEF Deploy!setupRegisterMCInPenrose, Deploy!penrose
<1>2. mine = d /\ mine \in Deploy!Deployments /\ DeployPart(chain, db, calls, DeployFn1)
  BY <1>1, DeployRuns DEF DeployInv, DeployScriptOk
<1>3. /\ c1 = Deploy!registerMaster(d, "SGL") /\ c1 \in K
      /\ c2 = Deploy!registerMaster(d, "BB") /\ (IsHost => c2 \in K)
  BY <1>2 DEF DeployFirst, DeployMasters, Deploy!Kinds
<1> HIDE DEF c1, c2
<1>4. b1 => Has(t1, c1)
  BY <1>3, DeployWhen
<1>5. b2 => Has(t2, c2)
  BY <1>3, DeployWhen
<1>6. t1 \in Seq(K) /\ t2 \in Seq(K)
  BY <1>3, DeployWhen
<1> HIDE DEF t1, t2
<1>7. t \in Seq(K) /\ (b1 => Has(t, c1)) /\ (b2 => Has(t, c2))
  BY <1>4, <1>5, <1>6, DeployAppend
<1>8. ASSUME NEW k \in K, k.fn \in G
      PROVE  DeployFirstDone(chain, d, u, k) \/ Has(t, k)
  <2>1. PICK n \in DeployMasters : k = Deploy!registerMaster(d, n)
    BY <1>8, DeployFirstOf
  <2>2. n = "SGL" \/ (IsHost /\ n = "BB")
    BY DEF DeployMasters, Deploy!Kinds
  <2>3. n \in chain.penrose[d].masters => DeployFirstDone(chain, d, u, k)
    BY <2>1 DEF DeployFirstDone, Deploy!registerMaster
  <2> HIDE DEF t
  <2>4. n \notin chain.penrose[d].masters => Has(t, k)
    BY <2>1, <2>2, <1>2, <1>3, <1>7
  <2> QED BY <2>3, <2>4
<1> HIDE DEF t
<1>9. DeployFn1 \cup G = DeployFn2
  BY DEF DeployFn2
<1>10. \A k \in K : k.fn \in G => DeployFirstDone(chain, d, u, k) \/ Has(t, k)
  BY <1>8
<1> HIDE DEF G
<1> QED BY <1>1, <1>2, <1>7, <1>9, <1>10, DeployBuildsOn

LEMMA DeployBuildsMarkets ==
  ASSUME DeployInv, Deploy!setupRegisterBBAndSGLMarketsInPenrose
  PROVE  DeployInv'
<1> DEFINE d == db.deployment
           u == DeployUsdoId(db)
           K == DeployFirst(d, u)
           S == Deploy!Markets \ chain.penrose[mine].markets
           g == [m \in S |-> Deploy!addMarket(d, m)]
           t == [i \in 1 .. Len(Deploy!SetToSeq(S)) |-> g[Deploy!SetToSeq(S)[i]]]
           G == {"addMarket"}
<1>0. pc = "setupMarkets" /\ UNCHANGED Deploy!world
  BY DEF Deploy!setupRegisterBBAndSGLMarketsInPenrose
<1>1. mine = d /\ mine \in Deploy!Deployments /\ DeployPart(chain, db, calls, DeployFn2)
  BY <1>0, DeployRuns DEF DeployInv, DeployScriptOk
<1>2. CASE ~(Deploy!Markets \subseteq Deploy!Deployed)
  BY <1>0, <1>2, DeployThrows DEF Deploy!setupRegisterBBAndSGLMarketsInPenrose
<1>3. CASE Deploy!Markets \subseteq Deploy!Deployed
  <2>1. IsFiniteSet(S)
    BY DeployFinite, FS_Subset
  <2>2. g \in [S -> K]
    BY DEF DeployFirst
  <2>3. Deploy!Goto("setupEthMarket", t)
    <3>1. Deploy!SetToSeq(S) \in Seq(S)
      BY <2>1, DeploySetToSeq
    <3>2. Deploy!CallsFor(S, LAMBDA m : Deploy!addMarket(mine, m)) = t
      BY <3>1, <1>1 DEF Deploy!CallsFor
    <3>3. Deploy!Goto("setupEthMarket",
                      Deploy!CallsFor(S, LAMBDA m : Deploy!addMarket(mine, m)))
      BY <1>3 DEF Deploy!setupRegisterBBAndSGLMarketsInPenrose, Deploy!penrose
    <3> HIDE DEF t, S
    <3> QED BY <3>2, <3>3
  <2> HIDE DEF g
  <2>4. t \in Seq(K) /\ \A m \in S : Has(t, g[m])
    <3> HIDE DEF S, K
    <3> QED BY <2>1, <2>2, DeployCallsFor
  <2> HIDE DEF t
  <2>5. ASSUME NEW k \in K, k.fn \in G
        PROVE  DeployFirstDone(chain, d, u, k) \/ Has(t, k)
    <3>1. PICK m \in Deploy!Markets : k = Deploy!addMarket(d, m)
      BY <2>5, DeployFirstOf
    <3>2. CASE m \in chain.penrose[d].markets
      BY <3>1, <3>2 DEF DeployFirstDone, Deploy!addMarket
    <3>3. CASE m \in S
      BY <3>1, <3>3, <2>4 DEF g
    <3> QED BY <3>2, <3>3, <1>1
  <2>6. DeployFn2 \cup G = DeployFn3
    BY DEF DeployFn3
  <2>7. \A k \in K : k.fn \in G => DeployFirstDone(chain, d, u, k) \/ Has(t, k)
    BY <2>5
  <2> HIDE DEF G
  <2> QED BY <1>0, <1>1, <2>3, <2>4, <2>6, <2>7, DeployBuildsOn
<1> QED BY <1>2, <1>3

LEMMA DeployBuildsEthMarket ==
  ASSUME DeployInv, Deploy!setupRegisterBigBangEthMarket
  PROVE  DeployInv'
<1> DEFINE d == db.deployment
           u == DeployUsdoId(db)
           K == DeployFirst(d, u)
           b == IsHost /\ chain.penrose[mine].eth # EthMarket
           call == Deploy!setEthMarket(mine, EthMarket)
           t == Deploy!When(b, call)
           G == {"setBigBangEthMarket"}
<1>1. /\ pc = "setupEthMarket" /\ Deploy!Goto("setupFlashHelper", t) /\ UNCHANGED Deploy!world
  BY DEF Deploy!setupRegisterBigBangEthMarket, Deploy!penrose
<1>2. mine = d /\ DeployPart(chain, db, calls, DeployFn3)
  BY <1>1, DeployRuns DEF DeployInv, DeployScriptOk
<1>3. call = Deploy!setEthMarket(d, EthMarket) /\ (IsHost => call \in K)
  BY <1>2 DEF DeployFirst
<1> HIDE DEF call
<1>4. t \in Seq(K) /\ (b => Has(t, call))
  BY <1>3, DeployWhen
<1> HIDE DEF t
<1>5. ASSUME NEW k \in K, k.fn \in G
      PROVE  DeployFirstDone(chain, d, u, k) \/ Has(t, k)
  <2>1. IsHost /\ k = call
    BY <1>3, <1>5, DeployFirstOf
  <2>2. CASE chain.penrose[d].eth = EthMarket
    BY <1>5, <2>2 DEF DeployFirstDone
  <2>3. CASE chain.penrose[d].eth # EthMarket
    BY <1>2, <1>4, <2>1, <2>3
  <2> QED BY <2>2, <2>3
<1>6. DeployFn3 \cup G = DeployFn4
  BY DEF DeployFn4
<1>7. \A k \in K : k.fn \in G => DeployFirstDone(chain, d, u, k) \/ Has(t, k)
  BY <1>5
<1> HIDE DEF G
<1> QED BY <1>1, <1>2, <1>4, <1>6, <1>7, DeployBuildsOn

(* The roles of the operators, granted or taken away. *)
LEMMA DeployRoleCalls ==
  ASSUME NEW d, NEW a \in Deploy!Operators, NEW b \in BOOLEAN
  PROVE  Deploy!setMinter(d, a, b) \in DeployRoles(d) /\ Deploy!setBurner(d, a, b) \in DeployRoles(d)
  BY DEF DeployRoles

LEMMA DeployBuildsFlashHelper ==
  ASSUME DeployInv, Deploy!setupUsdoFlashloanHelperInUsdo
  PROVE  DeployInv'
<1> DEFINE d == db.deployment
           u == DeployUsdoId(db)
           K == DeployFirst(d, u)
           b1 == ~chain.usdo[mine].helper
           b2 == Deploy!FlashloanHelper \notin chain.usdo[mine].minters
           b3 == Deploy!FlashloanHelper \notin chain.usdo[mine].burners
           c1 == Deploy!setFlashHelper(mine)
           c2 == Deploy!setMinter(mine, Deploy!FlashloanHelper, TRUE)
           c3 == Deploy!setBurner(mine, Deploy!FlashloanHelper, TRUE)
           t1 == Deploy!When(b1, c1)
           t2 == Deploy!When(b2, c2)
           t3 == Deploy!When(b3, c3)
           t == t1 \o t2 \o t3
           G == {"setFlashloanHelper", "setMinterStatus", "setBurnerStatus"}
<1>1. pc = "setupFlashHelper" /\ Deploy!Goto("setupYbAssets", t) /\ UNCHANGED Deploy!world
  BY Zenon DEF Deploy!setupUsdoFlashloanHelperInUsdo, Deploy!usdo
<1>2. mine = d /\ DeployPart(chain, db, calls, DeployFn4)
  BY <1>1, DeployRuns DEF DeployInv, DeployScriptOk
<1>3. c1 = Deploy!setFlashHelper(d) /\ c1 \in K
  BY <1>2 DEF DeployFirst
<1>4. c2 \in K /\ c3 \in K
  <2>1. Deploy!FlashloanHelper \in Deploy!Operators
    BY DEF Deploy!Operators
  <2>2. c2 \in DeployRoles(mine) /\ c3 \in DeployRoles(mine)
    BY <2>1, DeployRoleCalls, Zenon
  <2>3. DeployRoles(mine) \subseteq K
    BY <1>2 DEF DeployFirst
  <2> HIDE DEF c2, c3, K
  <2> QED BY <2>2, <2>3
<1> HIDE DEF c1, c2, c3
<1>5. t1 \in Seq(K) /\ t2 \in Seq(K) /\ t3 \in Seq(K)
  BY <1>3, <1>4, DeployWhen
<1>6. b1 => Has(t1, c1)
  BY <1>3, DeployWhen
<1> HIDE DEF t1, t2, t3
<1>7. t \in Seq(K) /\ (b1 => Has(t, c1))
  <2> HIDE DEF K
  <2>1. t1 \o t2 \in Seq(K) /\ (b1 => Has(t1 \o t2, c1))
    BY <1>5, <1>6, DeployAppend
  <2> QED BY <2>1, <1>5, DeployAppend
<1>8. ASSUME NEW k \in K, k.fn \in G
      PROVE  DeployFirstDone(chain, d, u, k) \/ Has(t, k)
  <2>1. CASE k.fn = "setFlashloanHelper"
    <3>1. k = c1
      BY <1>3, <2>1, <1>8, DeployFirstOf
    <3>2. CASE chain.usdo[d].helper
      BY <2>1, <3>2 DEF DeployFirstDone
    <3>3. CASE ~chain.usdo[d].helper
      BY <3>1, <3>3, <1>2, <1>7
    <3> QED BY <3>2, <3>3
  <2>2. CASE k.fn \in {"setMinterStatus", "setBurnerStatus"}
    BY <2>2 DEF DeployFirstDone
  <2> QED BY <1>8, <2>1, <2>2
<1> HIDE DEF t
<1>9. DeployFn4 \cup G = DeployFn5
  BY DEF DeployFn5
<1>10. \A k \in K : k.fn \in G => DeployFirstDone(chain, d, u, k) \/ Has(t, k)
  BY <1>8
<1> HIDE DEF G
<1> QED BY <1>1, <1>2, <1>7, <1>9, <1>10, DeployBuildsOn

LEMMA DeployNamesIds ==
  ASSUME NEW t \in Deploy!YbTokens, NEW d \in Deploy!Deployments, NEW c
  PROVE  IF <<t, d>> \in c.assets
         THEN Deploy!IdOf(c, t, d) = <<t, d>> /\ Deploy!IdOf(c, t, d) # NoId
         ELSE Deploy!IdOf(c, t, d) = NoId
<1>1. t \in Deploy!Markets \cup {UsdcMock, OriginsToken}
  BY DEF Deploy!YbTokens, Deploy!Collateral
<1>2. NoId # <<t, d>>
  BY <1>1, RolloutAssumption DEF Deploy!MarketsAssumption
<1> QED BY <1>2 DEF Deploy!IdOf

LEMMA DeployBuildsYbAssets ==
  ASSUME DeployInv, Deploy!setupCreateYBAssets
  PROVE  DeployInv'
<1> DEFINE d == db.deployment
           u == DeployUsdoId(db)
           K == DeployFirst(d, u)
           S == {id \in Deploy!IdsToRegister : Deploy!ids(id[1], id[2]) = NoId}
           g == [id \in S |-> Deploy!registerAsset(d, id)]
           t == [i \in 1 .. Len(Deploy!SetToSeq(S)) |-> g[Deploy!SetToSeq(S)[i]]]
           G == {"registerAsset"}
<1>0. pc = "setupYbAssets" /\ UNCHANGED Deploy!world
  BY DEF Deploy!setupCreateYBAssets
<1>1. mine = d /\ mine \in Deploy!Deployments /\ DeployPart(chain, db, calls, DeployFn5)
  BY <1>0, DeployRuns DEF DeployInv, DeployScriptOk
<1>2. CASE IsHost /\ ~HasUsdcMock
  BY <1>0, <1>2, DeployThrows DEF Deploy!setupCreateYBAssets
<1>3. CASE ~(IsHost /\ ~HasUsdcMock)
  <2>1. IsFiniteSet(S)
    <3> DEFINE f == [x \in Deploy!YbTokens |-> <<x, mine>>]
               T == Deploy!IdsToRegister
    <3>1. f \in [Deploy!YbTokens -> T] /\ \A y \in T : \E x \in Deploy!YbTokens : f[x] = y
      BY DEF Deploy!IdsToRegister
    <3>2. S \subseteq T
      OBVIOUS
    <3> HIDE DEF f, T, S
    <3>3. f \in Surjection(Deploy!YbTokens, T)
      BY <3>1 DEF Surjection
    <3>4. IsFiniteSet(T)
      BY <3>3, DeployFinite, FS_Surjection
    <3> QED BY <3>2, <3>4, FS_Subset
  <2>2. g \in [S -> K]
    BY <1>1 DEF DeployFirst, Deploy!IdsToRegister
  <2>3. Deploy!Goto("send1", t)
    <3>1. Deploy!SetToSeq(S) \in Seq(S)
      BY <2>1, DeploySetToSeq
    <3>2. Deploy!CallsFor(S, LAMBDA id : Deploy!registerAsset(mine, id)) = t
      <4> HIDE DEF S
      <4> QED BY <3>1, <1>1 DEF Deploy!CallsFor
    <3>3. Deploy!Goto("send1", Deploy!CallsFor(S, LAMBDA id : Deploy!registerAsset(mine, id)))
      BY <1>3 DEF Deploy!setupCreateYBAssets
    <3> HIDE DEF t, S
    <3> QED BY <3>2, <3>3
  <2>4. \A id \in S : g[id] = Deploy!registerAsset(d, id)
    OBVIOUS
  <2> HIDE DEF g
  <2>5. t \in Seq(K) /\ \A id \in S : Has(t, g[id])
    <3> HIDE DEF S, K
    <3> QED BY <2>1, <2>2, DeployCallsFor
  <2> HIDE DEF t
  <2>6. ASSUME NEW k \in K, k.fn \in G
        PROVE  DeployFirstDone(chain, d, u, k) \/ Has(t, k)
    <3>1. PICK x \in Deploy!YbTokens : k = Deploy!registerAsset(d, <<x, d>>)
      BY <2>6, DeployFirstOf
    <3>2. CASE <<x, d>> \in chain.assets
      BY <3>1, <3>2 DEF DeployFirstDone, Deploy!registerAsset
    <3>3. CASE <<x, d>> \notin chain.assets
      <4>1. <<x, d>> \in Deploy!IdsToRegister
        BY <1>1 DEF Deploy!IdsToRegister
      <4>2. Deploy!ids(x, d) = NoId
        BY <1>1, <3>3, DeployNamesIds DEF Deploy!ids
      <4>3. <<x, d>> \in S
        BY <4>1, <4>2
      <4> HIDE DEF S
      <4> QED BY <3>1, <4>3, <2>4, <2>5
    <3> QED BY <3>2, <3>3
  <2>7. DeployFn5 \cup G = DeployFn6
    BY DEF DeployFn6
  <2>8. \A k \in K : k.fn \in G => DeployFirstDone(chain, d, u, k) \/ Has(t, k)
    BY <2>6
  <2> HIDE DEF G
  <2> QED BY <1>0, <1>1, <2>3, <2>5, <2>7, <2>8, DeployBuildsOn
<1> QED BY <1>2, <1>3

(* The second batch.  Its deployment is wired: all its ids are known. *)
LEMMA DeployKnowsIds ==
  ASSUME DeployInv, pc \in {"setupMain", "setupDeposits", "setupInit", "setupMinters", "send2"}
  PROVE  /\ mine = db.deployment /\ mine # 0 /\ mine \in Deploy!Deployments
         /\ mine \in 0 .. made.deployments /\ pool = <<>>
         /\ DeployHasStrat(db) /\ DeployWired(chain, mine)
         /\ \A t \in Deploy!YbTokens : Deploy!ids(t, mine) = <<t, mine>>
         /\ Deploy!ids(mine, db.usdoStrat.strategy) = DeployUsdoId(db)
<1>1. mine = db.deployment /\ mine # 0 /\ mine \in Deploy!Deployments
      /\ mine \in 0 .. made.deployments
  BY DeployRuns DEF DeployInv, DeployScriptOk
<1>2. pool = <<>> /\ DeployWired(chain, mine)
  BY <1>1 DEF DeployInv, DeployScriptOk, DeployMid
<1>3. DeployHasStrat(db) /\ DeployUsdoId(db) \in chain.assets
  BY <1>1, <1>2 DEF DeployInv, DeployFileOk, DeployHasStrat
<1>4. \A t \in Deploy!YbTokens : Deploy!ids(t, mine) = <<t, mine>>
  BY <1>1, <1>2, DeployNamesIds DEF DeployWired, Deploy!ids
<1>5. Deploy!ids(mine, db.usdoStrat.strategy) = DeployUsdoId(db)
  BY <1>1, <1>3 DEF DeployHasStrat, DeployUsdoId, Deploy!ids, Deploy!IdOf
<1> QED BY <1>1, <1>2, <1>3, <1>4, <1>5

LEMMA DeployBuildsMain ==
  ASSUME DeployInv, Deploy!setupPenroseMainAssets
  PROVE  DeployInv'
<1> DEFINE d == db.deployment
           u == DeployUsdoId(db)
           b == IsHost /\ chain.penrose[mine].mainToken # EthMarket
           call == Deploy!setMain(mine, EthMarket, Deploy!ids(EthMarket, mine))
           t == Deploy!When(b, call)
<1>1. pc = "setupMain" /\ Deploy!Goto("setupDeposits", t) /\ UNCHANGED Deploy!world
  BY DEF Deploy!setupPenroseMainAssets, Deploy!penrose
<1>2. /\ mine = d /\ mine # 0 /\ mine \in 0 .. made.deployments /\ pool = <<>>
      /\ DeployWired(chain, d)
      /\ \A x \in Deploy!YbTokens : Deploy!ids(x, mine) = <<x, mine>>
  BY <1>1, DeployKnowsIds
<1>3. DeployMid(chain, db, pool, calls, calls = <<>>)
  BY <1>1 DEF DeployInv, DeployScriptOk
<1>4. calls' = calls \o t /\ pc' = "setupDeposits" /\ mine' = mine
  BY <1>1 DEF Deploy!Goto
<1>5. DeployMid(chain, db, pool, calls', DeployMainFirst(db, calls'))
  <2>1. CASE DeployUp(chain, d) /\ calls \in Seq(DeployRest(d))
    <3>1. ~b
      BY <1>2, <2>1 DEF DeployUp
    <3>2. calls' = calls
      BY <1>4, <2>1, <3>1 DEF Deploy!When
    <3> QED BY <1>2, <2>1, <3>2 DEF DeployMid
  <2>2. CASE DeployClosed(chain, d) /\ calls = <<>>
    <3>1. chain.penrose[d].mainToken = Weth /\ EthMarket # Weth
      BY <2>2, RolloutAssumption DEF DeployClosed, Deploy!MarketsAssumption
    <3>2. b <=> IsHost
      BY <1>2, <3>1
    <3>3. IsHost => call = Deploy!setMain(d, EthMarket, <<EthMarket, d>>)
      <4>1. IsHost => EthMarket \in Deploy!YbTokens
        BY DeployCollaterals, RolloutAssumption
           DEF Deploy!YbTokens, Deploy!ChainAssumption
      <4> QED BY <1>2, <4>1
    <3>4. IsHost => call \in DeploySecond(d, u)
      BY <3>3 DEF DeploySecond
    <3> HIDE DEF call, b
    <3>5. calls' = t
      BY <1>4, <2>2 DEF Deploy!When
    <3>6. calls' \in Seq(DeploySecond(d, u))
      BY <3>2, <3>4, <3>5, DeployWhen
    <3>7. IsHost => calls' = <<call>>
      BY <3>2, <3>5 DEF Deploy!When
    <3>8. DeployMainFirst(db, calls')
      BY <3>3, <3>7 DEF DeployMainFirst
    <3> QED BY <1>2, <2>2, <3>6, <3>8 DEF DeployMid
  <2> QED BY <1>3, <2>1, <2>2 DEF DeployMid
<1>6. DeployScriptOk(chain, db, pool, pc', mine', calls', made)
  BY <1>2, <1>4, <1>5 DEF DeployScriptOk
<1> QED BY <1>1, <1>2, <1>4, <1>6, DeployMoves DEF Deploy!Steps

(* More of it, of calls that change nothing in a live deployment. *)
LEMMA DeployMidGrows ==
  ASSUME NEW c, NEW f, NEW q, NEW s, NEW S, DeployMid(c, f, q, s, S),
         NEW t, t \in Seq(DeployRest(f.deployment)), NEW T,
         s \in Seq(DeploySecond(f.deployment, DeployUsdoId(f))) /\ S => T
  PROVE  DeployMid(c, f, q, s \o t, T)
<1>1. t \in Seq(DeploySecond(f.deployment, DeployUsdoId(f)))
  BY DEF DeploySecond
<1>2. \A K : s \in Seq(K) /\ t \in Seq(K) => s \o t \in Seq(K)
  OBVIOUS
<1> QED BY <1>1, <1>2 DEF DeployMid

LEMMA DeployBuildsDeposits ==
  ASSUME DeployInv, Deploy!setupDepositYbAssets
  PROVE  DeployInv'
<1> DEFINE d == db.deployment
           K == DeployRest(d)
           S == Deploy!IdsToSeed
           g == [id \in S |-> Deploy!depositAsset(d, id)]
           r == [i \in 1 .. Len(Deploy!SetToSeq(S)) |-> g[Deploy!SetToSeq(S)[i]]]
           w == <<Deploy!wrap(d)>>
           t == w \o r
<1>0. pc = "setupDeposits" /\ UNCHANGED Deploy!world
  BY DEF Deploy!setupDepositYbAssets
<1>1. /\ mine = d /\ mine # 0 /\ mine \in 0 .. made.deployments
      /\ \A x \in Deploy!YbTokens : Deploy!ids(x, mine) = <<x, mine>>
  BY <1>0, DeployKnowsIds
<1>2. DeployMid(chain, db, pool, calls, DeployMainFirst(db, calls))
  BY <1>0 DEF DeployInv, DeployScriptOk
<1>3. CASE chain.funds = 0
  BY <1>0, <1>3, DeployThrows DEF Deploy!setupDepositYbAssets
<1>4. CASE chain.funds # 0
  <2>1. IsFiniteSet(S)
    <3> DEFINE f == [x \in DeploySeeds |-> <<x, mine>>]
    <3>1. f \in [DeploySeeds -> S] /\ \A y \in S : \E x \in DeploySeeds : f[x] = y
      BY DEF Deploy!IdsToSeed, DeploySeeds
    <3> HIDE DEF f, S
    <3>2. f \in Surjection(DeploySeeds, S)
      BY <3>1 DEF Surjection
    <3> QED BY <3>2, DeployFinite, FS_Surjection
  <2>2. g \in [S -> K]
    BY <1>1 DEF DeployRest, Deploy!IdsToSeed, DeploySeeds
  <2>3. Deploy!Goto("setupInit", t)
    <3>1. Deploy!SetToSeq(S) \in Seq(S)
      BY <2>1, DeploySetToSeq
    <3>2. \A id \in S : Deploy!ids(id[1], id[2]) = id
      BY <1>1 DEF Deploy!IdsToSeed
    <3>3. Deploy!CallsFor(S, LAMBDA id : Deploy!depositAsset(mine, Deploy!ids(id[1], id[2]))) = r
      <4> HIDE DEF S
      <4> QED BY <3>1, <3>2, <1>1 DEF Deploy!CallsFor
    <3>4. Deploy!Goto("setupInit", <<Deploy!wrap(mine)>> \o
             Deploy!CallsFor(S, LAMBDA id : Deploy!depositAsset(mine, Deploy!ids(id[1], id[2]))))
      BY <1>4 DEF Deploy!setupDepositYbAssets
    <3> HIDE DEF r, S
    <3> QED BY <3>3, <3>4, <1>1
  <2>4. \A id \in S : g[id] = Deploy!depositAsset(d, id)
    OBVIOUS
  <2> HIDE DEF g
  <2>5. r \in Seq(K) /\ \A id \in S : Has(r, g[id])
    <3> HIDE DEF S, K
    <3> QED BY <2>1, <2>2, DeployCallsFor
  <2> HIDE DEF r
  <2>6. w \in Seq(K) /\ w # <<>>
    BY DEF DeployRest
  <2> HIDE DEF w
  <2>7. /\ t \in Seq(K) /\ t # <<>>
        /\ \A id \in S : Has(t, Deploy!depositAsset(d, id))
    <3>1. t \in Seq(K) /\ \A id \in S : Has(t, g[id])
      <4> HIDE DEF K, S
      <4> QED BY <2>5, <2>6, DeployAppend
    <3>2. t # <<>>
      BY <2>5, <2>6
    <3> HIDE DEF t, S
    <3> QED BY <2>4, <3>1, <3>2
  <2> HIDE DEF t
  <2>8. calls' = calls \o t /\ pc' = "setupInit" /\ mine' = mine
    BY <2>3 DEF Deploy!Goto
  <2>9. ASSUME calls \in Seq(DeploySecond(d, DeployUsdoId(db))), DeployMainFirst(db, calls)
        PROVE  DeployMainFirst(db, calls') /\ DeploySeedsAll(db, calls')
    <3>1. t \in Seq(DeploySecond(d, DeployUsdoId(db)))
      BY <2>7 DEF DeploySecond
    <3> DEFINE L == DeploySecond(d, DeployUsdoId(db))
    <3>2. /\ \A k : Has(calls, k) \/ Has(t, k) => Has(calls', k)
          /\ calls # <<>> => calls' # <<>> /\ calls'[1] = calls[1]
          /\ calls' # <<>>
      <4> HIDE DEF L
      <4> QED BY <2>7, <2>8, <2>9, <3>1, DeployAppend
    <3>3. DeployMainFirst(db, calls')
      BY <2>9, <3>2 DEF DeployMainFirst
    <3>4. ASSUME NEW x \in DeploySeeds PROVE Has(calls', Deploy!depositAsset(d, <<x, d>>))
      <4>1. <<x, d>> \in S
        BY <1>1 DEF Deploy!IdsToSeed, DeploySeeds
      <4> HIDE DEF S
      <4> QED BY <4>1, <2>7, <3>2
    <3> QED BY <3>2, <3>3, <3>4 DEF DeploySeedsAll
  <2>10. DeployMid(chain, db, pool, calls',
                   DeployMainFirst(db, calls') /\ DeploySeedsAll(db, calls'))
    <3> DEFINE P == DeployMainFirst(db, calls)
               T == DeployMainFirst(db, calls') /\ DeploySeedsAll(db, calls')
    <3>1. DeployMid(chain, db, pool, calls, P) /\ t \in Seq(DeployRest(db.deployment))
      BY <1>2, <2>7
    <3>2. calls \in Seq(DeploySecond(db.deployment, DeployUsdoId(db))) /\ P => T
      BY <2>9
    <3> HIDE DEF P, T
    <3>3. DeployMid(chain, db, pool, calls \o t, T)
      BY <3>1, <3>2, DeployMidGrows, Zenon
    <3>4. DeployMid(chain, db, pool, calls', T)
      BY <2>8, <3>3
    <3> QED BY <3>4 DEF T
  <2>11. DeployScriptOk(chain, db, pool, pc', mine', calls', made)
    BY <1>1, <2>8, <2>10 DEF DeployScriptOk
  <2> QED BY <1>0, <1>1, <2>8, <2>11, DeployMoves DEF Deploy!Steps
<1> QED BY <1>3, <1>4

(* Several calls for each member of a set. *)
LEMMA DeployFlatCalls ==
  ASSUME NEW S, IsFiniteSet(S), NEW K, NEW g \in [S -> Seq(K)], NEW q,
         q = Deploy!FlattenSeq([i \in 1 .. Len(Deploy!SetToSeq(S)) |-> g[Deploy!SetToSeq(S)[i]]])
  PROVE  q \in Seq(K) /\ \A x \in S : \A k : Has(g[x], k) => Has(q, k)
<1> DEFINE r == [i \in 1 .. Len(Deploy!SetToSeq(S)) |-> g[Deploy!SetToSeq(S)[i]]]
<1>1. r \in Seq(Seq(K)) /\ \A x \in S : Has(r, g[x])
  <2> DEFINE L == Seq(K)
  <2> HIDE DEF L
  <2> QED BY DeployCallsFor
<1>2. q = Deploy!FlattenSeq(r)
  OBVIOUS
<1> HIDE DEF r
<1>3. q \in Seq(K) /\ \A i \in DOMAIN r : \A k : Has(r[i], k) => Has(q, k)
  BY <1>1, <1>2, DeployFlatten
<1>4. ASSUME NEW x \in S, NEW k, Has(g[x], k) PROVE Has(q, k)
  <2>1. PICK i \in DOMAIN r : r[i] = g[x]
    BY <1>1 DEF Has
  <2> QED BY <1>3, <1>4, <2>1
<1> QED BY <1>3, <1>4

LEMMA DeployPairs ==
  ASSUME NEW a, NEW b, NEW K, a \in K, b \in K
  PROVE  <<a, b>> \in Seq(K) /\ Has(<<a, b>>, a) /\ Has(<<a, b>>, b)
<1>1. 1 \in DOMAIN <<a, b>> /\ 2 \in DOMAIN <<a, b>> /\ <<a, b>>[1] = a /\ <<a, b>>[2] = b
  OBVIOUS
<1> QED BY <1>1 DEF Has

LEMMA DeployBBCalls ==
  ASSUME NEW d, NEW T, T \subseteq Deploy!Markets, NEW q, mine = d,
         \A x \in Deploy!YbTokens : Deploy!ids(x, mine) = <<x, mine>>,
         q = Deploy!initBBMarkets(T), NEW u
  PROVE  /\ q \in Seq(DeploySecond(d, u)) /\ (T = {} => q \in Seq(DeployRest(d)))
         /\ \A m \in T \cap BBs : /\ Has(q, Deploy!initBB(d, m, <<Deploy!Collateral(m), d>>))
                                  /\ Has(q, Deploy!configBB(d, m, ConfiguredCap))
<1> DEFINE S == T \cap BBs
           K == DeploySecond(d, u)
           a(m) == Deploy!initBB(d, m, <<Deploy!Collateral(m), d>>)
           b(m) == Deploy!configBB(d, m, ConfiguredCap)
           g == [m \in S |-> <<a(m), b(m)>>]
<1>1. IsFiniteSet(S) /\ S \subseteq BBs /\ S \subseteq Deploy!Markets
  BY DeployFinite, FS_Subset DEF Deploy!Markets
<1>2. \A m \in S : Deploy!ids(Deploy!Collateral(m), mine) = <<Deploy!Collateral(m), d>>
  BY <1>1 DEF Deploy!YbTokens
<1>3. q = Deploy!FlattenSeq([i \in 1 .. Len(Deploy!SetToSeq(S)) |-> g[Deploy!SetToSeq(S)[i]]])
  <2>1. Deploy!SetToSeq(S) \in Seq(S)
    BY <1>1, DeploySetToSeq
  <2>2. q = Deploy!FlattenSeq(Deploy!CallsFor(S, Deploy!initBBMarket))
    BY DEF Deploy!initBBMarkets
  <2> HIDE DEF S
  <2>3. Deploy!CallsFor(S, Deploy!initBBMarket)
          = [i \in 1 .. Len(Deploy!SetToSeq(S)) |-> g[Deploy!SetToSeq(S)[i]]]
    BY <1>2, <2>1 DEF Deploy!CallsFor, Deploy!initBBMarket
  <2> QED BY <2>2, <2>3
<1>4. \A m \in S : g[m] = <<a(m), b(m)>>
  OBVIOUS
<1>5. \A m \in S : a(m) \in K /\ b(m) \in K
  BY <1>1 DEF DeploySecond
<1>6. \A m \in S : <<a(m), b(m)>> \in Seq(K) /\ Has(<<a(m), b(m)>>, a(m)) /\ Has(<<a(m), b(m)>>, b(m))
  <2> HIDE DEF a, b, K
  <2> QED BY <1>5, DeployPairs
<1>7. g \in [S -> Seq(K)]
  <2> HIDE DEF a, b, K
  <2> QED BY <1>6
<1> HIDE DEF g, a, b, S
<1>8. q \in Seq(K) /\ \A m \in S : \A k : Has(g[m], k) => Has(q, k)
  <2> HIDE DEF K
  <2> QED BY <1>1, <1>3, <1>7, DeployFlatCalls
<1>9. \A m \in S : Has(q, a(m)) /\ Has(q, b(m))
  BY <1>4, <1>6, <1>8
<1>10. ASSUME T = {} PROVE q \in Seq(DeployRest(d))
  <2> DEFINE L == DeployRest(d)
  <2>1. g \in [S -> Seq(L)]
    <3>1. S = {}
      BY <1>10 DEF S
    <3> HIDE DEF L
    <3> QED BY <3>1, <1>7
  <2> HIDE DEF L
  <2>2. q \in Seq(L)
    BY <1>1, <1>3, <2>1, DeployFlatCalls
  <2> QED BY <2>2 DEF L
<1> QED BY <1>8, <1>9, <1>10 DEF a, b, S

LEMMA DeploySGLCalls ==
  ASSUME NEW d, NEW T, T \subseteq Deploy!Markets, NEW q, mine = d,
         \A x \in Deploy!YbTokens : Deploy!ids(x, mine) = <<x, mine>>,
         NEW u, Deploy!ids(mine, db.usdoStrat.strategy) = u,
         q = Deploy!initSGLMarkets(T)
  PROVE  /\ q \in Seq(DeploySecond(d, u)) /\ (T = {} => q \in Seq(DeployRest(d)))
         /\ \A m \in T \cap SGLs : /\ Has(q, Deploy!initSGL(d, m, u, <<Deploy!Collateral(m), d>>))
                                   /\ Has(q, Deploy!configSGL(d, m))
<1> DEFINE S == T \cap SGLs
           K == DeploySecond(d, u)
           a(m) == Deploy!initSGL(d, m, u, <<Deploy!Collateral(m), d>>)
           b(m) == Deploy!configSGL(d, m)
           g == [m \in S |-> <<a(m), b(m)>>]
<1>1. IsFiniteSet(S) /\ S \subseteq SGLs /\ S \subseteq Deploy!Markets
  BY DeployFinite, FS_Subset DEF Deploy!Markets
<1>2. \A m \in S : Deploy!ids(Deploy!Collateral(m), mine) = <<Deploy!Collateral(m), d>>
  BY <1>1 DEF Deploy!YbTokens
<1>3. q = Deploy!FlattenSeq([i \in 1 .. Len(Deploy!SetToSeq(S)) |-> g[Deploy!SetToSeq(S)[i]]])
  <2>1. Deploy!SetToSeq(S) \in Seq(S)
    BY <1>1, DeploySetToSeq
  <2>2. q = Deploy!FlattenSeq(Deploy!CallsFor(S, Deploy!initSGLMarket))
    BY DEF Deploy!initSGLMarkets
  <2> HIDE DEF S
  <2>3. Deploy!CallsFor(S, Deploy!initSGLMarket)
          = [i \in 1 .. Len(Deploy!SetToSeq(S)) |-> g[Deploy!SetToSeq(S)[i]]]
    BY <1>2, <2>1 DEF Deploy!CallsFor, Deploy!initSGLMarket
  <2> QED BY <2>2, <2>3
<1>4. \A m \in S : g[m] = <<a(m), b(m)>>
  OBVIOUS
<1>5. \A m \in S : a(m) \in K /\ b(m) \in K
  BY <1>1 DEF DeploySecond
<1>6. \A m \in S : <<a(m), b(m)>> \in Seq(K) /\ Has(<<a(m), b(m)>>, a(m)) /\ Has(<<a(m), b(m)>>, b(m))
  <2> HIDE DEF a, b, K
  <2> QED BY <1>5, DeployPairs
<1>7. g \in [S -> Seq(K)]
  <2> HIDE DEF a, b, K
  <2> QED BY <1>6
<1> HIDE DEF g, a, b, S
<1>8. q \in Seq(K) /\ \A m \in S : \A k : Has(g[m], k) => Has(q, k)
  <2> HIDE DEF K
  <2> QED BY <1>1, <1>3, <1>7, DeployFlatCalls
<1>9. \A m \in S : Has(q, a(m)) /\ Has(q, b(m))
  BY <1>4, <1>6, <1>8
<1>10. ASSUME T = {} PROVE q \in Seq(DeployRest(d))
  <2> DEFINE L == DeployRest(d)
  <2>1. g \in [S -> Seq(L)]
    <3>1. S = {}
      BY <1>10 DEF S
    <3> HIDE DEF L
    <3> QED BY <3>1, <1>7
  <2> HIDE DEF L
  <2>2. q \in Seq(L)
    BY <1>1, <1>3, <2>1, DeployFlatCalls
  <2> QED BY <2>2 DEF L
<1> QED BY <1>8, <1>9, <1>10 DEF a, b, S

LEMMA DeployBuildsInit ==
  ASSUME DeployInv, Deploy!setupInitAndRegisterMarket
  PROVE  DeployInv'
<1> DEFINE d == db.deployment
           u == DeployUsdoId(db)
           K == DeploySecond(d, u)
           T == {m \in Deploy!Markets : ~Deploy!market[m].ready}
           t1 == Deploy!initBBMarkets(T)
           t2 == Deploy!initSGLMarkets(T)
           t == t1 \o t2
<1>0. pc = "setupInit" /\ UNCHANGED Deploy!world
  BY DEF Deploy!setupInitAndRegisterMarket
<1>1. /\ mine = d /\ mine # 0 /\ mine \in 0 .. made.deployments /\ pool = <<>>
      /\ DeployWired(chain, d)
      /\ \A x \in Deploy!YbTokens : Deploy!ids(x, mine) = <<x, mine>>
      /\ Deploy!ids(mine, db.usdoStrat.strategy) = u
  BY <1>0, DeployKnowsIds
<1>2. DeployMid(chain, db, pool, calls, DeployMainFirst(db, calls) /\ DeploySeedsAll(db, calls))
  BY <1>0 DEF DeployInv, DeployScriptOk
<1>3. T = {m \in Deploy!Markets : ~chain.market[d][m].ready} /\ T \subseteq Deploy!Markets
  BY <1>1 DEF Deploy!market
<1>4. Deploy!Throw \/ Deploy!Goto("setupMinters", t)
  BY DEF Deploy!setupInitAndRegisterMarket
<1> HIDE DEF T
<1>5. /\ t1 \in Seq(K) /\ (T = {} => t1 \in Seq(DeployRest(d)))
      /\ \A m \in T \cap BBs : /\ Has(t1, Deploy!initBB(d, m, <<Deploy!Collateral(m), d>>))
                               /\ Has(t1, Deploy!configBB(d, m, ConfiguredCap))
  <2> HIDE DEF d, u
  <2> QED BY <1>1, <1>3, DeployBBCalls
<1>6. /\ t2 \in Seq(K) /\ (T = {} => t2 \in Seq(DeployRest(d)))
      /\ \A m \in T \cap SGLs : /\ Has(t2, Deploy!initSGL(d, m, u, <<Deploy!Collateral(m), d>>))
                                /\ Has(t2, Deploy!configSGL(d, m))
  <2> HIDE DEF d, u
  <2> QED BY <1>1, <1>3, DeploySGLCalls
<1> HIDE DEF t1, t2
<1>7. CASE Deploy!Throw
  BY <1>0, <1>7, DeployThrows
<1>8. CASE Deploy!Goto("setupMinters", t)
  <2>1. calls' = calls \o t /\ pc' = "setupMinters" /\ mine' = mine
    BY <1>8 DEF Deploy!Goto
  <2>2. DeployMid(chain, db, pool, calls', DeploySecondFull(calls', d, u))
    <3>1. CASE DeployUp(chain, d) /\ calls \in Seq(DeployRest(d))
      <4>1. T = {}
        BY <1>3, <3>1 DEF DeployUp
      <4> DEFINE R == DeployRest(d)
      <4>2. calls \in Seq(R) /\ t1 \in Seq(R) /\ t2 \in Seq(R)
        BY <1>5, <1>6, <3>1, <4>1
      <4> HIDE DEF R
      <4>3. calls' \in Seq(R)
        BY <2>1, <4>2
      <4> QED BY <1>1, <3>1, <4>3 DEF DeployMid, R
    <3>2. CASE /\ DeployClosed(chain, d) /\ calls \in Seq(K)
               /\ DeployMainFirst(db, calls) /\ DeploySeedsAll(db, calls)
      <4>1. T = Deploy!Markets
        BY <1>3, <3>2, DeployNewIsNotReady DEF DeployClosed
      <4>2. BBs \subseteq T /\ SGLs \subseteq T
        BY <4>1 DEF Deploy!Markets
      <4>3. t \in Seq(K) /\ \A k : Has(t1, k) \/ Has(t2, k) => Has(t, k)
        <5> HIDE DEF K
        <5> QED BY <1>5, <1>6, DeployAppend
      <4> HIDE DEF t
      <4>4. /\ calls' \in Seq(K)
            /\ \A k : Has(calls, k) \/ Has(t, k) => Has(calls', k)
            /\ calls # <<>> => calls' # <<>> /\ calls'[1] = calls[1]
        <5> HIDE DEF K
        <5> QED BY <2>1, <3>2, <4>3, DeployAppend
      <4>5. calls' # <<>> /\ (IsHost => calls'[1] = Deploy!setMain(d, EthMarket, <<EthMarket, d>>))
        BY <3>2, <4>4 DEF DeployMainFirst, DeploySeedsAll
      <4>6. \A x \in DeploySeeds : Has(calls', Deploy!depositAsset(d, <<x, d>>))
        BY <3>2, <4>4 DEF DeploySeedsAll
      <4>7. \A m \in BBs : /\ Has(calls', Deploy!initBB(d, m, <<Deploy!Collateral(m), d>>))
                           /\ Has(calls', Deploy!configBB(d, m, ConfiguredCap))
        BY <1>5, <4>2, <4>3, <4>4
      <4>8. \A m \in SGLs : /\ Has(calls', Deploy!initSGL(d, m, u, <<Deploy!Collateral(m), d>>))
                            /\ Has(calls', Deploy!configSGL(d, m))
        BY <1>6, <4>2, <4>3, <4>4
      <4>9. DeploySecondFull(calls', d, u)
        BY <4>4, <4>5, <4>6, <4>7, <4>8 DEF DeploySecondFull
      <4> QED BY <1>1, <3>2, <4>4, <4>9 DEF DeployMid
    <3> QED BY <1>2, <3>1, <3>2 DEF DeployMid
  <2>3. DeployScriptOk(chain, db, pool, pc', mine', calls', made)
    BY <1>1, <2>1, <2>2 DEF DeployScriptOk
  <2> QED BY <1>0, <1>1, <2>1, <2>3, DeployMoves DEF Deploy!Steps
<1> QED BY <1>4, <1>7, <1>8

LEMMA DeployBuildsMinters ==
  ASSUME DeployInv, Deploy!setupRegisterBBAsMinterBurnerInUsdo
  PROVE  DeployInv'
<1> DEFINE d == db.deployment
           u == DeployUsdoId(db)
           R == DeployRest(d)
           S == (BBs \ Mocks) \ Deploy!usdo.minters
           a(m) == Deploy!setMinter(mine, m, TRUE)
           b(m) == Deploy!setBurner(mine, m, TRUE)
           g == [m \in S |-> <<a(m), b(m)>>]
           t == Deploy!FlattenSeq([i \in 1 .. Len(Deploy!SetToSeq(S)) |-> g[Deploy!SetToSeq(S)[i]]])
<1>0. pc = "setupMinters" /\ UNCHANGED Deploy!world
  BY DEF Deploy!setupRegisterBBAsMinterBurnerInUsdo
<1>1. mine = d /\ mine # 0 /\ mine \in 0 .. made.deployments /\ pool = <<>>
  BY <1>0, DeployKnowsIds
<1>2. DeployMid(chain, db, pool, calls, DeploySecondFull(calls, d, u))
  BY <1>0 DEF DeployInv, DeployScriptOk
<1>3. IsFiniteSet(S) /\ S \subseteq Deploy!Operators
  BY DeployFinite, FS_Subset DEF Deploy!Operators
<1>4. Deploy!Goto("send2", t)
  <2>1. Deploy!SetToSeq(S) \in Seq(S)
    BY <1>3, DeploySetToSeq
  <2>2. Deploy!Goto("send2", Deploy!FlattenSeq(Deploy!CallsFor(S, LAMBDA m : <<a(m), b(m)>>)))
    BY DEF Deploy!setupRegisterBBAsMinterBurnerInUsdo
  <2> HIDE DEF S, a, b
  <2>3. Deploy!CallsFor(S, LAMBDA m : <<a(m), b(m)>>)
          = [i \in 1 .. Len(Deploy!SetToSeq(S)) |-> g[Deploy!SetToSeq(S)[i]]]
    BY <2>1 DEF Deploy!CallsFor
  <2> QED BY <2>2, <2>3
<1>5. \A m \in S : a(m) \in R /\ b(m) \in R
  <2>1. \A m \in S : a(m) \in DeployRoles(mine) /\ b(m) \in DeployRoles(mine)
    BY <1>3, DeployRoleCalls, Zenon
  <2>2. DeployRoles(mine) \subseteq R
    BY <1>1 DEF DeployRest
  <2> HIDE DEF a, b, R, S
  <2> QED BY <2>1, <2>2
<1> HIDE DEF a, b, S
<1>6. g \in [S -> Seq(R)]
  <2> HIDE DEF R
  <2>1. \A m \in S : <<a(m), b(m)>> \in Seq(R)
    BY <1>5, DeployPairs
  <2> QED BY <2>1
<1>7. t \in Seq(R)
  <2> HIDE DEF g, R
  <2> QED BY <1>3, <1>6, DeployFlatCalls
<1> HIDE DEF t
<1>8. calls' = calls \o t /\ pc' = "send2" /\ mine' = mine
  BY <1>4 DEF Deploy!Goto
<1> DEFINE P == DeploySecondFull(calls, d, u)
           Q == DeploySecondFull(calls \o t, d, u)
<1>9. calls \in Seq(DeploySecond(d, u)) /\ P => Q
  <2> SUFFICES ASSUME calls \in Seq(DeploySecond(d, u)), P PROVE Q
    OBVIOUS
  <2> DEFINE L == DeploySecond(d, u)
  <2>1. t \in Seq(L)
    BY <1>7 DEF DeploySecond
  <2>5. calls \in Seq(L)
    OBVIOUS
  <2>2. /\ calls \o t \in Seq(L) /\ \A k : Has(calls, k) \/ Has(t, k) => Has(calls \o t, k)
        /\ calls # <<>> => calls \o t # <<>> /\ (calls \o t)[1] = calls[1]
    <3> HIDE DEF L
    <3> QED BY <2>1, <2>5, DeployAppend
  <2> DEFINE s == calls \o t
  <2>3. /\ s \in Seq(L) /\ \A k : Has(calls, k) => Has(s, k)
        /\ calls # <<>> => s # <<>> /\ s[1] = calls[1]
    BY <2>2
  <2>4. DeploySecondFull(s, d, u)
    <3> HIDE DEF s
    <3> QED BY <2>3 DEF DeploySecondFull
  <2> QED BY <2>4
<1>10. DeployMid(chain, db, pool, calls \o t, Q)
  <2>1. DeployMid(chain, db, pool, calls, P) /\ t \in Seq(DeployRest(db.deployment))
    BY <1>2, <1>7
  <2>2. calls \in Seq(DeploySecond(db.deployment, DeployUsdoId(db))) /\ P => Q
    BY <1>9
  <2> HIDE DEF P, Q
  <2> QED BY <2>1, <2>2, DeployMidGrows, Zenon
<1>11. DeployMid(chain, db, pool, calls', DeploySecondFull(calls', d, u))
  BY <1>8, <1>10
<1>12. DeployScriptOk(chain, db, pool, pc', mine', calls', made)
  BY <1>1, <1>8, <1>11 DEF DeployScriptOk
<1> QED BY <1>0, <1>1, <1>8, <1>12, DeployMoves DEF Deploy!Steps

(* The script sends a batch. *)
LEMMA DeploySendsTypes ==
  ASSUME DeployInv, NEW from, NEW to, Deploy!setupPostLbp1(from, to),
         from \in {"send1", "send2"}, to \in {"wait1", "wait2"},
         calls \in Seq(DeployAll)
  PROVE  DeployTypes'
<1>1. /\ pool' = Append(pool, calls) /\ pc = from /\ pc' = to /\ mine' = mine
      /\ UNCHANGED <<chain, db, globals, made, budget>>
  BY DEF Deploy!setupPostLbp1
<1>2. pool' \in Seq(Seq(DeployAll)) /\ Len(pool') = Len(pool) + 1
  <2> DEFINE L == Seq(DeployAll)
  <2>1. pool \in Seq(L) /\ calls \in L
    BY DEF DeployInv, DeployTypes
  <2> HIDE DEF L
  <2>2. pool' \in Seq(L) /\ Len(pool') = Len(pool) + 1
    BY <1>1, <2>1
  <2> QED BY <2>2 DEF L
<1>3. Len(pool) \in Nat /\ budget.crashes \in Nat /\ MaxCrashes \in Nat
  <2>1. pool \in Seq(Seq(DeployAll)) /\ budget.crashes \in 0 .. MaxCrashes /\ MaxCrashes \in Nat
    BY RolloutAssumption DEF DeployInv, DeployTypes, Deploy!ChainAssumption
  <2> QED BY <2>1
<1>4. Len(pool) + budget.crashes <= MaxCrashes
  <2>1. pc \notin {"wait1", "wait2"}
    BY <1>1
  <2> DEFINE n == IF pc \in {"wait1", "wait2"} THEN 1 ELSE 0
  <2>2. Len(pool) + budget.crashes <= MaxCrashes + n
    BY DEF DeployInv, DeployTypes
  <2>3. n = 0
    BY <2>1
  <2> HIDE DEF n
  <2> QED BY <1>3, <2>2, <2>3
<1>5. pc' \in {"wait1", "wait2"} /\ pc' \in Deploy!Steps
  BY <1>1 DEF Deploy!Steps
<1>6. Len(pool') + budget'.crashes <= MaxCrashes + (IF pc' \in {"wait1", "wait2"} THEN 1 ELSE 0)
  BY <1>1, <1>2, <1>3, <1>4, <1>5
<1> QED BY <1>1, <1>2, <1>5, <1>6 DEF DeployInv, DeployTypes

LEMMA DeployCallsAreKnown ==
  ASSUME NEW d \in Deploy!Deployments, NEW u \in Deploy!Ids
  PROVE  DeployFirst(d, u) \subseteq DeployAll /\ DeploySecond(d, u) \subseteq DeployAll
  BY DEF DeployAll

LEMMA DeploySendsFirst ==
  ASSUME DeployInv, Deploy!setupPostLbp1("send1", "wait1")
  PROVE  DeployInv'
<1> DEFINE d == db.deployment
           u == DeployUsdoId(db)
<1>1. /\ pool' = Append(pool, calls) /\ pc = "send1" /\ pc' = "wait1" /\ calls' = <<>>
      /\ UNCHANGED <<chain, db, globals, made, budget, mine>>
  BY DEF Deploy!setupPostLbp1
<1>2. DeployPart(chain, db, calls, DeployFn6) /\ mine = d /\ mine # 0
  BY <1>1 DEF DeployInv, DeployScriptOk
<1>3. DeployHasStrat(db) /\ d \in Deploy!Deployments /\ u \in Deploy!Ids
  BY <1>2, DeployStratIds DEF DeployPart, DeployInv
<1>4. calls \in Seq(DeployAll)
  BY <1>2, <1>3, DeployCallsAreKnown DEF DeployPart
<1>5. DeployTypes'
  BY <1>4, DeploySendsTypes
<1>6. DeployIsFirst(chain, db, calls)
  <2>1. ASSUME NEW k \in DeployFirst(d, u) PROVE DeployFirstDone(chain, d, u, k) \/ Has(calls, k)
    BY <1>2, DeployFirstOf DEF DeployPart
  <2> QED BY <1>2, <2>1 DEF DeployIsFirst, DeployPart, DeployFirstFull
<1>7. /\ pool \in Seq(Seq(DeployAll)) /\ pool' # <<>> /\ Len(pool') = Len(pool) + 1
      /\ pool'[Len(pool')] = calls /\ \A i \in 1 .. Len(pool) : pool'[i] = pool[i]
  <2> DEFINE L == Seq(DeployAll)
  <2>1. pool \in Seq(L) /\ calls \in L
    BY <1>4 DEF DeployInv, DeployTypes
  <2> HIDE DEF L
  <2>2. /\ pool \in Seq(L) /\ pool' # <<>> /\ Len(pool') = Len(pool) + 1
        /\ pool'[Len(pool')] = calls /\ \A i \in 1 .. Len(pool) : pool'[i] = pool[i]
    BY <1>1, <2>1
  <2> QED BY <2>2 DEF L
<1>8. DeployPooled(chain, db, pool')
  <2>1. ASSUME NEW i \in 1 .. Len(pool')
        PROVE  DeployIsFirst(chain, db, pool'[i]) \/ (i = 1 /\ DeployIsSecond(chain, db, pool'[i]))
    <3>1. CASE i = Len(pool')
      BY <1>6, <1>7, <3>1
    <3>2. CASE i # Len(pool')
      <4>1. i \in 1 .. Len(pool)
        BY <1>7, <3>2
      <4> QED BY <1>7, <4>1 DEF DeployInv, DeployPooled
    <3> QED BY <3>1, <3>2
  <2> QED BY <1>3, <2>1 DEF DeployPooled
<1>9. DeployScriptOk(chain, db, pool', pc', mine', calls', made)
  BY <1>1, <1>2, <1>6, <1>7 DEF DeployScriptOk
<1> QED BY <1>1, <1>5, <1>8, <1>9 DEF DeployInv

LEMMA DeploySendsSecond ==
  ASSUME DeployInv, Deploy!setupPostLbp1("send2", "wait2")
  PROVE  DeployInv'
<1> DEFINE d == db.deployment
           u == DeployUsdoId(db)
<1>1. /\ pool' = Append(pool, calls) /\ pc = "send2" /\ pc' = "wait2" /\ calls' = <<>>
      /\ UNCHANGED <<chain, db, globals, made, budget, mine>>
  BY DEF Deploy!setupPostLbp1
<1>2. /\ mine = d /\ mine # 0 /\ pool = <<>> /\ DeployHasStrat(db)
      /\ d \in Deploy!Deployments
  BY <1>1, DeployKnowsIds
<1>3. DeployMid(chain, db, pool, calls, DeploySecondFull(calls, d, u))
  BY <1>1 DEF DeployInv, DeployScriptOk
<1>4. u \in Deploy!Ids
  BY <1>2, DeployStratIds DEF DeployInv
<1>5. calls \in Seq(DeployAll)
  <2>1. calls \in Seq(DeploySecond(d, u))
    BY <1>3 DEF DeployMid, DeploySecond
  <2> QED BY <1>2, <1>4, <2>1, DeployCallsAreKnown
<1>6. DeployTypes'
  BY <1>5, DeploySendsTypes
<1>7. DeployIsSecond(chain, db, calls)
  BY <1>3 DEF DeployIsSecond, DeploySecondBatchOf, DeployMid
<1>8. pool' = <<calls>>
  BY <1>1, <1>2
<1>9. DeployPooled(chain, db, pool')
  BY <1>2, <1>7, <1>8 DEF DeployPooled
<1>10. DeployScriptOk(chain, db, pool', pc', mine', calls', made)
  BY <1>1, <1>2, <1>7, <1>8 DEF DeployScriptOk
<1> QED BY <1>1, <1>6, <1>9, <1>10 DEF DeployInv

(* The other steps of the task. *)
LEMMA DeployBounds ==
  ASSUME DeployTypes
  PROVE  /\ MaxDeployments \in Nat /\ MaxCrashes \in Nat /\ MaxStrats \in Nat
         /\ made.deployments \in 0 .. MaxDeployments /\ made.strategies \in 0 .. MaxStrats
         /\ db.deployment \in 0 .. made.deployments /\ mine \in 0 .. made.deployments
         /\ db.usdoStrat.token \in 0 .. made.deployments
         /\ db.usdoStrat.strategy \in 0 .. made.strategies
         /\ Len(pool) \in Nat /\ budget.crashes \in 0 .. MaxCrashes
  BY RolloutAssumption DEF DeployTypes, Deploy!MarketsAssumption, Deploy!ChainAssumption

LEMMA DeployStarts ==
  ASSUME DeployInv, Deploy!task_1 \/ Deploy!loadDeployed \/ Deploy!completed
  PROVE  DeployInv'
<1>0. UNCHANGED Deploy!world /\ pc \notin {"wait1", "wait2"}
  BY DEF Deploy!task_1, Deploy!loadDeployed, Deploy!completed
<1>1. 0 \in 0 .. made.deployments /\ db.deployment \in 0 .. made.deployments
  BY DeployBounds DEF DeployInv
<1>2. CASE Deploy!Throw
  BY <1>0, <1>2, DeployThrows
<1>3. CASE pc' = "deploy" /\ mine' = 0 /\ calls' = <<>>
  <2>1. DeployScriptOk(chain, db, pool, pc', mine', calls', made)
    BY <1>3 DEF DeployScriptOk
  <2> QED BY <1>0, <1>1, <1>3, <2>1, DeployMoves DEF Deploy!Steps
<1>4. CASE /\ pc = "deploy" /\ db.deployment # 0
           /\ pc' = "setupUsdo" /\ mine' = db.deployment /\ UNCHANGED calls
  <2>1. calls = <<>>
    BY <1>4 DEF DeployInv, DeployScriptOk
  <2>2. DeployScriptOk(chain, db, pool, pc', mine', calls', made)
    BY <1>4, <2>1 DEF DeployScriptOk
  <2> QED BY <1>0, <1>1, <1>4, <2>2, DeployMoves DEF Deploy!Steps
<1> QED BY <1>2, <1>3, <1>4 DEF Deploy!task_1, Deploy!loadDeployed, Deploy!completed

LEMMA DeployDeploysNew ==
  ASSUME DeployInv, Deploy!tapiocaDeployTask
  PROVE  DeployInv'
<1>1. /\ pc = "deploy" /\ pool = <<>> /\ made.deployments < MaxDeployments
      /\ UNCHANGED <<chain, pool, db, globals, budget>>
  BY DEF Deploy!tapiocaDeployTask
<1>2. CASE Deploy!Throw /\ UNCHANGED made
  BY <1>1, <1>2, DeployThrows DEF Deploy!world
<1>3. CASE /\ made' = [made EXCEPT !.deployments = made.deployments + 1]
           /\ pc' = "save" /\ mine' = made.deployments + 1 /\ UNCHANGED calls
  <2>0. DeployTypes
    BY DEF DeployInv
  <2>1. /\ made'.deployments = made.deployments + 1 /\ made'.strategies = made.strategies
        /\ made' \in [deployments : 0 .. MaxDeployments, strategies : 0 .. MaxStrats]
    BY <1>1, <1>3, <2>0, DeployBounds DEF DeployTypes
  <2>2. 0 .. made.deployments \subseteq 0 .. made'.deployments
        /\ mine' \in 0 .. made'.deployments /\ db.deployment < mine'
    BY <1>3, <2>0, <2>1, DeployBounds
  <2>3. db' \in [deployment : 0 .. made'.deployments,
                 usdoStrat : [token : 0 .. made'.deployments, strategy : 0 .. made'.strategies]]
    BY <1>1, <2>0, <2>1, <2>2 DEF DeployTypes
  <2>4. /\ pc' \in Deploy!Steps /\ pc' \notin {"wait1", "wait2"} /\ pc \notin {"wait1", "wait2"}
    BY <1>1, <1>3 DEF Deploy!Steps
  <2>5. DeployTypes'
    BY <1>1, <2>0, <2>1, <2>2, <2>3, <2>4 DEF DeployTypes
  <2>6. calls' = <<>>
    BY <1>1, <1>3 DEF DeployInv, DeployScriptOk
  <2>7. DeployScriptOk(chain, db, pool, pc', mine', calls', made')
    BY <1>1, <1>3, <2>1, <2>2, <2>6 DEF DeployScriptOk
  <2> QED BY <1>1, <2>5, <2>7 DEF DeployInv
<1> QED BY <1>2, <1>3 DEF Deploy!tapiocaDeployTask

LEMMA DeploySaves ==
  ASSUME DeployInv, Deploy!save
  PROVE  DeployInv'
<1>1. /\ pc = "save" /\ db' = [db EXCEPT !.deployment = mine]
      /\ pc' = "setupUsdo" /\ calls' = calls \o <<>> /\ mine' = mine
      /\ UNCHANGED <<chain, pool, globals, made, budget>>
  BY DEF Deploy!save, Deploy!Goto
<1>2. mine = made.deployments /\ db.deployment < mine /\ pool = <<>> /\ calls = <<>>
  BY <1>1 DEF DeployInv, DeployScriptOk
<1>3. DeployTypes
  BY DEF DeployInv
<1>4. mine \in Deploy!Deployments /\ mine # 0 /\ db.deployment \in Nat /\ mine \in Nat
  BY <1>2, <1>3, DeployBounds DEF Deploy!Deployments
<1>5. /\ db'.deployment = mine /\ db'.usdoStrat = db.usdoStrat
      /\ db' \in [deployment : 0 .. made.deployments,
                  usdoStrat : [token : 0 .. made.deployments, strategy : 0 .. made.strategies]]
  BY <1>1, <1>3 DEF DeployTypes
<1>6. pc' \in Deploy!Steps /\ pc' \notin {"wait1", "wait2"} /\ pc \notin {"wait1", "wait2"}
  BY <1>1 DEF Deploy!Steps
<1>7. DeployTypes'
  BY <1>1, <1>3, <1>5, <1>6 DEF DeployTypes
<1>8. DeployFileOk(chain, db')
  <2>1. \A d \in Deploy!Deployments : d > mine => d > db.deployment
    BY <1>2, <1>4 DEF Deploy!Deployments
  <2>2. DeployUntouched(chain, mine)
    BY <1>2, <1>4 DEF DeployInv, DeployFileOk
  <2>3. ~DeployWired(chain, mine)
    <3>1. Deploy!NewPenrose.usdo = 0
      BY DEF Deploy!NewPenrose
    <3> QED BY <1>4, <2>2, <3>1 DEF DeployUntouched, DeployWired
  <2>4. DeployFileOk(chain, db)
    BY DEF DeployInv
  <2> QED BY <1>5, <2>1, <2>3, <2>4 DEF DeployFileOk, DeployUsdoId
<1>9. DeployPooled(chain, db', pool)
  BY <1>2 DEF DeployPooled
<1>10. DeployScriptOk(chain, db', pool, pc', mine', calls', made)
  <2>1. calls' = <<>>
    BY <1>1, <1>2
  <2> QED BY <1>1, <1>4, <1>5, <2>1 DEF DeployScriptOk
<1> QED BY <1>1, <1>7, <1>8, <1>9, <1>10 DEF DeployInv

LEMMA DeployAddsStrat ==
  ASSUME NEW c \in DeployChains, NEW d \in Deploy!Deployments, NEW n \in 1 .. MaxStrats, NEW x,
         x = [c EXCEPT !.assets = c.assets \cup {<<d, n>>}]
  PROVE  x \in DeployChains /\ DeployMild(c, x) /\ <<d, n>> \in x.assets
<1>1. <<d, n>> \in Deploy!Ids
  BY DEF Deploy!Ids, Deploy!UsdoIds
<1>2. /\ x \in DeployChains /\ x.usdo = c.usdo /\ x.penrose = c.penrose /\ x.market = c.market
      /\ x.seeded = c.seeded /\ x.assets = c.assets \cup {<<d, n>>}
  <2> DEFINE a == c.assets \cup {<<d, n>>}
  <2>1. a \in SUBSET Deploy!Ids
    BY <1>1, DeployChainParts
  <2>2. x = [c EXCEPT !.assets = a]
    OBVIOUS
  <2> HIDE DEF a
  <2>3. x \in DeployChains /\ x.usdo = c.usdo /\ x.penrose = c.penrose /\ x.market = c.market
        /\ x.seeded = c.seeded /\ x.assets = a
    BY <2>1, <2>2 DEF DeployChains
  <2> QED BY <2>3 DEF a
<1>3. ASSUME NEW t \in Deploy!YbTokens, NEW e PROVE <<t, e>> # <<d, n>>
  <2>1. t \in Deploy!Markets \cup {UsdcMock, OriginsToken}
    BY DEF Deploy!YbTokens, Deploy!Collateral
  <2>2. t # d
    BY <2>1, RolloutAssumption DEF Deploy!MarketsAssumption
  <2> QED BY <2>2
<1>4. \A t \in Deploy!YbTokens : \A e : <<t, e>> \in x.assets <=> <<t, e>> \in c.assets
  BY <1>2, <1>3
<1> QED BY <1>2, <1>4 DEF DeployMild

LEMMA DeployCreatesStrat ==
  ASSUME DeployInv, Deploy!createEmptyStratYbAsset
  PROVE  DeployInv' /\ DeployMild(chain, chain')
<1> DEFINE n == made.strategies + 1
<1>1. /\ pc = "setupUsdo" /\ ~Deploy!HasUsdoStrat /\ pool = <<>> /\ made.strategies < MaxStrats
      /\ made' = [made EXCEPT !.strategies = n]
      /\ chain' = [chain EXCEPT !.assets = chain.assets \cup {<<mine, n>>}]
      /\ pc' = "saveStrat" /\ calls' = calls \o <<>> /\ mine' = mine
      /\ UNCHANGED <<pool, db, globals, budget>>
  BY DEF Deploy!createEmptyStratYbAsset, Deploy!Goto
<1>2. DeployTypes
  BY DEF DeployInv
<1>3. /\ mine = db.deployment /\ mine \in Deploy!Deployments /\ mine # 0 /\ calls = <<>>
  BY <1>1, DeployRuns DEF DeployInv, DeployScriptOk
<1>4. n \in 1 .. MaxStrats
  BY <1>1, <1>2, DeployBounds
<1> HIDE DEF n
<1>5. chain' \in DeployChains /\ DeployMild(chain, chain') /\ <<mine, n>> \in chain'.assets
  BY <1>1, <1>2, <1>3, <1>4, DeployAddsStrat DEF DeployTypes
<1>6. /\ made' \in [deployments : 0 .. MaxDeployments, strategies : 0 .. MaxStrats]
      /\ made'.deployments = made.deployments /\ made'.strategies = n
      /\ 0 .. made.strategies \subseteq 0 .. n
  BY <1>1, <1>2, <1>4, DeployBounds DEF DeployTypes, n
<1>7. db' \in [deployment : 0 .. made'.deployments,
               usdoStrat : [token : 0 .. made'.deployments, strategy : 0 .. made'.strategies]]
  BY <1>1, <1>2, <1>6 DEF DeployTypes
<1>8. pc' \in Deploy!Steps /\ pc' \notin {"wait1", "wait2"} /\ pc \notin {"wait1", "wait2"}
  BY <1>1 DEF Deploy!Steps
<1>9. DeployTypes'
  BY <1>1, <1>2, <1>5, <1>6, <1>7, <1>8 DEF DeployTypes
<1>10. DeployFileOk(chain', db)
  <2>1. db.deployment \in 0 .. MaxDeployments /\ pool \in Seq(Seq(DeployAll))
    BY <1>2, DeployBounds DEF DeployTypes
  <2> QED BY <1>5, <2>1, DeployMildKeeps DEF DeployInv
<1>11. ~DeployWired(chain', mine)
  BY <1>1, <1>3, <1>10 DEF DeployFileOk, DeployHasStrat, Deploy!HasUsdoStrat
<1>12. DeployPooled(chain', db, pool)
  BY <1>1 DEF DeployPooled
<1>13. DeployScriptOk(chain', db, pool, pc', mine', calls', made')
  <2>1. calls' = <<>> /\ made'.strategies > 0
    BY <1>1, <1>3, <1>4, <1>6, <1>2, DeployBounds
  <2> QED BY <1>1, <1>3, <1>5, <1>6, <1>11, <2>1 DEF DeployScriptOk
<1> QED BY <1>1, <1>5, <1>9, <1>10, <1>12, <1>13 DEF DeployInv

LEMMA DeploySavesStrat ==
  ASSUME DeployInv, Deploy!saveStrat
  PROVE  DeployInv'
<1> DEFINE s == [token |-> mine, strategy |-> made.strategies]
<1>1. /\ pc = "saveStrat" /\ db' = [db EXCEPT !.usdoStrat = s]
      /\ pc' = "setupUsdo" /\ calls' = calls \o <<>> /\ mine' = mine
      /\ UNCHANGED <<chain, pool, globals, made, budget>>
  BY DEF Deploy!saveStrat, Deploy!Goto
<1>2. DeployTypes
  BY DEF DeployInv
<1>3. /\ mine = db.deployment /\ mine # 0 /\ pool = <<>> /\ calls = <<>>
      /\ <<mine, made.strategies>> \in chain.assets /\ ~DeployWired(chain, mine)
  BY <1>1, DeployRuns DEF DeployInv, DeployScriptOk
<1>4. /\ s \in [token : 0 .. made.deployments, strategy : 0 .. made.strategies]
      /\ s.token = mine /\ s.strategy = made.strategies
  BY <1>2, DeployBounds
<1> HIDE DEF s
<1>5. /\ db'.deployment = mine /\ db'.usdoStrat = s
      /\ db' \in [deployment : 0 .. made.deployments,
                  usdoStrat : [token : 0 .. made.deployments, strategy : 0 .. made.strategies]]
  BY <1>1, <1>2, <1>3, <1>4 DEF DeployTypes
<1>6. pc' \in Deploy!Steps /\ pc' \notin {"wait1", "wait2"} /\ pc \notin {"wait1", "wait2"}
  BY <1>1 DEF Deploy!Steps
<1>7. DeployTypes'
  BY <1>1, <1>2, <1>5, <1>6 DEF DeployTypes
<1>8. DeployFileOk(chain, db')
  <2>1. DeployFileOk(chain, db)
    BY DEF DeployInv
  <2> QED BY <1>3, <1>4, <1>5, <2>1 DEF DeployFileOk, DeployUsdoId
<1>9. DeployPooled(chain, db', pool)
  BY <1>3 DEF DeployPooled
<1>10. DeployScriptOk(chain, db', pool, pc', mine', calls', made)
  <2>1. calls' = <<>>
    BY <1>1, <1>3
  <2> QED BY <1>1, <1>3, <1>5, <2>1 DEF DeployScriptOk
<1> QED BY <1>1, <1>7, <1>8, <1>9, <1>10 DEF DeployInv

LEMMA DeployCrashes ==
  ASSUME DeployInv, Deploy!Crash
  PROVE  DeployInv'
<1>1. /\ budget.crashes > 0 /\ budget' = [budget EXCEPT !.crashes = budget.crashes - 1]
      /\ pc' = "idle" /\ calls' = <<>> /\ mine' = 0
      /\ UNCHANGED <<chain, pool, db, globals, made>>
  BY DEF Deploy!Crash, Deploy!Throw
<1>2. DeployTypes
  BY DEF DeployInv
<1>3. /\ budget' \in [crashes : 0 .. MaxCrashes, late : Nat, owner : Nat]
      /\ budget'.crashes = budget.crashes - 1
  <2> DEFINE n == budget.crashes - 1
  <2>1. n \in 0 .. MaxCrashes
    BY <1>1, <1>2, DeployBounds
  <2>2. budget' = [budget EXCEPT !.crashes = n]
    BY <1>1
  <2> HIDE DEF n
  <2>3. budget' \in [crashes : 0 .. MaxCrashes, late : Nat, owner : Nat] /\ budget'.crashes = n
    BY <1>2, <2>1, <2>2 DEF DeployTypes
  <2> QED BY <2>3 DEF n
<1>4. Len(pool) + budget'.crashes <= MaxCrashes + 0
  <2> DEFINE n == IF pc \in {"wait1", "wait2"} THEN 1 ELSE 0
  <2>1. Len(pool) + budget.crashes <= MaxCrashes + n
    BY <1>2 DEF DeployTypes
  <2>2. n \in 0 .. 1
    OBVIOUS
  <2> HIDE DEF n
  <2> DEFINE len == Len(pool)
             old == budget.crashes
             new == budget'.crashes
  <2>3. len \in Nat /\ old \in Nat /\ MaxCrashes \in Nat /\ new = old - 1
    BY <1>2, <1>3, DeployBounds
  <2>4. len + old <= MaxCrashes + n
    BY <2>1
  <2> HIDE DEF len, old, new
  <2>5. len + new <= MaxCrashes + 0
    BY <2>2, <2>3, <2>4
  <2> QED BY <2>5 DEF len, new
<1>5. pc' \in Deploy!Steps /\ pc' \notin {"wait1", "wait2"}
  BY <1>1 DEF Deploy!Steps
<1>6. mine' \in 0 .. made.deployments
  BY <1>1, <1>2, DeployBounds
<1>7. DeployTypes'
  BY <1>1, <1>2, <1>3, <1>4, <1>5, <1>6 DEF DeployTypes
<1>8. DeployScriptOk(chain, db, pool, pc', mine', calls', made)
  BY <1>1 DEF DeployScriptOk
<1> QED BY <1>1, <1>7, <1>8 DEF DeployInv

LEMMA DeployAddsProject ==
  ASSUME DeployInv, NEW p \in Deploy!Projects, Deploy!DeployProject(p)
  PROVE  DeployInv'
<1>1. /\ globals' = globals \cup {p}
      /\ UNCHANGED <<chain, pool, db, pc, mine, calls, made, budget>>
  BY DEF Deploy!DeployProject, Deploy!script
<1>2. DeployTypes'
  BY <1>1 DEF DeployInv, DeployTypes
<1> QED BY <1>1, <1>2 DEF DeployInv

(* A batch is mined. *)
DeployNext(c, x, d, u) ==
  /\ x \in DeployChains /\ c.assets \subseteq x.assets
  /\ DeployWired(x, d) /\ DeployGood(x, d) /\ x.penrose[d].usdoId = u
  /\ DeployClosed(x, d) => DeployClosed(c, d)
  /\ \A e \in Deploy!Deployments, m \in Deploy!Markets :
        c.market[e][m].ready => x.market[e][m] = c.market[e][m]
  /\ \A e \in Deploy!Deployments \ {d} :
        /\ DeployUntouched(x, e) <=> DeployUntouched(c, e)
        /\ DeployWired(x, e) <=> DeployWired(c, e)
        /\ DeployClosed(x, e) <=> DeployClosed(c, e)
        /\ DeployGood(x, e)
DeployNextOf(c, x, f, b) ==
  /\ DeployNext(c, x, f.deployment, DeployUsdoId(f))
  /\ DeployIsFirst(c, f, b) => (DeployClosed(c, f.deployment) => DeployClosed(x, f.deployment))
  /\ DeployIsSecond(c, f, b) => DeployWired(c, f.deployment) /\ DeployUp(x, f.deployment)

LEMMA DeployNextGrows ==
  ASSUME NEW c, NEW x, NEW d, \A e \in Deploy!Deployments \ {d} : DeployStays(c, x, e),
         \A m \in Deploy!Markets : c.market[d][m].ready => x.market[d][m] = c.market[d][m],
         \A e \in Deploy!Deployments : DeployGood(c, e)
  PROVE  /\ \A e \in Deploy!Deployments, m \in Deploy!Markets :
               c.market[e][m].ready => x.market[e][m] = c.market[e][m]
         /\ \A e \in Deploy!Deployments \ {d} :
               /\ DeployUntouched(x, e) <=> DeployUntouched(c, e)
               /\ DeployWired(x, e) <=> DeployWired(c, e)
               /\ DeployClosed(x, e) <=> DeployClosed(c, e)
               /\ DeployGood(x, e)
<1>1. ASSUME NEW e \in Deploy!Deployments \ {d}
      PROVE  /\ DeployUntouched(x, e) <=> DeployUntouched(c, e)
             /\ DeployWired(x, e) <=> DeployWired(c, e)
             /\ DeployClosed(x, e) <=> DeployClosed(c, e)
             /\ DeployGood(x, e) /\ x.market[e] = c.market[e]
  <2>1. DeployStays(c, x, e) /\ DeployGood(c, e)
    OBVIOUS
  <2>2. x.market[e] = c.market[e]
    BY <2>1 DEF DeployStays
  <2> QED BY <2>1, <2>2, DeployStaysGood
<1>2. ASSUME NEW e \in Deploy!Deployments, NEW m \in Deploy!Markets, c.market[e][m].ready
      PROVE  x.market[e][m] = c.market[e][m]
  BY <1>1, <1>2
<1> QED BY <1>1, <1>2

LEMMA DeployNextFirst ==
  ASSUME NEW f, f.deployment \in Deploy!Deployments, DeployUsdoId(f) \in Deploy!Ids,
         NEW c \in DeployChains, DeployFileOk(c, f), NEW b, DeployIsFirst(c, f, b), NEW late,
         DeployFold(c, b, late).ok, NEW x, x = DeployFold(c, b, late).chain
  PROVE  /\ DeployNext(c, x, f.deployment, DeployUsdoId(f))
         /\ DeployClosed(c, f.deployment) => DeployClosed(x, f.deployment)
         /\ DeployUp(c, f.deployment) => DeployUp(x, f.deployment)
<1> DEFINE d == f.deployment
           u == DeployUsdoId(f)
<1>1. /\ d \in Deploy!Deployments /\ u \in Deploy!Ids /\ DeployGood(c, d)
      /\ DeployWired(c, d) => c.penrose[d].usdoId = u
      /\ b \in Seq(DeployFirst(d, u)) /\ DeployFirstFull(c, b, d, u)
      /\ \A e \in Deploy!Deployments : DeployGood(c, e)
  <2>1. d # 0
    BY DEF Deploy!Deployments
  <2> QED BY <2>1 DEF DeployFileOk, DeployIsFirst
<1> HIDE DEF d, u
<1>2. /\ x \in DeployChains /\ DeployGood(x, d)
      /\ DeployWired(x, d) /\ x.penrose[d].usdoId = u
      /\ DeployClosed(x, d) <=> DeployClosed(c, d)
      /\ DeployUp(c, d) => DeployUp(x, d)
      /\ c.assets \subseteq x.assets /\ x.market = c.market
      /\ \A e \in Deploy!Deployments \ {d} : DeployStays(c, x, e)
  BY <1>1, DeployMinesFirst
<1>3. \A m \in Deploy!Markets : c.market[d][m].ready => x.market[d][m] = c.market[d][m]
  BY <1>2
<1>4. DeployNext(c, x, d, u)
  <2>1. /\ \A e \in Deploy!Deployments, m \in Deploy!Markets :
              c.market[e][m].ready => x.market[e][m] = c.market[e][m]
        /\ \A e \in Deploy!Deployments \ {d} :
              /\ DeployUntouched(x, e) <=> DeployUntouched(c, e)
              /\ DeployWired(x, e) <=> DeployWired(c, e)
              /\ DeployClosed(x, e) <=> DeployClosed(c, e)
              /\ DeployGood(x, e)
    <3> USE <1>1, <1>2, <1>3
    <3>1. \A e \in Deploy!Deployments \ {d} : DeployStays(c, x, e)
      OBVIOUS
    <3>2. \A m \in Deploy!Markets : c.market[d][m].ready => x.market[d][m] = c.market[d][m]
      OBVIOUS
    <3>3. \A e \in Deploy!Deployments : DeployGood(c, e)
      OBVIOUS
    <3> QED BY ONLY <3>1, <3>2, <3>3, DeployNextGrows
  <2> QED BY <1>1, <1>2, <2>1 DEF DeployNext
<1> QED BY <1>2, <1>4 DEF d, u

LEMMA DeployNextSecond ==
  ASSUME NEW f, f.deployment \in Deploy!Deployments, DeployUsdoId(f) \in Deploy!Ids,
         DeployUsdoId(f) \in {f.deployment} \X (1 .. MaxStrats),
         NEW c \in DeployChains, DeployFileOk(c, f), NEW b, DeployIsSecond(c, f, b), NEW late,
         DeployFold(c, b, late).ok, NEW x, x = DeployFold(c, b, late).chain
  PROVE  /\ DeployNext(c, x, f.deployment, DeployUsdoId(f))
         /\ DeployWired(c, f.deployment) /\ DeployUp(x, f.deployment)
<1> DEFINE d == f.deployment
           u == DeployUsdoId(f)
<1>1. /\ d \in Deploy!Deployments /\ u \in Deploy!Ids /\ u \in {d} \X (1 .. MaxStrats)
      /\ DeployGood(c, d) /\ c.penrose[d].usdoId = u
      /\ DeploySecondBatchOf(c, b, d, u) /\ DeployWired(c, d)
      /\ \A e \in Deploy!Deployments : DeployGood(c, e)
  <2>1. d # 0
    BY DEF Deploy!Deployments
  <2>2. DeploySecondBatchOf(c, b, d, u) /\ DeployWired(c, d)
    BY DEF DeployIsSecond, DeploySecondBatchOf
  <2> QED BY <2>1, <2>2 DEF DeployFileOk
<1> HIDE DEF d, u
<1>2. /\ x \in DeployChains /\ DeployGood(x, d)
      /\ DeployWired(x, d) /\ x.penrose[d].usdoId = u /\ DeployUp(x, d)
      /\ DeployClosed(x, d) => DeployClosed(c, d)
      /\ c.assets \subseteq x.assets
      /\ \A m \in Deploy!Markets : c.market[d][m].ready => x.market[d][m] = c.market[d][m]
      /\ \A e \in Deploy!Deployments \ {d} : DeployStays(c, x, e)
  BY <1>1, DeployMinesSecond
<1>3. DeployNext(c, x, d, u)
  <2>1. /\ \A e \in Deploy!Deployments, m \in Deploy!Markets :
              c.market[e][m].ready => x.market[e][m] = c.market[e][m]
        /\ \A e \in Deploy!Deployments \ {d} :
              /\ DeployUntouched(x, e) <=> DeployUntouched(c, e)
              /\ DeployWired(x, e) <=> DeployWired(c, e)
              /\ DeployClosed(x, e) <=> DeployClosed(c, e)
              /\ DeployGood(x, e)
    <3> USE <1>1, <1>2
    <3>1. \A e \in Deploy!Deployments \ {d} : DeployStays(c, x, e)
      OBVIOUS
    <3>2. \A m \in Deploy!Markets : c.market[d][m].ready => x.market[d][m] = c.market[d][m]
      OBVIOUS
    <3>3. \A e \in Deploy!Deployments : DeployGood(c, e)
      OBVIOUS
    <3> QED BY ONLY <3>1, <3>2, <3>3, DeployNextGrows
  <2> QED BY <1>1, <1>2, <2>1 DEF DeployNext
<1> QED BY <1>1, <1>2, <1>3 DEF d, u

(* What it takes from the funds says nothing about a deployment. *)
LEMMA DeployNextSame ==
  ASSUME NEW c, NEW x, NEW d \in Deploy!Deployments, NEW u, DeployNext(c, x, d, u),
         NEW y \in DeployChains, DeploySame(x, y)
  PROVE  /\ DeployNext(c, y, d, u)
         /\ DeployUp(x, d) => DeployUp(y, d)
         /\ DeployClosed(x, d) => DeployClosed(y, d)
<1>1. DeployMild(x, y)
  BY DeploySameIsMild
<1>2. \A e \in Deploy!Deployments :
         /\ DeployUntouched(y, e) <=> DeployUntouched(x, e)
         /\ DeployWired(y, e) <=> DeployWired(x, e)
         /\ DeployClosed(y, e) <=> DeployClosed(x, e)
         /\ DeployUp(x, e) => DeployUp(y, e)
         /\ DeployGood(x, e) => DeployGood(y, e)
  BY <1>1, DeployMildGood
<1>3. y.assets = x.assets /\ y.market = x.market /\ y.penrose = x.penrose
  BY DEF DeploySame
<1>4. DeployNext(c, y, d, u)
  BY <1>2, <1>3 DEF DeployNext
<1> QED BY <1>2, <1>4

(* A batch that went through, or reverted. *)
LEMMA DeployMinedChain ==
  ASSUME DeployInv, pool # <<>>, NEW late, NEW run,
         run = Deploy!executeMulticall(chain, pool[1], late)
  PROVE  \/ ~run.ok /\ run.chain = chain
         \/ run.ok /\ DeployNextOf(chain, run.chain, db, pool[1])
<1> DEFINE b == pool[1]
           F == DeployFold(chain, b, late)
           x == F.chain
           d == db.deployment
           u == DeployUsdoId(db)
<1>1. /\ ~F.ok => run.chain = chain /\ ~run.ok
      /\ F.ok /\ x \in DeployChains => run.ok /\ run.chain \in DeployChains /\ DeploySame(x, run.chain)
  BY DeployExecute
<1>2. /\ d \in Deploy!Deployments /\ u \in {d} \X (1 .. MaxStrats) /\ u \in Deploy!Ids
      /\ chain \in DeployChains /\ DeployFileOk(chain, db)
  <2>1. DeployHasStrat(db) /\ DeployTypes
    BY DEF DeployInv, DeployPooled
  <2> QED BY <2>1, DeployStratIds DEF DeployInv, DeployTypes
<1>3. DeployIsFirst(chain, db, b) \/ DeployIsSecond(chain, db, b)
  <2>1. 1 \in 1 .. Len(pool)
    <3> DEFINE L == Seq(DeployAll)
    <3>1. pool \in Seq(L)
      BY DEF DeployInv, DeployTypes
    <3> HIDE DEF L
    <3> QED BY <3>1
  <2> QED BY <2>1 DEF DeployInv, DeployPooled
<1>4. CASE ~F.ok
  BY <1>1, <1>4
<1>5. CASE F.ok
  <2>1. /\ DeployNext(chain, x, d, u)
        /\ DeployIsFirst(chain, db, b) => (DeployClosed(chain, d) => DeployClosed(x, d))
        /\ DeployIsSecond(chain, db, b) => DeployWired(chain, d) /\ DeployUp(x, d)
    <3>1. ASSUME DeployIsFirst(chain, db, b)
          PROVE  DeployNext(chain, x, d, u) /\ (DeployClosed(chain, d) => DeployClosed(x, d))
      BY <1>2, <1>5, <3>1, DeployNextFirst
    <3>2. ASSUME DeployIsSecond(chain, db, b)
          PROVE  DeployNext(chain, x, d, u) /\ DeployWired(chain, d) /\ DeployUp(x, d)
      BY <1>2, <1>5, <3>2, DeployNextSecond
    <3> QED BY <1>3, <3>1, <3>2
  <2>2. run.ok /\ run.chain \in DeployChains /\ DeploySame(x, run.chain)
    BY <1>1, <1>5, <2>1 DEF DeployNext
  <2> HIDE DEF x, b, d, u
  <2>3. /\ DeployNext(chain, run.chain, d, u)
        /\ DeployUp(x, d) => DeployUp(run.chain, d)
        /\ DeployClosed(x, d) => DeployClosed(run.chain, d)
    BY <1>2, <2>1, <2>2, DeployNextSame
  <2>4. DeployNextOf(chain, run.chain, db, b)
    BY <2>1, <2>3 DEF DeployNextOf, d, u
  <2> QED BY <2>2, <2>4 DEF b
<1> QED BY <1>4, <1>5

(* After it the batches and scripts that are left still have what they need. *)
LEMMA DeployNextKeeps ==
  ASSUME NEW c, NEW x, NEW f, f.deployment \in Deploy!Deployments,
         DeployNext(c, x, f.deployment, DeployUsdoId(f)), DeployHasStrat(f), DeployFileOk(c, f)
  PROVE  /\ DeployFileOk(x, f)
         /\ \A b : DeployIsFirst(c, f, b) => DeployIsFirst(x, f, b)
         /\ \A s, F : DeployPart(c, f, s, F) => DeployPart(x, f, s, F)
<1> DEFINE d == f.deployment
           u == DeployUsdoId(f)
<1>1. DeployWired(x, d) /\ x.penrose[d].usdoId = u /\ c.assets \subseteq x.assets
      /\ DeployGood(x, d)
  BY DEF DeployNext
<1>2. DeployFileOk(x, f)
  <2>1. ASSUME NEW e \in Deploy!Deployments, e > d PROVE DeployUntouched(x, e) /\ DeployClosed(x, e)
    <3>1. e # d
      BY <2>1 DEF Deploy!Deployments
    <3>2. DeployUntouched(c, e) /\ DeployClosed(c, e)
      BY <2>1 DEF DeployFileOk
    <3> QED BY <3>1, <3>2 DEF DeployNext
  <2>2. \A e \in Deploy!Deployments : DeployGood(x, e)
    BY <1>1 DEF DeployNext
  <2>3. f.usdoStrat.strategy # 0 => u \in x.assets
    BY <1>1 DEF DeployFileOk
  <2> QED BY <1>1, <2>1, <2>2, <2>3 DEF DeployFileOk
<1>3. ASSUME NEW b, DeployIsFirst(c, f, b) PROVE DeployIsFirst(x, f, b)
  <2>1. DeployFirstFull(x, b, d, u)
    BY <1>1, DeployWiredIsFull
  <2> QED BY <1>3, <2>1 DEF DeployIsFirst
<1>4. ASSUME NEW s, NEW F, DeployPart(c, f, s, F) PROVE DeployPart(x, f, s, F)
  <2>1. DeployFirstFull(x, s, d, u)
    BY <1>1, DeployWiredIsFull
  <2> QED BY <1>4, <2>1 DEF DeployPart, DeployFirstFull
<1> QED BY <1>2, <1>3, <1>4

LEMMA DeployTail ==
  ASSUME NEW L, NEW q \in Seq(L), q # <<>>
  PROVE  /\ Tail(q) \in Seq(L) /\ Len(Tail(q)) = Len(q) - 1 /\ Head(q) = q[1] /\ Len(q) \in Nat
         /\ Len(q) > 0 /\ \A i \in 1 .. Len(Tail(q)) : Tail(q)[i] = q[i + 1] /\ i + 1 \in 1 .. Len(q)
         /\ Len(q) = 1 => Tail(q) = <<>>
<1>1. Tail(q) \in Seq(L) /\ Len(Tail(q)) = Len(q) - 1 /\ Head(q) = q[1] /\ Len(q) \in Nat
  OBVIOUS
<1>2. Len(q) > 0
  OBVIOUS
<1>3. ASSUME NEW i \in 1 .. Len(Tail(q))
      PROVE  Tail(q)[i] = q[i + 1] /\ i + 1 \in 1 .. Len(q)
  BY <1>1
<1>4. Len(q) = 1 => Tail(q) = <<>>
  <2> DEFINE r == Tail(q)
  <2>1. r \in Seq(L) /\ (Len(q) = 1 => Len(r) = 0)
    BY <1>1
  <2> HIDE DEF r
  <2>2. Len(q) = 1 => r = <<>>
    BY <2>1
  <2> QED BY <2>2 DEF r
<1> QED BY <1>1, <1>2, <1>3, <1>4

LEMMA DeployMinedTypes ==
  ASSUME DeployInv, NEW late \in BOOLEAN, Deploy!Mined(late), chain' \in DeployChains,
         mine' = mine \/ mine' = 0, pc' \in Deploy!Steps,
         \/ pc' = pc
         \/ Len(pool) = 1
  PROVE  DeployTypes'
<1>1. /\ pool # <<>> /\ late => budget.late > 0
      /\ pool' = Tail(pool)
      /\ budget' = [budget EXCEPT !.late = IF late THEN @ - 1 ELSE @]
      /\ UNCHANGED <<db, globals, made>>
  BY DEF Deploy!Mined
<1>2. DeployTypes
  BY DEF DeployInv
<1>3. budget' \in [crashes : 0 .. MaxCrashes, late : Nat, owner : Nat]
      /\ budget'.crashes = budget.crashes
  <2> DEFINE n == IF late THEN budget.late - 1 ELSE budget.late
  <2>0. budget.late \in Nat /\ (late => budget.late > 0)
    BY <1>2 DEF DeployTypes, Deploy!Mined
  <2>1. n \in Nat
    BY <2>0
  <2>2. budget' = [budget EXCEPT !.late = n]
    BY <1>1
  <2> HIDE DEF n
  <2> QED BY <1>2, <2>1, <2>2 DEF DeployTypes
<1>4. pool' \in Seq(Seq(DeployAll)) /\ Len(pool') = Len(pool) - 1 /\ Len(pool) \in Nat
  <2> DEFINE L == Seq(DeployAll)
  <2>1. pool \in Seq(L) /\ pool # <<>>
    BY <1>1, <1>2 DEF DeployTypes, Deploy!Mined
  <2> HIDE DEF L
  <2>2. pool' \in Seq(L) /\ Len(pool') = Len(pool) - 1 /\ Len(pool) \in Nat
    BY <1>1, <2>1, DeployTail
  <2> QED BY <2>2 DEF L
<1>5. Len(pool') + budget'.crashes <= MaxCrashes + (IF pc' \in {"wait1", "wait2"} THEN 1 ELSE 0)
  <2> DEFINE n == IF pc \in {"wait1", "wait2"} THEN 1 ELSE 0
             o == IF pc' \in {"wait1", "wait2"} THEN 1 ELSE 0
             len == Len(pool)
             new == Len(pool')
             k == budget.crashes
  <2>1. len + k <= MaxCrashes + n
    BY <1>2 DEF DeployTypes
  <2>2. (o = n \/ len = 1) /\ n \in 0 .. 1 /\ o \in 0 .. 1
    OBVIOUS
  <2>3. /\ len \in Nat /\ new = len - 1 /\ k \in 0 .. MaxCrashes /\ MaxCrashes \in Nat
        /\ budget'.crashes = k
    BY <1>2, <1>3, <1>4, DeployBounds
  <2> HIDE DEF n, o, len, new, k
  <2>4. new + k <= MaxCrashes + o
    BY <2>1, <2>2, <2>3
  <2> QED BY <2>3, <2>4 DEF new, o
<1>6. mine' \in 0 .. made.deployments
  BY <1>2, DeployBounds
<1> QED BY <1>1, <1>2, <1>3, <1>4, <1>5, <1>6 DEF DeployTypes

LEMMA DeployMines ==
  ASSUME DeployInv, NEW late \in BOOLEAN, Deploy!Mined(late)
  PROVE  /\ DeployInv'
         /\ \/ chain' = chain
            \/ DeployHasStrat(db) /\ DeployNextOf(chain, chain', db, pool[1])
<1> DEFINE run == Deploy!executeMulticall(chain, pool[1], late)
<1>1. /\ pool # <<>> /\ pool' = Tail(pool) /\ UNCHANGED <<db, globals, made>>
  BY DEF Deploy!Mined
<1>2. pool \in Seq(Seq(DeployAll)) /\ DeployTypes /\ chain \in DeployChains
  BY DEF DeployInv, DeployTypes
<1>3. /\ Len(pool') = Len(pool) - 1 /\ Head(pool) = pool[1] /\ Len(pool) \in Nat /\ Len(pool) > 0
      /\ \A i \in 1 .. Len(pool') : pool'[i] = pool[i + 1] /\ i + 1 \in 1 .. Len(pool)
      /\ Len(pool) = 1 => pool' = <<>>
  <2> DEFINE L == Seq(DeployAll)
  <2>1. pool \in Seq(L) /\ pool # <<>>
    BY <1>1, <1>2
  <2> HIDE DEF L
  <2> QED BY <1>1, <2>1, DeployTail
<1>4. chain' = run.chain /\ Deploy!Resume(run.ok)
  BY <1>3 DEF Deploy!Mined
<1>5. \/ ~run.ok /\ run.chain = chain
      \/ run.ok /\ DeployNextOf(chain, run.chain, db, pool[1])
  BY <1>1, DeployMinedChain
<1> DEFINE ok == run.ok
<1>6. (~ok /\ chain' = chain) \/ (ok /\ DeployNextOf(chain, chain', db, pool[1]))
  BY <1>4, <1>5
<1>7. Deploy!Resume(ok)
  BY <1>4
<1> HIDE DEF run, ok
<1>8. /\ DeployHasStrat(db) /\ db.deployment \in Deploy!Deployments
      /\ DeployFileOk(chain, db) /\ DeployPooled(chain, db, pool)
      /\ DeployScriptOk(chain, db, pool, pc, mine, calls, made)
  <2>1. DeployHasStrat(db) /\ DeployFileOk(chain, db) /\ DeployPooled(chain, db, pool)
        /\ DeployScriptOk(chain, db, pool, pc, mine, calls, made)
    BY <1>1 DEF DeployInv, DeployPooled
  <2> QED BY <1>2, <2>1, DeployStratIds
<1>9. /\ chain' \in DeployChains /\ DeployFileOk(chain', db)
      /\ \A b : DeployIsFirst(chain, db, b) => DeployIsFirst(chain', db, b)
      /\ \A s, F : DeployPart(chain, db, s, F) => DeployPart(chain', db, s, F)
  <2>1. CASE chain' = chain
    BY <1>2, <1>8, <2>1
  <2>2. CASE DeployNextOf(chain, chain', db, pool[1])
    <3>1. DeployNext(chain, chain', db.deployment, DeployUsdoId(db))
      BY <2>2 DEF DeployNextOf
    <3>2. chain' \in DeployChains
      BY <3>1 DEF DeployNext
    <3> QED BY <1>8, <3>1, <3>2, DeployNextKeeps
  <2> QED BY <1>6, <2>1, <2>2
<1>10. DeployPooled(chain', db, pool')
  <2>1. ASSUME NEW i \in 1 .. Len(pool') PROVE DeployIsFirst(chain', db, pool'[i])
    <3>1. pool'[i] = pool[i + 1] /\ i + 1 \in 1 .. Len(pool) /\ i + 1 # 1
      BY <1>3
    <3>2. DeployIsFirst(chain, db, pool[i + 1])
      BY <1>8, <3>1 DEF DeployPooled
    <3> QED BY <1>9, <3>1, <3>2
  <2> QED BY <1>8, <2>1 DEF DeployPooled
<1>11. CASE ~Deploy!Awaited
  <2>1. pc' = pc /\ mine' = mine /\ calls' = calls
    BY <1>7, <1>11 DEF Deploy!Resume, Deploy!script
  <2>2. DeployTypes'
    BY <1>2, <1>9, <2>1, DeployMinedTypes DEF DeployTypes
  <2>3. pc = "wait1" => pool' # <<>> /\ DeployIsFirst(chain', db, pool'[Len(pool')])
    <3> SUFFICES ASSUME pc = "wait1"
                 PROVE  pool' # <<>> /\ DeployIsFirst(chain', db, pool'[Len(pool')])
      OBVIOUS
    <3>1. Len(pool) # 1
      BY <1>11 DEF Deploy!Awaited
    <3>2. Len(pool') > 0 /\ Len(pool') \in 1 .. Len(pool') /\ Len(pool') + 1 = Len(pool)
      BY <1>3, <3>1
    <3>3. pool'[Len(pool')] = pool[Len(pool)]
      BY <1>3, <3>2
    <3>4. DeployIsFirst(chain, db, pool[Len(pool)])
      BY <1>8 DEF DeployScriptOk
    <3>5. pool' # <<>>
      BY <3>2
    <3> QED BY <1>9, <3>3, <3>4, <3>5
  <2>4. pc # "wait2"
    BY <1>8, <1>11 DEF Deploy!Awaited, DeployScriptOk
  <2>5. DeployScriptOk(chain', db, pool', pc, mine, calls, made)
    BY <1>1, <1>8, <1>9, <2>3, <2>4 DEF DeployScriptOk, DeployMid
  <2> QED BY <1>1, <1>6, <1>8, <1>9, <1>10, <2>1, <2>2, <2>5 DEF DeployInv
<1>12. CASE Deploy!Awaited
  <2>1. pc \in {"wait1", "wait2"} /\ Len(pool) = 1 /\ pool' = <<>>
    BY <1>3, <1>12 DEF Deploy!Awaited
  <2>2. mine = db.deployment /\ mine # 0
    BY <1>8, <2>1 DEF DeployScriptOk
  <2>3. CASE ~ok
    <3>1. pc' = "idle" /\ calls' = <<>> /\ mine' = 0
      BY <1>7, <1>12, <2>3 DEF Deploy!Resume, Deploy!Throw
    <3>2. DeployTypes'
      BY <1>9, <2>1, <3>1, DeployMinedTypes DEF Deploy!Steps
    <3>3. DeployScriptOk(chain', db, pool', pc', mine', calls', made)
      BY <3>1 DEF DeployScriptOk
    <3> QED BY <1>1, <1>6, <1>8, <1>9, <1>10, <3>2, <3>3 DEF DeployInv
  <2>4. CASE ok /\ pc = "wait1"
    <3>1. pc' = "setupMain" /\ calls' = calls \o <<>> /\ mine' = mine
      BY <1>7, <1>12, <2>4 DEF Deploy!Resume, Deploy!Goto
    <3>2. calls' = <<>>
      BY <1>8, <2>4, <3>1 DEF DeployScriptOk
    <3>3. DeployTypes'
      BY <1>9, <2>1, <3>1, DeployMinedTypes DEF Deploy!Steps
    <3>4. DeployWired(chain', mine) /\ (DeployUp(chain', mine) \/ DeployClosed(chain', mine))
      BY <1>6, <2>2, <2>4 DEF DeployNextOf, DeployNext, DeployGood
    <3>5. DeployMid(chain', db, pool', calls', calls' = <<>>)
      BY <2>1, <2>2, <3>2, <3>4 DEF DeployMid
    <3>6. DeployScriptOk(chain', db, pool', pc', mine', calls', made)
      BY <2>2, <3>1, <3>2, <3>5 DEF DeployScriptOk
    <3> QED BY <1>1, <1>6, <1>8, <1>9, <1>10, <3>3, <3>6 DEF DeployInv
  <2>5. CASE ok /\ pc = "wait2"
    <3>1. pc' = "done" /\ calls' = calls /\ mine' = mine
      BY <1>7, <1>12, <2>5 DEF Deploy!Resume
    <3>2. calls' = <<>> /\ DeployIsSecond(chain, db, pool[1])
      BY <1>8, <2>5, <3>1 DEF DeployScriptOk
    <3>3. DeployTypes'
      BY <1>9, <2>1, <3>1, DeployMinedTypes DEF Deploy!Steps
    <3>4. DeployWired(chain', mine) /\ DeployUp(chain', mine)
      BY <1>6, <2>2, <2>5, <3>2 DEF DeployNextOf, DeployNext
    <3>5. DeployScriptOk(chain', db, pool', pc', mine', calls', made)
      BY <2>1, <2>2, <3>1, <3>2, <3>4 DEF DeployScriptOk
    <3> QED BY <1>1, <1>6, <1>8, <1>9, <1>10, <3>3, <3>5 DEF DeployInv
  <2> QED BY <2>1, <2>3, <2>4, <2>5
<1> QED BY <1>11, <1>12

(* Every step of the first script, and what it does to the deployments. *)
DeployStep ==
  \/ /\ DeployMild(chain, chain')
     /\ chain'.market = chain.market \/ budget'.owner < budget.owner
     /\ db'.deployment = db.deployment /\ made'.deployments = made.deployments
  \/ /\ chain' = chain /\ db' = db /\ made'.deployments = made.deployments + 1
     /\ made.deployments < MaxDeployments
  \/ Deploy!save
  \/ /\ pool # <<>> /\ DeployHasStrat(db) /\ DeployNextOf(chain, chain', db, pool[1])
     /\ db' = db /\ made' = made

LEMMA DeploySameStep ==
  ASSUME chain' = chain, db'.deployment = db.deployment, made'.deployments = made.deployments
  PROVE  DeployStep
<1>1. DeploySame(chain, chain')
  BY DEF DeploySame
<1> QED BY <1>1, DeploySameIsMild DEF DeployStep

LEMMA DeployScriptSteps ==
  ASSUME DeployInv, Deploy!Script
  PROVE  DeployInv' /\ DeployStep
<1>1. CASE Deploy!save
  BY <1>1, DeploySaves DEF DeployStep
<1>2. CASE Deploy!createEmptyStratYbAsset
  <2>1. /\ chain'.market = chain.market /\ db' = db /\ made'.deployments = made.deployments
    <3> DEFINE a == chain.assets \cup {<<mine, made.strategies + 1>>}
               n == made.strategies + 1
    <3>1. /\ chain' = [chain EXCEPT !.assets = a] /\ db' = db
          /\ made' = [made EXCEPT !.strategies = n]
      BY <1>2 DEF Deploy!createEmptyStratYbAsset
    <3>2. chain \in DeployChains
          /\ made \in [deployments : 0 .. MaxDeployments, strategies : 0 .. MaxStrats]
      BY DEF DeployInv, DeployTypes
    <3> HIDE DEF a, n
    <3> QED BY <3>1, <3>2 DEF DeployChains
  <2> QED BY <1>2, <2>1, DeployCreatesStrat DEF DeployStep
<1>3. CASE Deploy!saveStrat
  <2>1. chain' = chain /\ made' = made /\ db' = [db EXCEPT !.usdoStrat = db'.usdoStrat]
    <3> DEFINE s == [token |-> mine, strategy |-> made.strategies]
    <3>1. chain' = chain /\ made' = made /\ db' = [db EXCEPT !.usdoStrat = s]
      BY <1>3 DEF Deploy!saveStrat
    <3>2. db \in [deployment : 0 .. made.deployments,
                  usdoStrat : [token : 0 .. made.deployments, strategy : 0 .. made.strategies]]
      BY DEF DeployInv, DeployTypes
    <3> HIDE DEF s
    <3> QED BY <3>1, <3>2
  <2>2. db'.deployment = db.deployment
    <3>1. db \in [deployment : 0 .. made.deployments,
                  usdoStrat : [token : 0 .. made.deployments, strategy : 0 .. made.strategies]]
      BY DEF DeployInv, DeployTypes
    <3> QED BY <2>1, <3>1
  <2> QED BY <1>3, <2>1, <2>2, DeploySavesStrat, DeploySameStep
<1>4. CASE Deploy!Build
  <2>1. UNCHANGED Deploy!world
    BY <1>4 DEF Deploy!Build, Deploy!setupUsdoInPenrose, Deploy!setupRegisterMCInPenrose,
         Deploy!setupRegisterBBAndSGLMarketsInPenrose, Deploy!setupRegisterBigBangEthMarket,
         Deploy!setupUsdoFlashloanHelperInUsdo, Deploy!setupCreateYBAssets,
         Deploy!setupPenroseMainAssets, Deploy!setupDepositYbAssets,
         Deploy!setupInitAndRegisterMarket, Deploy!setupRegisterBBAsMinterBurnerInUsdo
  <2>2. chain' = chain /\ db' = db /\ made' = made
    BY <2>1 DEF Deploy!world
  <2>3. DeployStep
    BY <2>2, DeploySameStep
  <2>4. DeployInv'
    BY <1>4, DeployBuildsUsdo, DeployBuildsMasters, DeployBuildsMarkets, DeployBuildsEthMarket,
       DeployBuildsFlashHelper, DeployBuildsYbAssets, DeployBuildsMain, DeployBuildsDeposits,
       DeployBuildsInit, DeployBuildsMinters DEF Deploy!Build
  <2> QED BY <2>3, <2>4
<1>5. CASE Deploy!setupPostLbp1("send1", "wait1") \/ Deploy!setupPostLbp1("send2", "wait2")
  <2>1. chain' = chain /\ db' = db /\ made' = made
    BY <1>5 DEF Deploy!setupPostLbp1
  <2> QED BY <1>5, <2>1, DeploySendsFirst, DeploySendsSecond, DeploySameStep
<1> QED BY <1>1, <1>2, <1>3, <1>4, <1>5 DEF Deploy!Script

LEMMA DeploySteps ==
  ASSUME DeployInv, Deploy!Next
  PROVE  DeployInv' /\ DeployStep
<1>1. CASE Deploy!task_1 \/ Deploy!loadDeployed \/ Deploy!completed
  <2>1. chain' = chain /\ db' = db /\ made' = made
    BY <1>1 DEF Deploy!task_1, Deploy!loadDeployed, Deploy!completed, Deploy!world
  <2> QED BY <1>1, <2>1, DeployStarts, DeploySameStep
<1>2. CASE Deploy!tapiocaDeployTask
  <2>1. chain' = chain /\ db' = db /\ made.deployments < MaxDeployments
    BY <1>2 DEF Deploy!tapiocaDeployTask
  <2>2. CASE made' = made
    BY <1>2, <2>1, <2>2, DeployDeploysNew, DeploySameStep
  <2>3. CASE made' = [made EXCEPT !.deployments = made.deployments + 1]
    <3> DEFINE n == made.deployments + 1
    <3>1. made \in [deployments : 0 .. MaxDeployments, strategies : 0 .. MaxStrats]
          /\ made' = [made EXCEPT !.deployments = n]
      BY <2>3 DEF DeployInv, DeployTypes
    <3> HIDE DEF n
    <3>2. made'.deployments = n
      BY <3>1
    <3> QED BY <1>2, <2>1, <3>2, DeployDeploysNew DEF DeployStep, n
  <2> QED BY <1>2, <2>2, <2>3 DEF Deploy!tapiocaDeployTask
<1>3. CASE Deploy!Script
  BY <1>3, DeployScriptSteps
<1>4. CASE Deploy!Crash
  <2>1. chain' = chain /\ db' = db /\ made' = made
    BY <1>4 DEF Deploy!Crash
  <2> QED BY <1>4, <2>1, DeployCrashes, DeploySameStep
<1>5. ASSUME NEW late \in BOOLEAN, Deploy!Mined(late) PROVE DeployInv' /\ DeployStep
  <2>1. db' = db /\ made' = made /\ pool # <<>>
    BY <1>5 DEF Deploy!Mined
  <2>2. CASE chain' = chain
    BY <1>5, <2>1, <2>2, DeployMines, DeploySameStep
  <2>3. CASE DeployHasStrat(db) /\ DeployNextOf(chain, chain', db, pool[1])
    BY <1>5, <2>1, <2>3, DeployMines DEF DeployStep
  <2> QED BY <1>5, <2>2, <2>3, DeployMines
<1>6. ASSUME NEW p \in Deploy!Projects, Deploy!DeployProject(p) PROVE DeployInv' /\ DeployStep
  <2>1. chain' = chain /\ db' = db /\ made' = made
    BY <1>6 DEF Deploy!DeployProject
  <2> QED BY <1>6, <2>1, DeployAddsProject, DeploySameStep
<1>7. ASSUME NEW f \in 1 .. 2, Deploy!Fund(f) PROVE DeployInv' /\ DeployStep
  <2>1. db' = db /\ made' = made /\ chain' = [chain EXCEPT !.funds = f]
    BY <1>7 DEF Deploy!Fund
  <2>2. chain'.market = chain.market
    BY <2>1 DEF DeployInv, DeployTypes, DeployChains
  <2> QED BY <1>7, <2>1, <2>2, DeployFunds DEF DeployStep
<1>8. ASSUME NEW m \in BBs, NEW cap \in Caps, Deploy!setMarketCap(m, cap)
      PROVE  DeployInv' /\ DeployStep
  <2>1. db' = db /\ made' = made
    BY <1>8 DEF Deploy!setMarketCap, Deploy!OwnerTask
  <2> QED BY <1>8, <2>1, DeploySetsMarketCap DEF DeployStep
<1>9. ASSUME NEW a \in Deploy!Operators, NEW b \in BOOLEAN, Deploy!setMinterStatus(a, b)
      PROVE  DeployInv' /\ DeployStep
  <2>1. db' = db /\ made' = made
    BY <1>9 DEF Deploy!setMinterStatus, Deploy!OwnerTask
  <2> QED BY <1>9, <2>1, DeploySetsMinterStatus DEF DeployStep
<1> QED BY <1>1, <1>2, <1>3, <1>4, <1>5, <1>6, <1>7, <1>8, <1>9 DEF Deploy!Next

LEMMA DeployRests ==
  ASSUME DeployInv, UNCHANGED deployVars
  PROVE  DeployInv'
<1>1. UNCHANGED <<chain, pool, db, pc, mine, calls, globals, made, budget>>
  BY DEF deployVars
<1>2. DeployTypes'
  BY <1>1 DEF DeployInv, DeployTypes
<1> QED BY <1>1, <1>2 DEF DeployInv

LEMMA DeployInvHolds == Spec => []DeployInv
<1>1. Init => DeployInv
  BY DeployInits DEF Init
<1>2. DeployInv /\ [Next]_vars => DeployInv'
  <2> SUFFICES ASSUME DeployInv, [Next]_vars PROVE DeployInv'
    OBVIOUS
  <2>1. CASE UNCHANGED deployVars
    BY <2>1, DeployRests
  <2>2. CASE Deploy!Next
    BY <2>2, DeploySteps
  <2> QED BY <2>1, <2>2, Zenon DEF Next, vars
<1> QED BY <1>1, <1>2, PTL DEF Spec

(* What the invariant says of the deployments. *)
LEMMA DeployInvGives ==
  ASSUME DeployInv
  PROVE  /\ Deploy!TypeOK /\ Deploy!DoneMeansLive
         /\ Deploy!UsdoIdAgrees /\ Deploy!EthMarketIsMain /\ Deploy!SeededBeforeUp
<1>1. Deploy!TypeOK
  <2>1. DeployTypes
    BY DEF DeployInv
  <2>2. chain \in [usdo    : [Deploy!Deployments -> [helper  : BOOLEAN,
                                    minters : SUBSET Deploy!Operators,
                                    burners : SUBSET Deploy!Operators]],
                  penrose : [Deploy!Deployments ->
                                [usdo : 0 .. MaxDeployments, usdoId : Deploy!Ids \cup {NoId},
                                 mainToken : {Weth, EthMarket}, mainId : Deploy!Ids \cup {Weth},
                                 masters : SUBSET Deploy!Kinds, markets : SUBSET Deploy!Markets,
                                 eth : BBs \cup {NoMarket}]],
                  market  : [Deploy!Deployments -> [Deploy!Markets ->
                                [ready : BOOLEAN, assetId : Deploy!Ids \cup {NoId},
                                 collateralId : Deploy!Ids \cup {NoId}, isMain : BOOLEAN,
                                 cap : Caps \cup {0}, helper : BOOLEAN]]],
                  assets  : SUBSET Deploy!Ids, seeded : SUBSET Deploy!Ids, funds : 0 .. 2]
    BY <2>1, Zenon DEF DeployTypes, DeployChains, DeployUsdos, DeployPenroses, DeployMarkets
  <2>3. /\ db.deployment \in 0 .. made.deployments /\ db.usdoStrat.token \in 0 .. made.deployments
        /\ db.usdoStrat.strategy \in 0 .. made.strategies
        /\ made.deployments \in 0 .. MaxDeployments /\ made.strategies \in 0 .. MaxStrats
        /\ mine \in 0 .. made.deployments
    BY <2>1, DeployBounds
  <2>4. Len(pool) <= MaxCrashes + 1
    <3> DEFINE len == Len(pool)
               k == budget.crashes
               n == IF pc \in {"wait1", "wait2"} THEN 1 ELSE 0
    <3>1. len + k <= MaxCrashes + n
      BY <2>1 DEF DeployTypes
    <3>2. n \in 0 .. 1
      OBVIOUS
    <3>3. len \in Nat /\ k \in 0 .. MaxCrashes /\ MaxCrashes \in Nat
      BY <2>1, DeployBounds
    <3> HIDE DEF len, k, n
    <3>4. len <= MaxCrashes + 1
      BY <3>1, <3>2, <3>3
    <3> QED BY <3>4 DEF len
  <2>5. pc \in Deploy!Steps /\ globals \subseteq Deploy!Projects
    BY <2>1 DEF DeployTypes
  <2> QED BY <2>2, <2>3, <2>4, <2>5 DEF Deploy!TypeOK
<1>2. Deploy!DoneMeansLive
  BY DEF DeployInv, DeployScriptOk, Deploy!DoneMeansLive, Deploy!Live, Deploy!Wired, Deploy!Up,
         DeployWired, DeployUp, DeployMasters
<1>3. ASSUME NEW d \in Deploy!Deployments, NEW m \in Deploy!Markets, chain.market[d][m].ready
      PROVE  /\ chain.market[d][m].assetId = chain.penrose[d].usdoId
             /\ chain.market[d][m].assetId \in {d} \X (1 .. MaxStrats)
             /\ m \in BBs => (chain.market[d][m].isMain <=> m = chain.penrose[d].eth)
             /\ m \notin Mocks => chain.market[d][m].collateralId \in chain.seeded
  BY <1>3 DEF DeployInv, DeployFileOk, DeployGood, DeployFits
<1>4. BBs \subseteq Deploy!Markets
  BY DEF Deploy!Markets
<1>5. Deploy!UsdoIdAgrees /\ Deploy!EthMarketIsMain /\ Deploy!SeededBeforeUp
  BY <1>3, <1>4 DEF Deploy!UsdoIdAgrees, Deploy!EthMarketIsMain, Deploy!SeededBeforeUp
<1> QED BY <1>1, <1>2, <1>5

(***************************************************************************)
(* The first script and StagedRollout: n deployments are made.             *)
(***************************************************************************)
DeployStage(c, n, d) ==
  IF d > n THEN "none"
  ELSE IF DeployUntouched(c, d) /\ DeployClosed(c, d) THEN "deployed"
  ELSE IF DeployWired(c, d) /\ DeployClosed(c, d) THEN "wired"
  ELSE IF DeployWired(c, d) /\ DeployUp(c, d) THEN "live" ELSE "torn"

LEMMA DeployStageIs ==
  /\ \A d : Deploy!Stage(d) = DeployStage(chain, made.deployments, d)
  /\ \A d : Deploy!Stage(d)' = DeployStage(chain', made'.deployments, d)
<1>1. \A d : /\ Deploy!Untouched(d) <=> DeployUntouched(chain, d)
             /\ Deploy!Wired(d) <=> DeployWired(chain, d)
             /\ Deploy!Closed(d) <=> DeployClosed(chain, d)
             /\ Deploy!Up(d) <=> DeployUp(chain, d)
  BY DEF Deploy!Untouched, Deploy!Wired, Deploy!Closed, Deploy!Up, DeployUntouched, DeployWired,
         DeployClosed, DeployUp, DeployMasters
<1>2. \A d : /\ Deploy!Untouched(d)' <=> DeployUntouched(chain', d)
             /\ Deploy!Wired(d)' <=> DeployWired(chain', d)
             /\ Deploy!Closed(d)' <=> DeployClosed(chain', d)
             /\ Deploy!Up(d)' <=> DeployUp(chain', d)
  BY DEF Deploy!Untouched, Deploy!Wired, Deploy!Closed, Deploy!Up, DeployUntouched, DeployWired,
         DeployClosed, DeployUp, DeployMasters
<1>3. \A d : Deploy!Stage(d) = DeployStage(chain, made.deployments, d)
  BY <1>1 DEF Deploy!Stage, Deploy!Live, DeployStage
<1>4. \A d : Deploy!Stage(d)' = DeployStage(chain', made'.deployments, d)
  BY <1>2 DEF Deploy!Stage, Deploy!Live, DeployStage
<1> QED BY <1>3, <1>4

(* A good deployment is at one of the three stages. *)
LEMMA DeployStageCases ==
  ASSUME NEW c, NEW d \in Deploy!Deployments, DeployGood(c, d), NEW n, ~(d > n)
  PROVE  /\ DeployStage(c, n, d) \in {"deployed", "wired", "live"}
         /\ DeployUntouched(c, d) => DeployStage(c, n, d) = "deployed"
         /\ DeployWired(c, d) /\ DeployClosed(c, d) => DeployStage(c, n, d) = "wired"
         /\ ~DeployClosed(c, d) => DeployStage(c, n, d) = "live"
         /\ DeployUntouched(c, d) \/ DeployWired(c, d)
         /\ DeployUntouched(c, d) => ~DeployWired(c, d)
<1>1. DeployUntouched(c, d) => ~DeployWired(c, d) /\ DeployClosed(c, d)
  <2>1. Deploy!NewPenrose.usdo = 0 /\ d # 0
    BY DEF Deploy!NewPenrose, Deploy!Deployments
  <2>2. DeployUntouched(c, d) => ~DeployWired(c, d)
    BY <2>1 DEF DeployUntouched, DeployWired
  <2> QED BY <2>2 DEF DeployGood
<1> QED BY <1>1 DEF DeployGood, DeployStage

LEMMA DeployStageSame ==
  ASSUME NEW c, NEW x, NEW d \in Deploy!Deployments, DeployGood(c, d), DeployGood(x, d),
         DeployUntouched(x, d) <=> DeployUntouched(c, d),
         DeployClosed(x, d) <=> DeployClosed(c, d), NEW n
  PROVE  DeployStage(x, n, d) = DeployStage(c, n, d)
<1>1. CASE d > n
  BY <1>1 DEF DeployStage
<1>2. CASE ~(d > n)
  BY <1>2, DeployStageCases
<1> QED BY <1>1, <1>2

(* A step does one thing to one deployment, or nothing. *)
DeployMoved(d, a, b) ==
  /\ Deploy!Stage(d) = a /\ Deploy!Stage(d)' = b
  /\ \A e \in Deploy!Deployments \ {d} : Deploy!Stage(e)' = Deploy!Stage(e)
DeployAbstractStep ==
  \/ /\ \A d \in Deploy!Deployments : Deploy!Stage(d)' = Deploy!Stage(d)
     /\ db'.deployment = db.deployment
  \/ \E d \in Deploy!Deployments :
        \/ /\ d > db.deployment /\ DeployMoved(d, "none", "deployed")
           /\ \A e \in Deploy!Deployments : e < d => Deploy!Stage(e) # "none"
           /\ db'.deployment = db.deployment
        \/ /\ d > db.deployment /\ Deploy!Stage(d) = "deployed" /\ db'.deployment = d
           /\ \A e \in Deploy!Deployments : Deploy!Stage(e)' = Deploy!Stage(e)
        \/ /\ d <= db.deployment /\ db'.deployment = db.deployment
           /\ DeployMoved(d, "deployed", "wired") \/ DeployMoved(d, "wired", "live")

LEMMA DeployAbstracts ==
  ASSUME DeployInv, DeployInv', DeployStep
  PROVE  DeployAbstractStep
<1> DEFINE n == made.deployments
<1>0. DeployTypes /\ \A d \in Deploy!Deployments : DeployGood(chain, d)
  BY DEF DeployInv, DeployFileOk
<1>1. \A d \in Deploy!Deployments : DeployGood(chain', d)
  BY DEF DeployInv, DeployFileOk
<1>2. /\ n \in Nat /\ n <= MaxDeployments /\ db.deployment \in Nat /\ db.deployment <= n
      /\ MaxDeployments \in Nat
  BY <1>0, DeployBounds
<1>3. /\ \A d : Deploy!Stage(d) = DeployStage(chain, made.deployments, d)
      /\ \A d : Deploy!Stage(d)' = DeployStage(chain', made'.deployments, d)
  BY DeployStageIs
<1>4. CASE /\ DeployMild(chain, chain')
           /\ db'.deployment = db.deployment /\ made'.deployments = made.deployments
  <2>1. ASSUME NEW d \in Deploy!Deployments PROVE Deploy!Stage(d)' = Deploy!Stage(d)
    <3>1. /\ DeployUntouched(chain', d) <=> DeployUntouched(chain, d)
          /\ DeployClosed(chain', d) <=> DeployClosed(chain, d)
      BY <1>4, DeployMildGood
    <3>2. DeployStage(chain', n, d) = DeployStage(chain, n, d)
      BY <1>0, <1>1, <3>1, DeployStageSame
    <3> QED BY <1>3, <1>4, <3>2
  <2> QED BY <1>4, <2>1 DEF DeployAbstractStep
<1>5. CASE chain' = chain /\ db' = db /\ made'.deployments = n + 1 /\ n < MaxDeployments
  <2> PICK d \in Deploy!Deployments : d = n + 1
    BY <1>2, <1>5 DEF Deploy!Deployments
  <2>1. d > db.deployment /\ d > n /\ ~(d > n + 1)
    BY <1>2, <1>5
  <2>2. \A e \in Deploy!Deployments \ {d} : e > n <=> e > n + 1
    BY <1>2 DEF Deploy!Deployments
  <2>3. \A e \in Deploy!Deployments : e < d => ~(e > n)
    BY <1>2 DEF Deploy!Deployments
  <2>4. \A e \in Deploy!Deployments \ {d} : Deploy!Stage(e)' = Deploy!Stage(e)
    BY <1>3, <1>5, <2>2 DEF DeployStage
  <2>5. Deploy!Stage(d) = "none"
    BY <1>3, <2>1 DEF DeployStage
  <2>6. Deploy!Stage(d)' = "deployed"
    <3>1. DeployUntouched(chain, d)
      BY <2>1 DEF DeployInv, DeployFileOk
    <3>2. DeployStage(chain, n + 1, d) = "deployed"
      BY <1>0, <2>1, <3>1, DeployStageCases
    <3> QED BY <1>3, <1>5, <3>2
  <2>7. \A e \in Deploy!Deployments : e < d => Deploy!Stage(e) # "none"
    BY <1>0, <1>3, <2>3, DeployStageCases
  <2> QED BY <1>5, <2>1, <2>4, <2>5, <2>6, <2>7 DEF DeployAbstractStep, DeployMoved
<1>6. CASE Deploy!save
  <2>1. /\ chain' = chain /\ made' = made /\ db' = [db EXCEPT !.deployment = mine]
        /\ mine = n /\ db.deployment < mine
    BY <1>6 DEF Deploy!save, DeployInv, DeployScriptOk
  <2>2. mine \in Deploy!Deployments /\ ~(mine > n)
    BY <1>2, <2>1 DEF Deploy!Deployments
  <2>3. db'.deployment = mine
    BY <1>0, <2>1 DEF DeployTypes
  <2>4. \A e \in Deploy!Deployments : Deploy!Stage(e)' = Deploy!Stage(e)
    BY <1>3, <2>1
  <2>5. Deploy!Stage(mine) = "deployed"
    <3>1. mine > db.deployment
      BY <1>2, <2>1
    <3>2. DeployUntouched(chain, mine)
      BY <2>2, <3>1 DEF DeployInv, DeployFileOk
    <3> QED BY <1>0, <1>3, <2>2, <3>2, DeployStageCases
  <2>6. mine > db.deployment
    BY <1>2, <2>1
  <2> QED BY <2>2, <2>3, <2>4, <2>5, <2>6 DEF DeployAbstractStep
<1>7. CASE /\ pool # <<>> /\ DeployHasStrat(db) /\ DeployNextOf(chain, chain', db, pool[1])
           /\ db' = db /\ made' = made
  <2>0. db.deployment \in Deploy!Deployments
    BY <1>0, <1>2, <1>7, DeployStratIds
  <2> PICK d \in Deploy!Deployments : d = db.deployment
    BY <2>0
  <2>1. ~(d > n) /\ d <= db.deployment
    BY <1>0, <1>2, <1>7
  <2>2. DeployNext(chain, chain', d, DeployUsdoId(db))
    BY <1>7 DEF DeployNextOf
  <2>3. ASSUME NEW e \in Deploy!Deployments \ {d} PROVE Deploy!Stage(e)' = Deploy!Stage(e)
    <3>1. /\ DeployUntouched(chain', e) <=> DeployUntouched(chain, e)
          /\ DeployClosed(chain', e) <=> DeployClosed(chain, e)
      BY <2>2 DEF DeployNext
    <3>2. DeployStage(chain', n, e) = DeployStage(chain, n, e)
      BY <1>0, <1>1, <3>1, DeployStageSame
    <3> QED BY <1>3, <1>7, <3>2
  <2>4. DeployWired(chain', d) /\ (DeployClosed(chain', d) => DeployClosed(chain, d))
    BY <2>2 DEF DeployNext
  <2>5. CASE DeployClosed(chain', d)
    <3>1. Deploy!Stage(d)' = "wired"
      BY <1>1, <1>3, <1>7, <2>1, <2>4, <2>5, DeployStageCases
    <3>2. Deploy!Stage(d) \in {"deployed", "wired"}
      BY <1>0, <1>3, <2>1, <2>4, <2>5, DeployStageCases
    <3>3. CASE Deploy!Stage(d) = "deployed"
      <4>1. DeployMoved(d, "deployed", "wired")
        BY <2>3, <3>1, <3>3 DEF DeployMoved
      <4> QED BY <1>7, <2>1, <4>1 DEF DeployAbstractStep
    <3>4. CASE Deploy!Stage(d) = "wired"
      <4>1. \A e \in Deploy!Deployments : Deploy!Stage(e)' = Deploy!Stage(e)
        BY <2>3, <3>1, <3>4
      <4> QED BY <1>7, <4>1 DEF DeployAbstractStep
    <3> QED BY <3>2, <3>3, <3>4
  <2>6. CASE ~DeployClosed(chain', d)
    <3>1. Deploy!Stage(d)' = "live"
      BY <1>1, <1>3, <1>7, <2>1, <2>6, DeployStageCases
    <3>2. Deploy!Stage(d) \in {"wired", "live"}
      <4>1. DeployIsFirst(chain, db, pool[1]) \/ DeployIsSecond(chain, db, pool[1])
        <5>1. 1 \in 1 .. Len(pool)
          <6> DEFINE L == Seq(DeployAll)
          <6>1. pool \in Seq(L) /\ pool # <<>>
            BY <1>0, <1>7 DEF DeployTypes
          <6> HIDE DEF L
          <6> QED BY <6>1
        <5> QED BY <5>1 DEF DeployInv, DeployPooled
      <4>2. CASE DeployIsFirst(chain, db, pool[1])
        <5>1. ~DeployClosed(chain, d)
          BY <1>7, <2>6, <4>2 DEF DeployNextOf
        <5> QED BY <1>0, <1>3, <2>1, <5>1, DeployStageCases
      <4>3. CASE DeployIsSecond(chain, db, pool[1])
        <5>1. DeployWired(chain, d)
          BY <1>7, <4>3 DEF DeployNextOf
        <5> QED BY <1>0, <1>3, <2>1, <5>1, DeployStageCases
      <4> QED BY <4>1, <4>2, <4>3
    <3>3. CASE Deploy!Stage(d) = "wired"
      <4>1. DeployMoved(d, "wired", "live")
        BY <2>3, <3>1, <3>3 DEF DeployMoved
      <4> QED BY <1>7, <2>1, <4>1 DEF DeployAbstractStep
    <3>4. CASE Deploy!Stage(d) = "live"
      <4>1. \A e \in Deploy!Deployments : Deploy!Stage(e)' = Deploy!Stage(e)
        BY <2>3, <3>1, <3>4
      <4> QED BY <1>7, <4>1 DEF DeployAbstractStep
    <3> QED BY <3>2, <3>3, <3>4
  <2> QED BY <2>5, <2>6
<1> QED BY <1>4, <1>5, <1>6, <1>7 DEF DeployStep

(* The borrow cap of a market that is up is changed by the owner only. *)
DeployCapsStep ==
  \A d \in Deploy!Deployments, m \in BBs :
     chain.market[d][m].ready /\ chain.market'[d][m].cap # chain.market[d][m].cap
        => budget'.owner < budget.owner

LEMMA DeployKeepsCaps ==
  ASSUME DeployInv, DeployStep
  PROVE  DeployCapsStep
<1>1. CASE chain'.market = chain.market \/ budget'.owner < budget.owner
  BY <1>1 DEF DeployCapsStep
<1>2. CASE Deploy!save
  BY <1>1, <1>2 DEF Deploy!save
<1>3. CASE DeployNextOf(chain, chain', db, pool[1])
  <2>1. \A d \in Deploy!Deployments, m \in Deploy!Markets :
           chain.market[d][m].ready => chain'.market[d][m] = chain.market[d][m]
    BY <1>3 DEF DeployNextOf, DeployNext
  <2>2. BBs \subseteq Deploy!Markets
    BY DEF Deploy!Markets
  <2> QED BY <2>1, <2>2 DEF DeployCapsStep
<1> QED BY <1>1, <1>2, <1>3 DEF DeployStep

(* What the step does to the stages is a step of StagedRollout. *)
LEMMA DeployStagedStep ==
  ASSUME DeployTypes, DeployAbstractStep
  PROVE  [Deploy!Staged!Next]_<<[d \in Deploy!Deployments |-> Deploy!Stage(d)], db.deployment>>
<1>1. Deploy!Staged!Deployments = Deploy!Deployments
  BY DEF Deploy!Staged!Deployments, Deploy!Deployments
<1> DEFINE stages == [d \in Deploy!Deployments |-> Deploy!Stage(d)]
<1>2. CASE /\ \A d \in Deploy!Deployments : Deploy!Stage(d)' = Deploy!Stage(d)
           /\ db'.deployment = db.deployment
  BY <1>2
<1>3. ASSUME NEW d \in Deploy!Deployments, NEW a, NEW b, DeployMoved(d, a, b)
      PROVE  /\ stages[d] = a
             /\ stages' = [stages EXCEPT ![d] = b]
  BY <1>3 DEF DeployMoved
<1>4. ASSUME NEW d \in Deploy!Deployments, d > db.deployment,
             DeployMoved(d, "none", "deployed"), db'.deployment = db.deployment,
             \A e \in Deploy!Deployments : e < d => Deploy!Stage(e) # "none"
      PROVE  Deploy!Staged!Deploy(d)
  <2>1. \A e \in Deploy!Deployments : e < d => stages[e] # "none"
    BY <1>4
  <2>2. stages[d] = "none" /\ stages' = [stages EXCEPT ![d] = "deployed"]
    BY <1>3, <1>4
  <2> QED BY <1>1, <1>4, <2>1, <2>2 DEF Deploy!Staged!Deploy, Deploy!Staged!Advance
<1>5. ASSUME NEW d \in Deploy!Deployments, d > db.deployment, Deploy!Stage(d) = "deployed",
             db'.deployment = d,
             \A e \in Deploy!Deployments : Deploy!Stage(e)' = Deploy!Stage(e)
      PROVE  Deploy!Staged!Save(d)
  <2>1. stages[d] = "deployed" /\ stages' = stages
    BY <1>5
  <2> QED BY <1>5, <2>1 DEF Deploy!Staged!Save
<1>6. ASSUME NEW d \in Deploy!Deployments, d <= db.deployment, db'.deployment = db.deployment,
             DeployMoved(d, "deployed", "wired")
      PROVE  Deploy!Staged!Wire(d)
  <2>1. stages[d] = "deployed" /\ stages' = [stages EXCEPT ![d] = "wired"]
    BY <1>3, <1>6
  <2> QED BY <1>6, <2>1 DEF Deploy!Staged!Wire, Deploy!Staged!Advance
<1>7. ASSUME NEW d \in Deploy!Deployments, d <= db.deployment, db'.deployment = db.deployment,
             DeployMoved(d, "wired", "live")
      PROVE  Deploy!Staged!GoLive(d)
  <2>1. stages[d] = "wired" /\ stages' = [stages EXCEPT ![d] = "live"]
    BY <1>3, <1>7
  <2> QED BY <1>7, <2>1 DEF Deploy!Staged!GoLive, Deploy!Staged!Advance
<1> HIDE DEF stages
<1>8. CASE \E d \in Deploy!Deployments :
             Deploy!Staged!Deploy(d) \/ Deploy!Staged!Save(d)
               \/ Deploy!Staged!Wire(d) \/ Deploy!Staged!GoLive(d)
  BY <1>1, <1>8 DEF Deploy!Staged!Next
<1> QED BY <1>2, <1>4, <1>5, <1>6, <1>7, <1>8 DEF DeployAbstractStep

LEMMA DeployStagesStart ==
  ASSUME Deploy!Init
  PROVE  Deploy!Staged!Init
<1>1. made.deployments = 0 /\ db.deployment = 0
  BY DEF Deploy!Init
<1>2. \A d \in Deploy!Deployments : Deploy!Stage(d) = "none"
  BY <1>1 DEF Deploy!Stage, Deploy!Deployments
<1>3. Deploy!Staged!Deployments = Deploy!Deployments
  BY DEF Deploy!Staged!Deployments, Deploy!Deployments
<1> QED BY <1>1, <1>2, <1>3 DEF Deploy!Staged!Init

(* A step of the rollout is one of the first script or its variables rest. *)
LEMMA DeployOrRest ==
  ASSUME [Next]_vars
  PROVE  Deploy!Next \/ UNCHANGED <<chain, pool, db, pc, mine, calls, globals, made, budget>>
BY Zenon DEF Next, vars, deployVars

-----------------------------------------------------------------------------
(***************************************************************************)
(* The scripts together: a behaviour is one script's, and what is shown of *)
(* the others holds because they rest.                                     *)
(***************************************************************************)
LEMMA MintRests ==
  ASSUME MintInv, UNCHANGED mintVars
  PROVE  MintInv'
<1>1. UNCHANGED <<origins, originsMade, wallet, signer, oracle, originsPool, originsDb,
                  originsPc, job, funded, crashes>>
  BY DEF mintVars
<1>2. MintOwed'
  BY <1>1, MintOwedKept DEF MintInv
<1> QED BY <1>1, <1>2 DEF MintInv, MintScript

LEMMA FinalRests ==
  ASSUME FinalInv, UNCHANGED finalVars
  PROVE  FinalInv'
<1>1. UNCHANGED <<usdo, receipts, wrapped, tSglSdai, tSglSglp, sent, lent, oracles,
                  finalPool, finalPc, finalChain, done, finalBudget>>
  BY DEF finalVars
<1> QED BY <1>1 DEF FinalInv, FinalTokens, FinalScript, FinalBacked, FinalDone,
          Final!OraclesNeedLender, Final!DoneMeansSeeded

LEMMA MintInvHolds == Spec => []MintInv
<1>1. Init => MintInv
  BY RolloutAssumption, MintInvInit DEF Init
<1>2. MintInv /\ [Next]_vars => MintInv'
  <2> SUFFICES ASSUME MintInv, [Next]_vars PROVE MintInv'
    OBVIOUS
  <2>1. CASE UNCHANGED mintVars
    BY <2>1, MintRests
  <2>2. CASE Mint!Next
    BY <2>2, RolloutAssumption, MintInvNext
  <2> QED BY <2>1, <2>2, Zenon DEF Next, vars
<1> QED BY <1>1, <1>2, PTL DEF Spec

LEMMA FinalInvHolds == Spec => []FinalInv
<1>1. Init => FinalInv
  BY RolloutAssumption, FinalInvInit DEF Init
<1>2. FinalInv /\ [Next]_vars => FinalInv'
  <2> SUFFICES ASSUME FinalInv, [Next]_vars PROVE FinalInv'
    OBVIOUS
  <2>1. CASE UNCHANGED finalVars
    BY <2>1, FinalRests
  <2>2. CASE Final!Next
    BY <2>2, RolloutAssumption, FinalInvNext
  <2> QED BY <2>1, <2>2, Zenon DEF Next, vars
<1> QED BY <1>1, <1>2, PTL DEF Spec

(* The models of the three scripts keep to their types. *)
THEOREM RolloutTyped == Spec => []TypeOK
<1>1. DeployInv /\ MintInv /\ FinalInv => TypeOK
  BY RolloutAssumption, DeployInvGives, MintInvGives, FinalInvGives DEF TypeOK
<1> QED BY <1>1, DeployInvHolds, MintInvHolds, FinalInvHolds, PTL

(* A market that is up has the one id of its deployment's own USDO, takes  *)
(* Penrose's rate exactly if it is the ETH market there, and somebody      *)
(* holds shares of its collateral: whatever runs crashed before it came up *)
(* and whichever of their batches are mined late (1-1-deployPostLbp.ts).   *)
THEOREM DeploymentsFit == Spec => []MarketsFit
<1>1. DeployInv => MarketsFit
  BY DeployInvGives DEF MarketsFit
<1> QED BY <1>1, DeployInvHolds, PTL

(* A run of the first or the last script that reports success left a live  *)
(* deployment, or all oracles set and the side's receipts on their way.    *)
THEOREM DoneIsDone == Spec => []DoneMeansDone
<1>1. DeployInv /\ FinalInv => DoneMeansDone
  BY RolloutAssumption, DeployInvGives, FinalInvGives DEF DoneMeansDone
<1> QED BY <1>1, DeployInvHolds, FinalInvHolds, PTL

(* No batch of the first script, late or repeated, touches the borrow cap  *)
(* of a market that is up: only the owner's task does.                     *)
THEOREM CapsKept == Spec => CapsAreTheOwners
<1>1. DeployInv /\ [Next]_vars
        => [DeployCapsStep]_<<chain, pool, db, pc, mine, calls, globals, made, budget>>
  BY DeployOrRest, DeploySteps, DeployKeepsCaps
<1> QED BY <1>1, DeployInvHolds, PTL
    DEF Spec, CapsAreTheOwners, Deploy!CapsAreTheOwners, Deploy!vars, DeployCapsStep

(* The first script implements StagedRollout: a deployment is deployed,    *)
(* wired and live in one piece each, in this order, and never goes back.   *)
THEOREM FirstScriptIsStaged == Spec => IsStagedRollout
<1>1. Init => Deploy!Staged!Init
  BY DeployStagesStart DEF Init
<1>2. DeployInv /\ [Next]_vars
        => [Deploy!Staged!Next]_<<[d \in Deploy!Deployments |-> Deploy!Stage(d)], db.deployment>>
  <2> SUFFICES ASSUME DeployInv, [Next]_vars
               PROVE  [Deploy!Staged!Next]_<<[d \in Deploy!Deployments |-> Deploy!Stage(d)],
                                             db.deployment>>
    OBVIOUS
  <2>1. DeployTypes
    BY DEF DeployInv
  <2>2. CASE Deploy!Next
    BY <2>1, <2>2, DeploySteps, DeployAbstracts, DeployStagedStep
  <2>3. CASE UNCHANGED <<chain, pool, db, pc, mine, calls, globals, made, budget>>
    <3>1. /\ \A d \in Deploy!Deployments : Deploy!Stage(d)' = Deploy!Stage(d)
          /\ db'.deployment = db.deployment
      BY <2>3, DeployStageIs
    <3>2. DeployAbstractStep
      BY <3>1 DEF DeployAbstractStep
    <3> QED BY <2>1, <3>2, DeployStagedStep
  <2> QED BY <2>2, <2>3, DeployOrRest
<1> QED BY DeployInvHolds, <1>1, <1>2, PTL
    DEF Spec, IsStagedRollout, Deploy!IsStagedRollout, Deploy!Staged!Spec
(* All USDO the second script mints is owed to the Origins markets, and    *)
(* between transactions nothing of a batch is left in the YieldBox or      *)
(* approved (setupPostLbp2.ts): for every number of runs, crashes and      *)
(* markets, and whatever the oracle answers between quote and batch.       *)
THEOREM MintedOwed == Spec => []MintedIsOwed
<1>1. MintInv => MintedIsOwed
  BY RolloutAssumption, MintInvGives DEF MintedIsOwed
<1> QED BY <1>1, MintInvHolds, PTL

(* A funded batch of the second script that is mined in time, while the    *)
(* oracle answers a rate within delta of the quote, and whose loans are    *)
(* above the market's minimum, goes through, for every rate, amount and    *)
(* delta: the roundings of the quote never use up what delta leaves.       *)
THEOREM DeltaSuffices == Spec => []DeltaHolds
<1>1. MintInv => DeltaHolds
  BY RolloutAssumption, MintInvGives DEF DeltaHolds
<1> QED BY <1>1, MintInvHolds, PTL

(* Each wrapped receipt of the last script is on a chain or on its way to  *)
(* the host, and no oracle is set before somebody lends, whatever batch    *)
(* reverts, is late or is sent again.                                      *)
THEOREM ReceiptsStayBacked == Spec => []ReceiptsBacked
<1>1. FinalInv => ReceiptsBacked
  BY RolloutAssumption, FinalInvGives DEF ReceiptsBacked
<1> QED BY <1>1, FinalInvHolds, PTL
=============================================================================
