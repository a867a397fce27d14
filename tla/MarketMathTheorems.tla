------------------------- MODULE MarketMathTheorems -------------------------
(***************************************************************************)
(* What the two rounding directions guarantee about a rebase: parts never  *)
(* outgrow tokens, what a user owes is always there to be repaid, and      *)
(* neither borrowing, repaying nor liquidating makes the parts of the      *)
(* other borrowers more expensive.  Then bounds of the shared market       *)
(* functions that the markets' safety needs: which of Solidity's checked   *)
(* subtractions cannot underflow, and which round trips are exact.         *)
(***************************************************************************)
EXTENDS MarketMath, CommonTheorems

LEMMA CeilDivBounds ==
  ASSUME NEW a \in Nat, NEW b \in Nat, b > 0
  PROVE  /\ CeilDiv(a, b) \in Nat
         /\ a <= b * CeilDiv(a, b)
         /\ b * CeilDiv(a, b) < a + b
  BY DEF CeilDiv

LEMMA ProductMonotone ==
  ASSUME NEW a \in Nat, NEW b \in Nat, NEW c \in Nat, a <= b
  PROVE  a * c <= b * c
  OBVIOUS

LEMMA ProductCancels ==
  ASSUME NEW a \in Int, NEW b \in Int, NEW c \in Nat, c > 0, a * c < b * c
  PROVE  a < b
  OBVIOUS

(* The parts a borrower gets for new debt, rounded up, are a natural no    *)
(* larger than the debt, and they are worth at least that debt.            *)
LEMMA BorrowRounding ==
  ASSUME NEW E \in Nat, NEW B \in Nat, NEW x \in Nat, B <= E, E > 0
  PROVE  /\ CeilDiv(x * B, E) \in Nat
         /\ CeilDiv(x * B, E) <= x
         /\ x * B <= E * CeilDiv(x * B, E)
<1> DEFINE p == CeilDiv(x * B, E)
<1>1. x * B \in Nat
  OBVIOUS
<1>2. p \in Nat /\ x * B <= E * p /\ E * p < x * B + E
  BY <1>1, CeilDivBounds
<1>3. x * B <= x * E
  OBVIOUS
<1> HIDE DEF p
<1>4. p * E < (x + 1) * E
  BY <1>2, <1>3
<1>5. p < x + 1
  BY <1>2, <1>4, ProductCancels
<1>6. p <= x
  BY <1>2, <1>5
<1> QED BY <1>2, <1>6 DEF p

(* The tokens owed for p parts, rounded up, are at least p and at most     *)
(* everything owed, and what stays owed still covers the parts that stay.  *)
LEMMA RepayRounding ==
  ASSUME NEW E \in Nat, NEW B \in Nat, NEW p \in Nat, B <= E, p <= B, B > 0
  PROVE  /\ CeilDiv(p * E, B) \in Nat
         /\ p <= CeilDiv(p * E, B)
         /\ CeilDiv(p * E, B) <= E
         /\ B - p <= E - CeilDiv(p * E, B)
         /\ p * E <= B * CeilDiv(p * E, B)
<1> DEFINE a == CeilDiv(p * E, B)
<1>1. p * E \in Nat
  OBVIOUS
<1>2. a \in Nat /\ p * E <= B * a /\ B * a < p * E + B
  BY <1>1, CeilDivBounds
<1> HIDE DEF a
<1> DEFINE d == E - B
           q == B - p
<1>3. d \in Nat /\ q \in Nat /\ E = B + d /\ B = p + q
  OBVIOUS
<1>4. p * E = p * B + p * d /\ p * d <= B * d
  BY <1>3
<1>5. a * B < (p + d + 1) * B
  <2>1. p * d <= d * B
    BY <1>3, <1>4
  <2>2. a * B = B * a /\ (p + d + 1) * B = p * B + d * B + B
    BY <1>2, <1>3
  <2> QED BY <1>2, <1>3, <1>4, <2>1, <2>2
<1>6. a < p + d + 1
  BY <1>2, <1>3, <1>5, ProductCancels
<1>7. p * B <= a * B
  BY <1>2, <1>3, <1>4
<1>8. p <= a
  BY <1>2, <1>7
<1> QED BY <1>2, <1>3, <1>6, <1>8 DEF a

(* A partial liquidation takes the parts rounded down: fewer than the      *)
(* tokens it repays, and again what stays owed covers the parts that stay. *)
LEMMA LiquidationRounding ==
  ASSUME NEW E \in Nat, NEW B \in Nat, NEW a \in Nat, B <= E, a <= E, E > 0
  PROVE  /\ (a * B) \div E \in Nat
         /\ (a * B) \div E <= B
         /\ B - (a * B) \div E <= E - a
         /\ E * ((a * B) \div E) <= a * B
<1> DEFINE p == (a * B) \div E
<1>1. a * B \in Nat
  OBVIOUS
<1>2. p \in Nat /\ E * p <= a * B /\ a * B < E * p + E
  BY <1>1, FloorDiv
<1> HIDE DEF p
<1> DEFINE d == E - B
           r == E - a
<1>3. d \in Nat /\ r \in Nat /\ E = B + d /\ E = a + r
  OBVIOUS
<1>4. p * E <= B * E
  <2>1. a * B <= E * B
    BY ProductMonotone
  <2> QED BY <1>2, <2>1
<1>5. p <= B
  BY <1>2, <1>4
<1>6. a * d <= E * d
  BY <1>3, ProductMonotone
<1>7. (a - d) * E < (p + 1) * E
  <2>1. a * E = a * B + a * d
    BY <1>3
  <2>2. (a - d) * E = a * E - d * E /\ (p + 1) * E = E * p + E
    BY <1>2, <1>3
  <2>3. a * E \in Int /\ a * B \in Int /\ a * d \in Int /\ d * E \in Int /\ E * p \in Int /\ d * E = E * d
    BY <1>2, <1>3
  <2> HIDE DEF d
  <2> QED BY <1>2, <1>6, <2>1, <2>2, <2>3
<1>8. a - d < p + 1
  BY <1>2, <1>3, <1>7, ProductCancels
<1> QED BY <1>2, <1>3, <1>5, <1>8 DEF p

-----------------------------------------------------------------------------
LEMMA LeastNat ==
  ASSUME NEW a \in Nat, NEW b \in Nat
  PROVE  Least(a, b) \in Nat /\ Least(a, b) <= a /\ Least(a, b) <= b
  BY DEF Least

LEMMA FeeOfNat ==
  ASSUME NEW amount \in Nat, NEW fee \in Nat
  PROVE  feeOf(amount, fee) \in Nat
<1>1. amount * fee \in Nat
  OBVIOUS
<1> QED BY <1>1, FloorDiv, PrecisionAssumption DEF feeOf

(* A fee that is a fraction of the precision is at most the amount. *)
LEMMA FeeOfBounded ==
  ASSUME NEW amount \in Nat, NEW fee \in 0..FEE_PRECISION
  PROVE  feeOf(amount, fee) \in Nat /\ feeOf(amount, fee) <= amount
<1> DEFINE q == feeOf(amount, fee)
<1>1. FEE_PRECISION \in Nat /\ FEE_PRECISION > 0 /\ fee \in Nat
  BY PrecisionAssumption
<1>2. amount * fee \in Nat /\ amount * fee <= FEE_PRECISION * amount
  BY <1>1
<1>3. q \in Nat /\ FEE_PRECISION * q <= amount * fee
  BY <1>1, <1>2, FloorDiv DEF feeOf
<1> HIDE DEF q
<1>4. q * FEE_PRECISION < (amount + 1) * FEE_PRECISION
  BY <1>1, <1>2, <1>3
<1>5. q < amount + 1
  BY <1>1, <1>3, <1>4, ProductCancels
<1> QED BY <1>3, <1>5 DEF q

LEMMA ShareRoundTrip ==
  ASSUME NEW amount \in Nat
  PROVE  toShare(amount) \in Nat /\ toAmount(toShare(amount), FALSE) = amount
  BY PrecisionAssumption DEF toShare, toAmount, RoundedDiv

(* The tokens of a share never need more shares than it has. *)
LEMMA WholeTokens ==
  ASSUME NEW share \in Nat
  PROVE  /\ toAmount(share, FALSE) \in Nat
         /\ toShare(toAmount(share, FALSE)) \in Nat
         /\ toShare(toAmount(share, FALSE)) <= share
<1> DEFINE q == toAmount(share, FALSE)
<1>1. SharesPerAmount \in Nat /\ SharesPerAmount > 0
  BY PrecisionAssumption
<1>2. q = share \div SharesPerAmount
  BY DEF toAmount, RoundedDiv
<1>3. q \in Nat /\ SharesPerAmount * q <= share
  BY <1>1, <1>2, FloorDiv
<1> HIDE DEF q
<1>4. q * SharesPerAmount \in Nat /\ q * SharesPerAmount <= share
  BY <1>1, <1>3
<1> QED BY <1>3, <1>4 DEF toShare, q

(* Rounding up the tokens of a share that is worth at most `amount` stays  *)
(* within `amount`.                                                        *)
LEMMA RoundedUpTokens ==
  ASSUME NEW amount \in Nat, NEW share \in Nat, share <= toShare(amount)
  PROVE  toAmount(share, TRUE) \in Nat /\ toAmount(share, TRUE) <= amount
<1> DEFINE q == toAmount(share, TRUE)
<1>1. SharesPerAmount \in Nat /\ SharesPerAmount > 0
  BY PrecisionAssumption
<1>2. q \in Nat /\ SharesPerAmount * q < share + SharesPerAmount
  BY <1>1, CeilDivBounds DEF toAmount, RoundedDiv
<1> HIDE DEF q
<1>3. q * SharesPerAmount < (amount + 1) * SharesPerAmount
  BY <1>1, <1>2 DEF toShare
<1>4. q < amount + 1
  BY <1>1, <1>2, <1>3, ProductCancels
<1>5. q <= amount
  BY <1>2, <1>4
<1> QED BY <1>2, <1>5, Zenon DEF q

LEMMA CollateralInAssetNat ==
  ASSUME NEW share \in Nat, NEW rate \in Nat \ {0}
  PROVE  collateralInAsset(share, rate) \in Nat
<1> DEFINE tokens == toAmount(share, FALSE)
           value == tokens * EXCHANGE_RATE_PRECISION
<1>1. tokens \in Nat
  BY WholeTokens
<1> HIDE DEF tokens
<1>2. value \in Nat
  BY <1>1, PrecisionAssumption
<1> HIDE DEF value
<1>3. value \div rate \in Nat
  BY <1>2, FloorDiv
<1> QED BY <1>3, Zenon DEF collateralInAsset, value, tokens

LEMMA RoundedDivNat ==
  ASSUME NEW a \in Nat, NEW b \in Nat \ {0}
  PROVE  RoundedDiv(a, b, TRUE) \in Nat /\ RoundedDiv(a, b, FALSE) \in Nat
<1>1. a \div b \in Nat
  BY FloorDiv
<1>2. CeilDiv(a, b) \in Nat
  BY CeilDivBounds
<1> QED BY <1>1, <1>2, Zenon DEF RoundedDiv

(* A debt total converts parts to tokens and back without leaving Nat. *)
LEMMA ToElasticNat ==
  ASSUME NEW total \in [elastic : Nat, base : Nat], NEW part \in Nat
  PROVE  ToElastic(total, part, TRUE) \in Nat /\ ToElastic(total, part, FALSE) \in Nat
<1>1. part * total.elastic \in Nat /\ total.base \in Nat
  OBVIOUS
<1>2. CASE total.base = 0
  BY <1>2, Zenon DEF ToElastic
<1>3. CASE total.base # 0
  <2>1. total.base \in Nat \ {0}
    BY <1>1, <1>3
  <2> QED BY <1>1, <1>3, <2>1, RoundedDivNat, Zenon DEF ToElastic
<1> QED BY <1>2, <1>3

LEMMA ToBaseNat ==
  ASSUME NEW total \in [elastic : Nat, base : Nat], NEW amount \in Nat
  PROVE  ToBase(total, amount, TRUE) \in Nat /\ ToBase(total, amount, FALSE) \in Nat
<1>1. amount * total.base \in Nat /\ total.elastic \in Nat
  OBVIOUS
<1>2. CASE total.elastic = 0
  BY <1>2, Zenon DEF ToBase
<1>3. CASE total.elastic # 0
  <2>1. total.elastic \in Nat \ {0}
    BY <1>1, <1>3
  <2> QED BY <1>1, <1>3, <2>1, RoundedDivNat, Zenon DEF ToBase
<1> QED BY <1>2, <1>3

(* Interpolating between 0 and `span` never overshoots. *)
LEMMA Interpolation ==
  ASSUME NEW span \in Nat, NEW x \in Nat, NEW d \in Nat, d > 0, x <= d
  PROVE  (x * span) \div d \in 0..span
<1> DEFINE n == x * span
           q == n \div d
<1>1. n \in Nat /\ n <= d * span
  BY ProductMonotone
<1>2. q \in Nat /\ d * q <= n
  BY <1>1, FloorDiv
<1> HIDE DEF q, n
<1>3. q * d < (span + 1) * d
  BY <1>1, <1>2
<1>4. q < span + 1
  BY <1>2, <1>3, ProductCancels
<1>5. q \in 0..span
  BY <1>2, <1>4
<1> QED BY <1>5, Zenon DEF q, n

(* The opening fee is a natural: the rate never leaves the range between   *)
(* the minimum and the maximum fee.                                        *)
LEMMA OpeningFeeNat ==
  ASSUME NEW amount \in Nat, NEW price \in Nat
  PROVE  computeVariableOpeningFee(amount, price) \in Nat
<1> DEFINE r == openingFeeRate(price)
<1>1. r \in Nat
  <2> USE MintFeeAssumption
  <2>1. CASE price >= minMintFeeStart \/ price <= maxMintFeeStart
    BY <2>1 DEF openingFeeRate
  <2>2. CASE ~(price >= minMintFeeStart) /\ ~(price <= maxMintFeeStart)
    <3> DEFINE span == maxMintFee - minMintFee
               x == price - maxMintFeeStart
               d == minMintFeeStart - maxMintFeeStart
               cut == (x * span) \div d
    <3>1. span \in Nat /\ x \in Nat /\ d \in Nat /\ d > 0 /\ x <= d /\ span <= maxMintFee
      BY <2>2
    <3>2. r = maxMintFee - cut
      BY <2>2 DEF openingFeeRate
    <3> HIDE DEF span, x, d, r
    <3>3. cut \in 0..span
      BY <3>1, Interpolation
    <3> HIDE DEF cut
    <3> QED BY <3>1, <3>2, <3>3
  <2> QED BY <2>1, <2>2
<1> QED BY <1>1, FeeOfNat DEF computeVariableOpeningFee

(* What a liquidation may repay is a natural when its debtor owes parts    *)
(* and the closing denominator is not zero.                                *)
LEMMA ClosingFactorNat ==
  ASSUME NEW total \in [elastic : Nat, base : Nat], total.base > 0,
         NEW part \in Nat, NEW inAsset \in Nat, closingDenominator # 0
  PROVE  computeClosingFactor(part, inAsset, total) \in Nat
<1> DEFINE debt == (part * total.elastic) \div total.base
           startsAt == feeOf(inAsset, liquidationCollateralizationRate)
           divisor == IF closingDenominator < 0 THEN -closingDenominator ELSE closingDenominator
           closing == ((debt - startsAt) * FEE_PRECISION) \div divisor
<1>1. debt \in Nat
  <2>1. part * total.elastic \in Nat /\ total.base \in Nat
    OBVIOUS
  <2> QED BY <2>1, FloorDiv
<1>2. startsAt \in Nat
  <2>1. liquidationCollateralizationRate \in Nat
    BY RateAssumption, PrecisionAssumption
  <2> QED BY <2>1, FeeOfNat
<1>3. divisor \in Nat /\ divisor > 0
  <2>1. closingDenominator \in Int
    <3>1. liquidationCollateralizationRate * (FEE_PRECISION + liquidationMultiplier) \in Nat
      BY RateAssumption, PrecisionAssumption
    <3> DEFINE y == liquidationCollateralizationRate * (FEE_PRECISION + liquidationMultiplier)
    <3>2. FEE_PRECISION \in Nat /\ FEE_PRECISION > 0
      BY PrecisionAssumption
    <3> HIDE DEF y
    <3>3. y \in Nat
      BY <3>1 DEF y
    <3>4. y \div FEE_PRECISION \in Nat
      BY <3>2, <3>3, FloorDiv
    <3>5. closingDenominator = FEE_PRECISION - (y \div FEE_PRECISION)
      BY DEF closingDenominator, y
    <3> QED BY <3>2, <3>4, <3>5
  <2> QED BY <2>1
<1>4. computeClosingFactor(part, inAsset, total)
        = IF debt < startsAt THEN 0 ELSE Least(closing, debt)
  BY DEF computeClosingFactor
<1>5. CASE debt < startsAt
  BY <1>4, <1>5
<1>6. CASE ~(debt < startsAt)
  <2> HIDE DEF debt, startsAt, divisor
  <2> DEFINE surplus == (debt - startsAt) * FEE_PRECISION
  <2>1. surplus \in Nat
    BY <1>1, <1>2, <1>6, PrecisionAssumption
  <2> HIDE DEF surplus
  <2>2. closing \in Nat
    BY <2>1, <1>3, FloorDiv DEF surplus
  <2> HIDE DEF closing
  <2> QED BY <1>1, <1>4, <1>6, <2>2, LeastNat
<1> QED BY <1>5, <1>6

(* The caller's reward is a fraction of the surplus. *)
LEMMA CallerRewardBounded ==
  ASSUME NEW total \in [elastic : Nat, base : Nat], total.base > 0,
         NEW part \in Nat, NEW share \in Nat, NEW rate \in Nat \ {0}
  PROVE  getCallerReward(part, share, total, rate) \in 0..FEE_PRECISION
<1> DEFINE maxTVL == collateralInAsset(share, rate)
           startTVL == feeOf(maxTVL, collateralizationRate)
           borrowed == (part * total.elastic) \div total.base
           x == borrowed - startTVL
           d == maxTVL - startTVL
           progress == (x * FEE_PRECISION) \div d
           span == maxLiquidatorReward - minLiquidatorReward
           cut == (span * progress) \div FEE_PRECISION
           reward == getCallerReward(part, share, total, rate)
<1>1. borrowed \in Nat
  <2>1. part * total.elastic \in Nat /\ total.base \in Nat
    OBVIOUS
  <2> QED BY <2>1, FloorDiv
<1>2. maxTVL \in Nat
  BY CollateralInAssetNat
<1>3. startTVL \in Nat
  <2>1. collateralizationRate \in Nat
    BY RateAssumption, PrecisionAssumption
  <2> HIDE DEF maxTVL
  <2> QED BY <1>2, <2>1, FeeOfNat
<1>4. /\ span \in Nat /\ FEE_PRECISION \in Nat /\ FEE_PRECISION > 0
      /\ minLiquidatorReward \in 0..FEE_PRECISION
      /\ maxLiquidatorReward \in 0..FEE_PRECISION
      /\ span <= maxLiquidatorReward
  BY RateAssumption, PrecisionAssumption
<1>5. reward = IF part = 0 \/ startTVL = 0 THEN 0
               ELSE IF borrowed < startTVL THEN 0
               ELSE IF borrowed >= maxTVL THEN minLiquidatorReward
               ELSE maxLiquidatorReward - cut
  BY DEF getCallerReward
<1> HIDE DEF maxTVL, startTVL, borrowed, reward
<1>6. CASE borrowed >= startTVL /\ borrowed < maxTVL
  <2>1. x \in Nat /\ d \in Nat /\ d > 0 /\ x <= d
    BY <1>1, <1>2, <1>3, <1>6
  <2> HIDE DEF x, d
  <2>2. progress \in 0..FEE_PRECISION
    BY <1>4, <2>1, Interpolation
  <2> HIDE DEF progress, span
  <2>3. progress * span \in Nat /\ span * progress = progress * span
    BY <1>4, <2>2
  <2>4. (progress * span) \div FEE_PRECISION \in 0..span
    BY <1>4, <2>2, Interpolation
  <2>5. cut \in 0..span
    BY <2>3, <2>4
  <2> HIDE DEF cut
  <2>6. maxLiquidatorReward - cut \in 0..FEE_PRECISION
    BY <1>4, <2>5
  <2>7. 0 \in 0..FEE_PRECISION
    BY <1>4
  <2> QED BY <1>4, <1>5, <2>6, <2>7, Zenon DEF reward
<1>7. CASE ~(borrowed >= startTVL /\ borrowed < maxTVL)
  <2>1. borrowed < startTVL \/ borrowed >= maxTVL
    BY <1>1, <1>2, <1>3, <1>7
  <2> HIDE DEF cut
  <2>2. 0 \in 0..FEE_PRECISION
    BY <1>4
  <2> QED BY <1>4, <1>5, <2>1, <2>2, Zenon DEF reward
<1> QED BY <1>6, <1>7

(* The caller of a liquidation is paid, rounded up to tokens, at most what *)
(* the liquidator returned over the debt it repaid.                        *)
LEMMA CallerPaidFromSurplus ==
  ASSUME NEW returned \in Nat, NEW amount \in Nat, NEW reward \in 0..FEE_PRECISION,
         toShare(returned) >= toShare(amount)
  PROVE  LET paid == toAmount(extractLiquidationFees(toShare(returned), toShare(amount),
                                                     reward).callerShare, TRUE)
         IN  amount <= returned /\ paid \in Nat /\ paid <= returned - amount
<1> DEFINE extra == IF toShare(returned) > toShare(amount)
                    THEN toShare(returned) - toShare(amount) ELSE 0
           surplus == returned - amount
           caller == feeOf(extra, reward)
           split == extractLiquidationFees(toShare(returned), toShare(amount), reward)
<1>1. SharesPerAmount \in Nat /\ SharesPerAmount > 0
  BY PrecisionAssumption
<1>2. amount <= returned
  <2>1. (returned + 1) * SharesPerAmount = returned * SharesPerAmount + SharesPerAmount
    BY <1>1
  <2>2. returned * SharesPerAmount \in Nat /\ amount * SharesPerAmount \in Nat
    BY <1>1
  <2>3. amount * SharesPerAmount < (returned + 1) * SharesPerAmount
    BY <1>1, <2>1, <2>2 DEF toShare
  <2>4. amount < returned + 1
    BY <1>1, <2>3, ProductCancels
  <2> QED BY <2>4
<1>3. surplus \in Nat /\ extra = toShare(surplus) /\ extra \in Nat
  <2>1. surplus \in Nat
    BY <1>2
  <2>2. toShare(surplus) = toShare(returned) - toShare(amount) /\ toShare(surplus) \in Nat
    BY <1>1, <2>1 DEF toShare
  <2>3. toShare(returned) \in Nat /\ toShare(amount) \in Nat
    BY <1>1 DEF toShare
  <2> QED BY <2>1, <2>2, <2>3
<1>4. split.callerShare = caller
  BY Zenon DEF extractLiquidationFees
<1> HIDE DEF extra, surplus, split
<1>5. caller \in Nat /\ caller <= toShare(surplus)
  BY <1>3, FeeOfBounded
<1> HIDE DEF caller
<1> DEFINE paid == toAmount(caller, TRUE)
<1>6. paid \in Nat /\ paid <= surplus
  BY <1>3, <1>5, RoundedUpTokens
<1>7. toAmount(split.callerShare, TRUE) = paid
  BY <1>4, Zenon
<1>8. paid <= returned - amount
  BY <1>6 DEF surplus
<1> QED BY <1>2, <1>6, <1>7, <1>8, Zenon DEF split

-----------------------------------------------------------------------------
(* What a liquidation takes. *)

(* The parts for less than all a user owes, rounded down, are parts the    *)
(* user has.                                                               *)
LEMMA PartialWithinPart ==
  ASSUME NEW E \in Nat, NEW B \in Nat, NEW p \in Nat, NEW a \in Nat, B > 0, E > 0,
         a < CeilDiv(p * E, B)
  PROVE  (a * B) \div E <= p
<1> DEFINE owed == CeilDiv(p * E, B)
           q == (a * B) \div E
<1>1. p * E \in Nat /\ a * B \in Nat
  OBVIOUS
<1>2. owed \in Nat /\ B * owed < p * E + B
  BY <1>1, CeilDivBounds
<1>3. q \in Nat /\ E * q <= a * B
  BY <1>1, FloorDiv
<1>4. a + 1 <= owed
  BY <1>2
<1> HIDE DEF owed, q
<1>5. (a + 1) * B <= owed * B
  BY <1>2, <1>4, ProductMonotone
<1>6. (a + 1) * B = a * B + B /\ owed * B = B * owed
  BY <1>2
<1>7. a * B < p * E
  BY <1>1, <1>2, <1>5, <1>6
<1>8. q * E < (p + 1) * E
  BY <1>1, <1>3, <1>7
<1>9. q < p + 1
  BY <1>3, <1>8, ProductCancels
<1> QED BY <1>3, <1>9 DEF q

(* A liquidation takes no more parts and no more collateral than its user  *)
(* has, and repays at least what the parts it takes are worth.             *)
LEMMA CutFacts ==
  ASSUME NEW total \in [elastic : Nat, base : Nat],
         total.base > 0, total.base <= total.elastic,
         NEW part \in Nat, part > 0, part <= total.base,
         NEW share \in Nat, NEW rate \in Nat \ {0},
         NEW limit \in Nat, NEW bonus \in Nat, closingDenominator # 0,
         NEW cut \in liquidationCut(part, share, total, rate, limit, bonus)
  PROVE  /\ cut.amount \in Nat /\ cut.amount <= total.elastic
         /\ cut.part \in Nat /\ cut.part <= part
         /\ cut.share \in Nat /\ cut.share <= share
         /\ total.base - cut.part <= total.elastic - cut.amount
         /\ cut.part * total.elastic <= total.base * cut.amount
         /\ cut.part > 0 /\ cut.amount > 0
<1> DEFINE inAsset == collateralInAsset(share, rate)
           owed == ToElastic(total, part, TRUE)
           factor == computeClosingFactor(part, inAsset, total)
           closable == Least(factor, owed)
           amount == Least(closable, limit)
           partTaken == IF amount = owed THEN part ELSE ToBase(total, amount, FALSE)
           taken == withBonus(amount)
           uncovered == inAsset < taken
           seized == toShare((taken * rate) \div EXCHANGE_RATE_PRECISION)
           shareTaken == IF uncovered THEN share ELSE seized
           E == total.elastic
           B == total.base
<1>1. /\ cut = [amount |-> amount, part |-> partTaken, share |-> shareTaken]
      /\ uncovered \/ seized <= share
      /\ partTaken > 0
  BY DEF liquidationCut, seizedFor
<1>2. E \in Nat /\ B \in Nat /\ B > 0 /\ E > 0 /\ B <= E /\ part <= B
  OBVIOUS
<1>3. owed \in Nat /\ owed = CeilDiv(part * E, B)
  <2>1. owed \in Nat
    BY ToElasticNat
  <2>2. B # 0
    BY <1>2
  <2>3. owed = CeilDiv(part * E, B)
    BY <2>2, Zenon DEF ToElastic, RoundedDiv
  <2> QED BY <2>1, <2>3
<1>4. amount \in Nat /\ amount <= owed
  <2>1. inAsset \in Nat
    BY CollateralInAssetNat
  <2> HIDE DEF inAsset
  <2>2. factor \in Nat
    BY <2>1, ClosingFactorNat
  <2> HIDE DEF factor, owed
  <2>3. closable \in Nat /\ closable <= owed
    BY <1>3, <2>2, LeastNat
  <2> HIDE DEF closable
  <2>4. amount \in Nat /\ amount <= closable
    BY <2>3, LeastNat
  <2> QED BY <1>3, <2>3, <2>4
<1> HIDE DEF amount, owed
<1>5. shareTaken \in Nat /\ shareTaken <= share
  <2>1. seized \in Nat
    <3>1. liquidationBonusAmount \in Nat
      BY RateAssumption, PrecisionAssumption
    <3>2. taken \in Nat
      <4>1. feeOf(amount, liquidationBonusAmount) \in Nat
        BY <1>4, <3>1, FeeOfNat, Zenon
      <4> QED BY <1>4, <4>1 DEF withBonus
    <3> HIDE DEF taken
    <3>3. taken * rate \in Nat
      BY <3>2
    <3> DEFINE value == taken * rate
    <3> HIDE DEF value
    <3>4. value \div EXCHANGE_RATE_PRECISION \in Nat
      BY <3>3, FloorDiv, PrecisionAssumption DEF value
    <3> QED BY <3>4, ShareRoundTrip DEF value
  <2>2. uncovered \/ seized <= share
    BY <1>1
  <2> HIDE DEF uncovered, seized
  <2>3. share <= share
    OBVIOUS
  <2> QED BY <2>1, <2>2, <2>3, Zenon
<1>6. amount <= E
  <2>1. owed <= E
    BY <1>2, <1>3, RepayRounding
  <2> QED BY <1>2, <1>3, <1>4, <2>1
<1>7. /\ partTaken \in Nat /\ partTaken <= part
      /\ B - partTaken <= E - amount
      /\ partTaken * E <= B * amount
  <2>1. CASE amount = owed
    <3>1. partTaken = part
      BY <2>1, Zenon
    <3>2. B - part <= E - CeilDiv(part * E, B) /\ part * E <= B * CeilDiv(part * E, B)
      BY <1>2, RepayRounding
    <3>3. amount = CeilDiv(part * E, B)
      BY <1>3, <2>1
    <3>4. part <= part
      OBVIOUS
    <3> HIDE DEF partTaken, E, B
    <3> QED BY <3>1, <3>2, <3>3, <3>4, Zenon
  <2>2. CASE amount # owed
    <3>1. E # 0
      BY <1>2
    <3>2. partTaken = (amount * B) \div E
      BY <2>2, <3>1, Zenon DEF ToBase, RoundedDiv
    <3>3. amount < CeilDiv(part * E, B)
      BY <1>3, <1>4, <2>2
    <3> HIDE DEF E, B, partTaken
    <3>4. (amount * B) \div E <= part
      BY <1>2, <1>4, <3>3, PartialWithinPart
    <3>5. /\ (amount * B) \div E \in Nat
          /\ B - (amount * B) \div E <= E - amount
          /\ E * ((amount * B) \div E) <= amount * B
      BY <1>2, <1>4, <1>6, LiquidationRounding
    <3>6. partTaken \in Nat /\ partTaken <= part
          /\ B - partTaken <= E - amount /\ E * partTaken <= amount * B
      BY <3>2, <3>4, <3>5, Zenon
    <3>7. E * partTaken = partTaken * E /\ amount * B = B * amount
      BY <1>2, <1>4, <3>6
    <3> QED BY <3>6, <3>7
  <2> QED BY <2>1, <2>2
<1> HIDE DEF partTaken, shareTaken
<1>8. partTaken > 0 /\ amount > 0
  <2>1. partTaken > 0
    BY <1>1
  <2> HIDE DEF E, B
  <2>2. amount # 0
    BY <1>2, <1>7, <2>1
  <2> QED BY <1>4, <2>1, <2>2
<1>9. cut.amount = amount /\ cut.part = partTaken /\ cut.share = shareTaken
  BY <1>1
<1> QED BY <1>4, <1>5, <1>6, <1>7, <1>8, <1>9

(* What a liquidation takes is worth no more than its amount and the bonus. *)
LEMMA CutWorth ==
  ASSUME NEW part, NEW share \in Nat, NEW total, NEW rate \in Nat \ {0}, NEW limit, NEW bonus,
         NEW cut \in liquidationCut(part, share, total, rate, limit, bonus), cut.amount \in Nat
  PROVE  collateralInAsset(cut.share, rate) <= withBonus(cut.amount)
<1> DEFINE amount == cut.amount
           worth == withBonus(amount)
           tokens == (worth * rate) \div EXCHANGE_RATE_PRECISION
<1>1. \/ collateralInAsset(share, rate) < worth /\ cut.share = share
      \/ cut.share = toShare(tokens)
  <2> DEFINE inAsset == collateralInAsset(share, rate)
             owed == ToElastic(total, part, TRUE)
             taken == Least(Least(computeClosingFactor(part, inAsset, total), owed), limit)
             parts == IF taken = owed THEN part ELSE ToBase(total, taken, FALSE)
             seized == IF inAsset < withBonus(taken) THEN share
                       ELSE toShare((withBonus(taken) * rate) \div EXCHANGE_RATE_PRECISION)
  <2>1. cut = [amount |-> taken, part |-> parts, share |-> seized]
    BY DEF liquidationCut, seizedFor
  <2> HIDE DEF taken, parts
  <2>2. cut.amount = taken /\ cut.share = seized
    BY <2>1
  <2> QED BY <2>2
<1>2. collateralInAsset(share, rate) \in Nat
  BY CollateralInAssetNat
<1>3. worth \in Nat
  <2>1. liquidationBonusAmount \in Nat
    BY RateAssumption, PrecisionAssumption
  <2>2. feeOf(amount, liquidationBonusAmount) \in Nat
    BY <2>1, FeeOfNat, Zenon
  <2> QED BY <2>2 DEF withBonus
<1>4. EXCHANGE_RATE_PRECISION \in Nat \ {0}
  BY PrecisionAssumption
<1> HIDE DEF amount, worth
<1>5. CASE collateralInAsset(share, rate) < worth /\ cut.share = share
  BY <1>2, <1>3, <1>5 DEF worth, amount
<1>6. CASE cut.share = toShare(tokens)
  <2>1. tokens \in Nat /\ tokens * EXCHANGE_RATE_PRECISION <= worth * rate
    <3>1. worth * rate \in Nat
      BY <1>3
    <3> QED BY <1>4, <3>1, FloorDiv
  <2> HIDE DEF tokens
  <2>2. toAmount(toShare(tokens), FALSE) = tokens
    BY <2>1, ShareRoundTrip
  <2> DEFINE value == tokens * EXCHANGE_RATE_PRECISION
             q == value \div rate
  <2>3. value \in Nat /\ value <= worth * rate
    BY <1>4, <2>1
  <2>4. collateralInAsset(cut.share, rate) = q
    BY <1>6, <2>2 DEF collateralInAsset
  <2> HIDE DEF value
  <2>5. q \in Nat /\ q * rate <= value
    BY <2>3, FloorDiv
  <2> HIDE DEF q
  <2>6. q <= worth
    BY <1>3, <2>3, <2>5, ProductCancels
  <2> QED BY <2>4, <2>6 DEF worth, amount
<1> QED BY <1>1, <1>5, <1>6

(* Fewer parts that are not dearer, against no fewer shares, need no more. *)
LEMMA SolventWithLess ==
  ASSUME NEW p \in Nat, NEW q \in Nat, q <= p, NEW s \in Nat, NEW t \in Nat, s <= t,
         NEW total \in [elastic : Nat, base : Nat], NEW after \in [elastic : Nat, base : Nat],
         total.base > 0, after.base > 0,
         after.elastic * total.base <= total.elastic * after.base,
         NEW rate \in Nat, isSolvent(p, s, total, rate, FALSE)
  PROVE  isSolvent(q, t, after, rate, FALSE)
<1> SUFFICES ASSUME q # 0 PROVE isSolvent(q, t, after, rate, FALSE)
  BY DEF isSolvent
<1> DEFINE E == total.elastic
           B == total.base
           F == after.elastic
           C == after.base
           need == (p * E * rate) \div B
           needed == (q * F * rate) \div C
           cr == collateralizationRate
           unit == EXCHANGE_RATE_PRECISION \div FEE_PRECISION
           have == toAmount(s, FALSE)
           has == toAmount(t, FALSE)
<1>1. E \in Nat /\ B \in Nat \ {0} /\ F \in Nat /\ C \in Nat \ {0} /\ F * B <= E * C
  OBVIOUS
<1>2. cr \in Nat /\ unit \in Nat
  BY RateAssumption, PrecisionAssumption, FloorDiv
<1>3. have \in Nat /\ has \in Nat /\ have <= has
  <2>1. have \in Nat /\ has \in Nat
    BY WholeTokens
  <2>2. have = s \div SharesPerAmount /\ has = t \div SharesPerAmount
    BY DEF toAmount, RoundedDiv
  <2>3. SharesPerAmount \in Nat /\ SharesPerAmount > 0
    BY PrecisionAssumption
  <2> HIDE DEF have, has
  <2> QED BY <2>2, <2>3
<1>4. s # 0 /\ have * unit * cr >= need
  <2>1. p # 0
    OBVIOUS
  <2> QED BY <2>1, Zenon DEF isSolvent
<1> HIDE DEF E, B, F, C, cr, unit, have, has
<1>5. needed <= need /\ needed \in Nat /\ need \in Nat
  <2> DEFINE x == p * E * rate
             y == q * F * rate
  <2>1. x \in Nat /\ y \in Nat
    BY <1>1
  <2>2. y * B <= x * C
    <3>1. q * (F * B) <= p * (E * C)
      <4>1. q * (F * B) <= q * (E * C)
        BY <1>1
      <4>2. q * (E * C) <= p * (E * C)
        BY <1>1
      <4> QED BY <1>1, <4>1, <4>2
    <3>2. (q * (F * B)) * rate <= (p * (E * C)) * rate
      BY <1>1, <3>1
    <3>3. y * B = (q * (F * B)) * rate /\ x * C = (p * (E * C)) * rate
      BY <1>1
    <3> QED BY <3>2, <3>3
  <2> HIDE DEF x, y
  <2>3. /\ need \in Nat /\ needed \in Nat
        /\ B * need <= x /\ x < B * (need + 1) /\ C * needed <= y
    BY <1>1, <2>1, FloorDiv DEF x, y
  <2> HIDE DEF need, needed
  <2>4. needed * (B * C) < (need + 1) * (B * C)
    <3>1. (C * needed) * B <= y * B /\ x * C < (B * (need + 1)) * C
      BY <1>1, <2>1, <2>3
    <3>2. (C * needed) * B = needed * (B * C) /\ (B * (need + 1)) * C = (need + 1) * (B * C)
      BY <1>1, <2>3
    <3>3. y * B \in Nat /\ x * C \in Nat /\ needed * (B * C) \in Nat
          /\ (need + 1) * (B * C) \in Nat
      BY <1>1, <2>1, <2>3
    <3> QED BY <2>2, <3>1, <3>2, <3>3
  <2>5. needed < need + 1
    BY <1>1, <2>3, <2>4, ProductCancels
  <2> QED BY <2>3, <2>5
<1>6. has * unit * cr >= have * unit * cr
  BY <1>2, <1>3
<1> HIDE DEF need, needed
<1>7. has * unit * cr >= needed
  BY <1>2, <1>3, <1>4, <1>5, <1>6
<1>8. t # 0
  BY <1>4
<1> QED BY <1>7, <1>8 DEF isSolvent, needed, F, C, cr, unit, has

(* Whom a liquidation takes from was not solvent by the stricter measure   *)
(* of loans.                                                               *)
LEMMA SolventNotLiquidated ==
  ASSUME NEW p \in Nat, NEW s \in Nat, NEW total \in [elastic : Nat, base : Nat],
         NEW rate \in Nat, total.base > 0, isSolvent(p, s, total, rate, FALSE)
  PROVE  isSolvent(p, s, total, rate, TRUE)
<1> DEFINE need == (p * total.elastic * rate) \div total.base
           tokens == toAmount(s, FALSE)
           unit == EXCHANGE_RATE_PRECISION \div FEE_PRECISION
           have == tokens * unit
           cr == collateralizationRate
           lcr == liquidationCollateralizationRate
<1>1. cr \in Nat /\ lcr \in Nat /\ cr <= lcr
  BY RateAssumption, PrecisionAssumption
<1>2. have \in Nat
  <2>1. tokens \in Nat
    BY WholeTokens
  <2>2. unit \in Nat
    BY PrecisionAssumption, FloorDiv
  <2> HIDE DEF tokens, unit
  <2> QED BY <2>1, <2>2
<1>3. need \in Nat
  <2>1. p * total.elastic * rate \in Nat /\ total.base \in Nat
    OBVIOUS
  <2> QED BY <2>1, FloorDiv
<1>4. p = 0 \/ (s # 0 /\ have * cr >= need)
  BY Zenon DEF isSolvent
<1> HIDE DEF need, tokens, unit, have, cr, lcr
<1>5. have * lcr >= have * cr
  BY <1>1, <1>2
<1>6. p = 0 \/ (s # 0 /\ have * lcr >= need)
  BY <1>1, <1>2, <1>3, <1>4, <1>5
<1> QED BY <1>6 DEF isSolvent, tokens, unit, have, need, lcr

=============================================================================
