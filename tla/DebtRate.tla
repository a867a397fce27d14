------------------------------ MODULE DebtRate ------------------------------
(***************************************************************************)
(* What a BigBang market charges per year: BBDebtRateHelper, and the       *)
(* interest _accrue takes of a debt at that rate.                          *)
(*                                                                         *)
(* A market pays between its own minimum and maximum, the more the larger  *)
(* its debt is compared to a fraction of the ETH market's debt.            *)
(***************************************************************************)
EXTENDS Integers

CONSTANTS
  DEBT_PRECISION,    \* 1e18
  SECONDS_PER_YEAR,  \* 31557600; the time unit of `elapsed` is a second
  MaxDebt            \* type(uint128).max

ASSUME DebtRateAssumption ==
  /\ DEBT_PRECISION \in Nat \ {0}
  /\ SECONDS_PER_YEAR \in Nat \ {0}
  /\ MaxDebt \in Nat

RateConfig == [min : Nat, max : Nat, againstEth : Nat]

(* WRONG, for TLC to refute: the share of the range not added to the       *)
(* minimum.                                                                *)
getDebtRateOfRange(config, own, ethDebt) ==
  LET maxDebtPoint == (ethDebt * config.againstEth) \div DEBT_PRECISION
      percentage   == (own * DEBT_PRECISION) \div maxDebtPoint
  IN  IF own = 0 THEN config.min
      ELSE IF own >= maxDebtPoint THEN config.max
      ELSE ((config.max - config.min) * percentage) \div DEBT_PRECISION

(* The rate of a market that is not the ETH market, which owes `own`. *)
getDebtRate(config, own, ethDebt) ==
  LET maxDebtPoint == (ethDebt * config.againstEth) \div DEBT_PRECISION
      percentage   == (own * DEBT_PRECISION) \div maxDebtPoint
      rate         == ((config.max - config.min) * percentage) \div DEBT_PRECISION + config.min
  IN  IF own = 0 THEN config.min
      ELSE IF own >= maxDebtPoint \/ rate > config.max THEN config.max
      ELSE rate

(* WRONG: interest that takes the debt out of its uint128. *)
interestOnUncapped(debt, rate, time) ==
  (debt * (rate \div SECONDS_PER_YEAR) * time) \div DEBT_PRECISION

(* The interest on a debt; the rate per second is truncated before it is   *)
(* multiplied, and the debt stays a uint128.                               *)
interestOn(debt, rate, time) ==
  LET extra == (debt * (rate \div SECONDS_PER_YEAR) * time) \div DEBT_PRECISION
  IN  IF time = 0 THEN 0
      ELSE IF extra <= MaxDebt - debt THEN extra ELSE MaxDebt - debt

=============================================================================
