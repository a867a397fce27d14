\* The ETH market and another one whose rate moves with both debts, with all
\* settings and pauses changing and time passing in between.
CONSTANTS
  e = e
  a = a
  Markets = {e, a}
  MainMarkets = {e}
  None = None
  deployedMin = 1
  deployedMax = 3
  deployedRatio = 4
  InitialConfig <- MCInitialConfig
  DEBT_PRECISION = 4
  SECONDS_PER_YEAR = 1
  MaxDebt = 4
  Amounts = {2}
  Fees = {0}
  EthRates = {1, 2}
  NewMinRates = {0}
  NewMaxRates = {0, 2}
  NewRatios = {0}
  OutsideUsdo = 0
  MaxElapsed = 1
  MaxListed = 2
SPECIFICATION Spec
CHECK_DEADLOCK FALSE
INVARIANTS TypeOK RatesInBounds
PROPERTIES RateNotRetroactive
