\* The ETH market and another, registered, unregistered under either type
\* and registered again, while they charge interest that Penrose mints.
CONSTANTS
  e = e
  a = a
  Markets = {e, a}
  MainMarkets = {e}
  None = None
  deployedMin = 1
  deployedMax = 2
  deployedRatio = 1
  InitialConfig <- MCInitialConfig
  DEBT_PRECISION = 2
  SECONDS_PER_YEAR = 1
  MaxDebt = 3
  Amounts = {1}
  Fees = {1}
  EthRates = {1}
  NewMinRates = {}
  NewMaxRates = {}
  NewRatios = {}
  OutsideUsdo = 0
  MaxElapsed = 1
  MaxListed = 3
SPECIFICATION Spec
CHECK_DEADLOCK FALSE
INVARIANTS RegisteredAreListed
PROPERTIES ImplementsLedger
