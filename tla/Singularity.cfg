\* Two users who lend and borrow, interest at rates that move, an opening fee, a
\* price that endangers and clears, one pause, skims and donations.  A token is
\* two shares and what is lent and locked is odd, so that every rounding happens.
CONSTANTS
  u1 = u1
  u2 = u2
  Users = {u1, u2}
  Penrose = Penrose
  UINT128_MAX = 15
  FEE_PRECISION = 4
  EXCHANGE_RATE_PRECISION = 4
  SharesPerAmount = 2
  collateralizationRate = 2
  liquidationCollateralizationRate = 3
  liquidationMultiplier = 1
  liquidationBonusAmount = 1
  minLiquidatorReward = 1
  maxLiquidatorReward = 3
  maxLiquidationSlippage = 1
  minMintFee = 0
  maxMintFee = 1
  minMintFeeStart = 4
  maxMintFeeStart = 2
  LendShares = {9}
  RemoveFractions = {9}
  BorrowAmounts = {2}
  RepayParts = {3, 9}
  AddAmounts = {0}
  AddShares = {17}
  RemoveShares = {17}
  LeverageAmounts = {2}
  SwapOutputs = {4}
  MaxBorrowParts = {8}
  MinBonuses = {1}
  AssetDonations = {9}
  CollateralDonations = {17}
  ExchangeRates = {2, 9}
  Pausable = {"Borrow"}
  borrowOpeningFee = 2
  protocolFee = 4
  minLendAmount = 1
  minBorrowAmount = 1
  minCollateralAmount = 1
  totalBorrowCap = 7
  MinFractions = 2
  INTEREST_PRECISION = 6
  UTILIZATION_PRECISION = 4
  minimumTargetUtilization = 1
  maximumTargetUtilization = 2
  minimumInterestPerSecond = 1
  maximumInterestPerSecond = 2
  startingInterestPerSecond = 2
  interestElasticity = 4
  MaxElapsed = 1
  MaxDebt = 3
  MaxAssets = 10
  MaxCollateral = 17
SPECIFICATION Spec
SYMMETRY UserSymmetry
INVARIANTS TypeOK FractionsSum PositionsSum Custody
PROPERTIES LendersNeverLose DebtPerPartGrowsOnlyWithTime OnlyPriceOrInterestEndangers
