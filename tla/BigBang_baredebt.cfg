\* One borrower whose collateral falls below the debt plus the bonus, but not
\* below the debt, and a liquidator who repays one token less than all of it.
CONSTANTS
  u1 = u1
  Users = {u1}
  UINT128_MAX = 8
  FEE_PRECISION = 4
  EXCHANGE_RATE_PRECISION = 4
  SharesPerAmount = 1
  collateralizationRate = 1
  liquidationCollateralizationRate = 2
  liquidationMultiplier = 1
  liquidationBonusAmount = 2
  minLiquidatorReward = 1
  maxLiquidatorReward = 3
  maxLiquidationSlippage = 1
  minMintFee = 0
  maxMintFee = 1
  minMintFeeStart = 4
  maxMintFeeStart = 2
  BorrowAmounts = {7}
  RepayParts = {}
  AddAmounts = {0}
  AddShares = {28}
  RemoveShares = {}
  LeverageAmounts = {}
  SwapOutputs = {6}
  MaxBorrowParts = {6}
  MinBonuses = {1}
  Donations = {}
  ExchangeRates = {4, 14}
  AssetPrices = {4}
  DebtRates = {0}
  DEBT_PRECISION = 4
  Pausable = {}
  minBorrowAmount = 1
  minCollateralAmount = 1
  totalBorrowCap = 8
  OutsideUsdo = 1
  MaxElapsed = 0
  MaxCollateral = 28
SPECIFICATION Spec
CHECK_DEADLOCK FALSE
INVARIANTS NoBareDebt
