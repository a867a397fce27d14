\* Leverage both ways, skims and donations with one pause option flipping, on
\* a market whose debt gains interest: nobody's deposit or sale hurts another.
CONSTANTS
  u1 = u1
  u2 = u2
  Users = {u1, u2}
  UINT128_MAX = 6
  FEE_PRECISION = 4
  EXCHANGE_RATE_PRECISION = 4
  SharesPerAmount = 3
  collateralizationRate = 2
  liquidationCollateralizationRate = 3
  liquidationMultiplier = 1
  liquidationBonusAmount = 2
  minLiquidatorReward = 1
  maxLiquidatorReward = 3
  maxLiquidationSlippage = 1
  minMintFee = 0
  maxMintFee = 1
  minMintFeeStart = 4
  maxMintFeeStart = 2
  BorrowAmounts = {}
  RepayParts = {2}
  AddAmounts = {0,2}
  AddShares = {0, 1}
  RemoveShares = {4}
  LeverageAmounts = {0, 2}
  SwapOutputs = {1, 4}
  MaxBorrowParts = {}
  MinBonuses = {}
  Donations = {1}
  ExchangeRates = {4, 6}
  AssetPrices = {4}
  DebtRates = {1}
  DEBT_PRECISION = 4
  Pausable = {"AddCollateral"}
  minBorrowAmount = 1
  minCollateralAmount = 1
  totalBorrowCap = 8
  OutsideUsdo = 1
  MaxElapsed = 1
  MaxCollateral = 18
SPECIFICATION Spec
SYMMETRY UserSymmetry
CHECK_DEADLOCK FALSE
INVARIANTS CollateralCustody
PROPERTIES OnlyPriceOrInterestEndangers
