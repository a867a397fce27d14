\* Two borrowers and a rate that moves from healthy to liquidatable, to
\* covered only without the whole bonus, to bad debt; skims and donations.
CONSTANTS
  u1 = u1
  u2 = u2
  Users = {u1, u2}
  UINT128_MAX = 8
  FEE_PRECISION = 4
  EXCHANGE_RATE_PRECISION = 4
  SharesPerAmount = 2
  collateralizationRate = 1
  liquidationCollateralizationRate = 2
  liquidationMultiplier = 1
  liquidationBonusAmount = 2
  minLiquidatorReward = 1
  maxLiquidatorReward = 3
  maxLiquidationSlippage = 1
  minMintFee = 0
  maxMintFee = 1
  minMintFeeStart = 4
  maxMintFeeStart = 2
  BorrowAmounts = {4}
  RepayParts = {}
  AddAmounts = {0}
  AddShares = {33}
  RemoveShares = {}
  LeverageAmounts = {}
  SwapOutputs = {2, 5}
  MaxBorrowParts = {2, 8}
  MinBonuses = {0, 1}
  Donations = {33}
  ExchangeRates = {4, 10, 12, 14}
  AssetPrices = {4}
  DebtRates = {0}
  DEBT_PRECISION = 4
  Pausable = {}
  minBorrowAmount = 1
  minCollateralAmount = 1
  totalBorrowCap = 8
  OutsideUsdo = 1
  MaxElapsed = 0
  MaxCollateral = 66
SPECIFICATION Spec
SYMMETRY UserSymmetry
CHECK_DEADLOCK FALSE
INVARIANTS CollateralCustody
PROPERTIES FeesLeaveOnlyToPenrose LiquidationSeizesAtMostBonus
