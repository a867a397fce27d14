\* The market of BigBang_borrow.cfg, where the asset trades below its peg and
\* loans cost an opening fee, with the interest minted at any time.
CONSTANTS
  u1 = u1
  u2 = u2
  Users = {u1, u2}
  UINT128_MAX = 8
  FEE_PRECISION = 4
  EXCHANGE_RATE_PRECISION = 4
  SharesPerAmount = 2
  collateralizationRate = 2
  liquidationCollateralizationRate = 3
  liquidationMultiplier = 1
  liquidationBonusAmount = 1
  minLiquidatorReward = 2
  maxLiquidatorReward = 3
  maxLiquidationSlippage = 1
  minMintFee = 0
  maxMintFee = 2
  minMintFeeStart = 4
  maxMintFeeStart = 2
  BorrowAmounts = {3}
  RepayParts = {1, 12}
  AddAmounts = {0}
  AddShares = {13}
  RemoveShares = {13}
  LeverageAmounts = {}
  SwapOutputs = {}
  MaxBorrowParts = {}
  MinBonuses = {}
  Donations = {}
  ExchangeRates = {4, 6}
  AssetPrices = {2, 4}
  DebtRates = {1}
  DEBT_PRECISION = 4
  Pausable = {}
  minBorrowAmount = 1
  minCollateralAmount = 1
  totalBorrowCap = 0
  OutsideUsdo = 0
  MaxElapsed = 1
  MaxCollateral = 39
SPECIFICATION Spec
CHECK_DEADLOCK FALSE
PROPERTIES SupplyFullyMinted
