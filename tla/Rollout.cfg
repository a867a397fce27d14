\* The three scripts, each with a crash and a batch that is late anywhere. The
\* first on Arbitrum Sepolia with a second deployment and a task of the owner,
\* the second on a testnet with two markets and an oracle that jumps and fails
\* between quote and batch, the last on a side chain and the host.
SPECIFICATION Spec
CONSTANTS
    Scripts = {"deployPostLbp_1", "deployPostLbp_2", "deployFinal"}
    MaxCrashes = 1
    MaxLate = 1
    BBs = {mtETH, tReth, bbUsdc}
    SGLs = {tSGLP, sglUsdc}
    Mocks = {bbUsdc, sglUsdc}
    EthMarket = mtETH
    UsdcMock = UsdcMock
    OriginsToken = OriginsToken
    Weth = Weth
    NoId = NoId
    NoMarket = NoMarket
    Caps = {1, 2}
    ConfiguredCap = 1
    IsHost = TRUE
    IsTestnet = TRUE
    HasGlpStrat = TRUE
    HasUsdcMock = TRUE
    MaxDeployments = 2
    MaxStrats = 3
    MaxOwnerTasks = 1
    PRECISION = 8
    PERCENT = 4
    CR = 3
    Rates = {2, 3}
    MinBorrow = 2
    EthAmounts = {0, 3}
    Deltas = {1, 3}
    TestnetMint = 1
    MaxOrigins = 2
    MaxFunds = 6
    LendSide = 1
    WrapSide = 1
    LendHost = 2
    WrapHost = 1
    ReceiptsPer = 2
    MaxRounds = 1
INVARIANTS
    TypeOK
    MarketsFit
    DoneMeansDone
    MintedIsOwed
    DeltaHolds
    ReceiptsBacked
PROPERTIES
    CapsAreTheOwners
    IsStagedRollout
    RolloutCompletes
CHECK_DEADLOCK FALSE
