\* Any two tasks or calls on a market that go through, from every way to
\* initialise it; a token deployed again, a run too many and a crash, on a
\* chain that is no testnet; two swappers, a hasty run and a crash; two runs
\* of the flow against the markets it is written for.
SPECIFICATION Spec
CONSTANTS
    Groups = {"market", "assets", "swapper", "flow"}
    MaxCrashes = 1
    FEE_PRECISION = 20
    MAX_DEBT_RATE = 8
    Defaults <- MCDefaults
    InitValues <- MCInitValues
    Entered = {16, 19}
    Touched = {"minLiquidatorReward", "maxLiquidatorReward", "collateralizationRate", "liquidationCollateralizationRate"}
    Prompted = {"protocolFee", "liquidationBonusAmount", "maxLiquidatorReward"}
    DebtRates = {1, 4}
    Starts = {7, 9}
    Addresses = {30}
    PauseTypes = {Borrow}
    Prices = {6, 7, 8, 9, 10, 11}
    EthDebt = 2
    DEBT_PRECISION = 4
    MaxDebt = 2
    MaxChanges = 2
    Tofts <- MCTofts
    Mocks = {"WETHMock"}
    Specifics = {"TapiocaOFTm"}
    Terms = {"", "TapiocaOFT"}
    Matches <- MCMatches
    SpecificTerms = {""}
    Redeployable = {"TapiocaOFT"}
    Testnet = FALSE
    MaxRedeployed = 1
    MaxRegistrations = 1
    MaxDeployed = 2
    MaxHasty = 1
    Full = 20
    Some = 2
    MintLimit = 20
    Worth <- MCWorth
    Fees <- MCFees
    Interest = {1}
    MaxCharged = 2
    UINT128_MAX = 1000
    EntryPoints = TRUE
    MaxRuns = 2
INVARIANTS
    TypeOK
    SettingsStayValid
    DoneMeansRegistered
    TokensAccounted
    FlowWaits
PROPERTIES
    TasksComplete
CHECK_DEADLOCK FALSE
