SPECIFICATION MarketSpec
CONSTANTS
    Sockets = {1, 2, 3}
    Polls = {"p1"}
    MaxTime = 2
    MaxFrames = 1
    MaxLosses = 2
    FlushEvery = 2
    RowsMaxTime = 6
    MaxFailures = 1
    FirstAmount = 16
    LeastAmount = 2
    ClosePrices = {1, 3}
    Tolerance = 1
    MaxEvaluations = 6
    MaxExpansions = 3
    EvmMaxAge = 1
    CexMaxAge = 0
    StateMaxTime = 2
    MaxTroubles = 1
    Orders = {"r1", "r2"}
    Amounts <- MCAmounts
    Quantities = {1, 3}
    Openings <- MCOpenings
    Prices = {1000, 2000}
    MaxEvents = 3
    Requests = {"r1", "r2"}
    Edited = {1, 2}
    MaxEdits = 3
    MaxRevision = 3
    Mounts = {1}
    MaxQueue = 2
    MaxHitches = 1
    ReserveMaxTime = 6
    MaxPolls = 2
    MaxMishaps = 1
    Tabled = {"ZEPH"}
    Held = {0, 3}
    Posts = {"q1", "q2"}
    Transfers <- MCTransfers
    TableTroubles = 1
    QuoteCases <- MCQuoteCases
    PathCases <- MCPathCases
    PlanCases <- MCPlanCases
    PoolCases <- MCPoolCases
    BandCases <- MCBandCases
    DepthCases <- MCDepthCases
    RootAt <- MCRootAt
    Holdings <- MCHoldings
    Markets <- MCMarkets
    LpMarkets <- MCLpMarkets
    Books <- MCBooks
    LeastTick <- MCLeastTick
    Gaps <- MCGaps
    Ratios <- MCRatios
INVARIANTS
    MarketTypeOK
    OneConnection
    RowsTellTheirSource
    PlansUsePermittedConversions
    ClipIsNearestSample
    FreshStateIsVouchedFor
    ChosenPoolIsPriced
    
    
    LiquidityAddsUp
    ExactOutIsEnough
    NoPathMakesValue
    UnlimitedPlansAreFunded
PROPERTIES
    BooksKeepTheirOrder
    ConnectionIsReplaced
    AdjustmentsSettle
CHECK_DEADLOCK FALSE
