SPECIFICATION FairSpec
CONSTANTS
    Assets <- AllAssets
    Plans <- AllPlans
    Initially <- Inventory
    ExchangePrice = 2
    UnwrapFeeBps = 100
    Slips <- AroundEstimate
    Precision = 3
    MaxTroubles = 2
INVARIANTS
    TypeOK
    OnlyLostAnswersSpendSilently
    SuccessMeansDone
    RoundTripsPayForThemselves
    RebalancingMovesItsAmount
PROPERTIES
    EveryPlanEnds
CHECK_DEADLOCK FALSE
