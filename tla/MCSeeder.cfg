SPECIFICATION Spec
CONSTANTS
    Assets <- TwoAssets
    Pools = {"WZSD-USDT", "WZEPH-WZSD"}
    Needs <- PoolNeeds
    Selections <- AllOrOne
    EngineAssets = {"ZSD"}
    Seeders = {cli, web}
    MaxRuns = 2
    MaxTroubles = 1
INVARIANTS
    TypeOK
    OwnWrapsAreClaimed
    FailsOnlyByTrouble
SYMMETRY Symmetry
CHECK_DEADLOCK FALSE
