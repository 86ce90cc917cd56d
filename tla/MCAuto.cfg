SPECIFICATION Spec
CONSTANTS
    RiskEnabled = TRUE
    MaxConsecutiveFailures = 2
    MaxDailyLossUsd = 2
    MaxOperationUsd = 80
    Ops = {o1}
    NoOp = NoOp
    Keys = {"k1", "k2"}
    Plans <- AutoPlans
    NoPlan = NoPlan
    SettingsRows <- AutoSettings
    NoRow = NoRow
    CliManual = FALSE
    CliCooldown = 1
    MaxOps = 2
    ExecutorReady = TRUE
    AgeCap = 2
    MaxFaults = 2
INVARIANTS
    BreakerOpenExactlyWhenTripped
    NoStepBehindOpenBreaker
PROPERTIES
    AutoRunsAreSpaced
