SPECIFICATION FairSpec
CONSTANTS
    RiskEnabled = TRUE
    MaxConsecutiveFailures = 2
    MaxDailyLossUsd = 2
    MaxOperationUsd = 1000
    Ops = {o1}
    NoOp = NoOp
    Keys = {"k1", "k2"}
    Plans <- QueuePlans
    NoPlan = NoPlan
    SettingsRows <- QueueSettings
    NoRow = NoRow
    CliManual = TRUE
    CliCooldown = 0
    MaxOps = 1
    ExecutorReady = TRUE
    AgeCap = 0
    MaxFaults = 0
PROPERTY ApprovedIsServed
