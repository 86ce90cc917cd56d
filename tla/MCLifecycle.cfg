SPECIFICATION FairSpec
CONSTANTS
    RiskEnabled = TRUE
    MaxConsecutiveFailures = 2
    MaxDailyLossUsd = 2
    MaxOperationUsd = 1000
    Ops = {o1, o2}
    NoOp = NoOp
    Keys = {"k1", "k2"}
    Plans <- WholePlans
    NoPlan = NoPlan
    SettingsRows <- QueueSettings
    NoRow = NoRow
    CliManual = TRUE
    CliCooldown = 0
    MaxOps = 2
    ExecutorReady = TRUE
    AgeCap = 0
    MaxFaults = 1
INVARIANTS
    TypeOK
    OneAttemptPerApproval
    NoOrphanWithoutFault
    FailedOnlyByFault
PROPERTIES
    ImplementsLifecycle
    ApprovedIsServed
    CancelOverriddenOnlyInBatch
