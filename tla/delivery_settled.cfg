SPECIFICATION FairPipelineSpec
CONSTANTS
    Recipients = {r1, r2}
    Files = {f1}
    None = None
    Clients = {c1}
    Operations <- SettledOps
    MaxThreshold = 2
    Hours <- OneHour
    MaxTime = 2
    Crashes = FALSE
    StoreErrors = FALSE
    Functions = {s1}
    Jobs = {j1}
    MaxEvents = 1
    MaxAttempts = 2
    MaxFaults = 1
    Schedules <- NoOverlap
    Faults <- RecoverableFaults
INVARIANTS
    PackagesMatchVault
PROPERTIES
    ClaimWaitsForDeadline
    ImplementsLifecycle
    DeliveryHappens
CHECK_DEADLOCK FALSE
