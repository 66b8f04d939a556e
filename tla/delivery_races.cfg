SPECIFICATION PipelineSpec
CONSTANTS
    Recipients = {r1}
    Files = {}
    None = None
    Clients = {c1}
    Operations <- EndOps
    MaxThreshold = 1
    Hours <- OneHour
    MaxTime = 1
    Crashes = FALSE
    StoreErrors = FALSE
    Functions = {s1, s2}
    Jobs = {j1, j2}
    MaxEvents = 2
    MaxAttempts = 2
    MaxFaults = 1
    Schedules <- EveryOverlap
    Faults <- EveryFault
SYMMETRY PipelineSymmetry
INVARIANTS
    PipelineTypeOK
    DocumentConsistent
    DeliveryNeedsExpiredGrace
    PackagesAreUploaded
PROPERTIES
    DeletedStaysDeleted
CHECK_DEADLOCK FALSE
