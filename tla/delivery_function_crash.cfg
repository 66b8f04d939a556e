SPECIFICATION PipelineSpec
CONSTANTS
    Recipients = {r1}
    Files = {}
    None = None
    Clients = {c1}
    Operations <- LoneRequest
    MaxThreshold = 1
    Hours <- OneHour
    MaxTime = 1
    Crashes = FALSE
    StoreErrors = FALSE
    Functions = {s1}
    Jobs = {j1}
    MaxEvents = 1
    MaxAttempts = 2
    MaxFaults = 1
    Schedules <- NoOverlap
    Faults <- FunctionCrashes
PROPERTIES
    ArchivedIsFinal
CHECK_DEADLOCK FALSE
