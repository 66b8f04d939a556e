SPECIFICATION Spec
CONSTANTS
    Recipients = {r1, r2}
    Files = {}
    None = None
    Clients = {c1, c2}
    Operations <- ConsentOps
    MaxThreshold = 2
    Hours <- OneHour
    MaxTime = 0
    Crashes = FALSE
    StoreErrors = FALSE
INVARIANTS
    ClearedRequestsStayCleared
CHECK_DEADLOCK FALSE
