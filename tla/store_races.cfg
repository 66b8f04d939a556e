SPECIFICATION Spec
CONSTANTS
    Recipients = {r1}
    Files = {f1, f2}
    None = None
    Clients = {c1, c2}
    Operations <- RaceOps
    MaxThreshold = 1
    Hours <- OneHour
    MaxTime = 0
    Crashes = TRUE
    StoreErrors = TRUE
SYMMETRY StoreSymmetry
INVARIANTS
    TypeOK
    DocumentConsistent
    MissingBytesWereDiscarded
PROPERTIES
    DeletedStaysDeleted
CHECK_DEADLOCK FALSE
