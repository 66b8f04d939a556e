SPECIFICATION Spec
CONSTANTS
    Recipients = {r1, r2, r3}
    Files = {f1, f2}
    None = None
    Clients = {c1}
    Operations <- AllOps
    MaxThreshold = 3
    Hours <- TwoGraces
    MaxTime = 2
    Crashes = FALSE
    StoreErrors = TRUE
SYMMETRY StoreSymmetry
INVARIANTS
    RequestsAreConsents
    FilesMatchBlobs
PROPERTIES
    DeadlineIsFixed
CHECK_DEADLOCK FALSE
