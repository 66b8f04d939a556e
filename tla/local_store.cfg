SPECIFICATION LocalSpec
CONSTANTS
    Recipients = {r1}
    Files = {f1}
    None = None
    Ids = {i1, i2}
    Clients = {c1, c2}
    Worker = worker
    Mixes <- LocalMixes
SYMMETRY LocalSymmetry
INVARIANTS
    LocalTypeOK
    CompletedWritesAreOnDisk
    LocalDocumentsConsistent
    TwinsFollowVaults
CHECK_DEADLOCK FALSE
