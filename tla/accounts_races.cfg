SPECIFICATION AccountSpec
CONSTANTS
    Ids = {u1, u2}
    Emails = {e1}
    Keys = {e1}
    Names = {n1, n2}
    Passwords = {p1, p2}
    KeyProfiles = {k1}
    None = None
    Clients = {c1, c2}
    Mixes <- AllMixes
    VerificationLife = 1
    ResetLife = 1
    SessionLife = 2
    MaxAttempts = 2
    WindowLength = 1
    MaxTime = 2
    MaxFresh = 2
    MaxLogins = 3
    Crashes = TRUE
SYMMETRY AccountSymmetry
INVARIANTS
    AccountsTypeOK
    ProvenBeforeUse
    AcknowledgedWritesAreStored
    RetiredLinksAreCleared
    SharedOnlyByRaces
    OrphansOnlyByRaces
    LoginsPerWindow
PROPERTIES
    DeletedAccountsStayDeleted
CHECK_DEADLOCK FALSE
