SPECIFICATION AccountSpec
CONSTANTS
    Ids = {u1, u2}
    Emails = {e1}
    Keys = {e1}
    Names = {n1, n2}
    Passwords = {p1, p2}
    KeyProfiles = {k1}
    None = None
    Clients = {c1, c2}
    Mixes <- ProfileAndReset
    VerificationLife = 1
    ResetLife = 1
    SessionLife = 2
    MaxAttempts = 2
    WindowLength = 1
    MaxTime = 1
    MaxFresh = 1
    MaxLogins = 3
    Crashes = FALSE
INVARIANTS
    AcknowledgedPasswordIsStored
CHECK_DEADLOCK FALSE
