CONSTANTS
    User = {u1}
    Threshold = 2
    LockoutDuration = 1
    Request = {r1,r2}
    Administrator = {a1}
    AdminChange <- LastingChanges
    AdminEdits = FALSE
    ExternalAnswer <- WholeProfile
    RequestForm <- DirectOrOAuth
    WritesMayFail = FALSE
    MemoryLoss = FALSE
    MaxTime = 1
    MaxUid = 3
SYMMETRY Symmetry
SPECIFICATION HSpec
CHECK_DEADLOCK FALSE
INVARIANT HTypeOK
INVARIANT LockoutJustified
INVARIANT FailuresAllCounted
INVARIANT CodeJustified
INVARIANT SessionJustified
PROPERTY BanHolds
