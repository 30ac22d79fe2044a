CONSTANTS
    User = {u1}
    Threshold = 1
    LockoutDuration = 1
    Request = {r1,r2}
    Administrator = {a1}
    AdminChange <- NoChange
    AdminEdits = TRUE
    ExternalAnswer <- WholeProfile
    RequestForm <- OAuth
    WritesMayFail = TRUE
    MemoryLoss = TRUE
    MaxTime = 0
    MaxUid = 3
SYMMETRY Symmetry
SPECIFICATION HSpec
CHECK_DEADLOCK FALSE
INVARIANT LogsOwned
INVARIANT LockoutJustified
