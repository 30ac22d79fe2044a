CONSTANTS
    User = {u1}
    Threshold = 1
    LockoutDuration = 1
    Request = {r1,r2}
    Administrator = {a1}
    AdminChange <- PermanentRestriction
    AdminEdits = FALSE
    ExternalAnswer <- WholeProfile
    RequestForm <- Direct
    WritesMayFail = FALSE
    MemoryLoss = FALSE
    MaxTime = 1
    MaxUid = 3
SYMMETRY Symmetry
SPECIFICATION HSpec
CHECK_DEADLOCK FALSE
PROPERTY RestrictedUntilLifted
