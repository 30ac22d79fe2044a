CONSTANTS
    c1 = c1
    c2 = c2
    rd1 = rd1
    None = None
    User = {u1, u2}
    Client = {c1, c2}
    Redirect = {rd1}
    Registered <- SharedUri
    Authorization = {a1, a2}
    Exchange = {x1, x2}
    CodeTTL = 1
    SessionTTL = 1
    TokenTTL = 1
    ClockMayStep = TRUE
    MaxTime = 2
    MaxKeys = 2
SYMMETRY Symmetry
SPECIFICATION Spec
CHECK_DEADLOCK FALSE
INVARIANT OTypeOK
INVARIANT HolderOwnsCode
PROPERTY CodeNotSpoilt
PROPERTY CodesOnce
