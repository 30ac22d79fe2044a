CONSTANTS
    c1 = c1
    c2 = c2
    rd1 = rd1
    name = name
    role = role
    None = None
    User = {u1}
    Client = {c1, c2}
    Redirect = {rd1}
    Registered <- SharedUri
    Authorization = {a1, a2}
    Exchange = {x1}
    Request = {q1}
    Field = {name, role}
    Configuration <- Whitelists
    CodeTTL = 1
    SessionTTL = 4
    TokenTTL = 1
    Leeway = 1
    ClockMayStep = TRUE
    MaxTime = 4
    MaxKeys = 2
SYMMETRY Symmetry
SPECIFICATION ASpec
CHECK_DEADLOCK FALSE
INVARIANT ATypeOK
INVARIANT LockHolds
INVARIANT RestartRevokes
INVARIANT AccessBounded
INVARIANT FieldsAuthorized
