CONSTANTS
    c1 = c1
    c2 = c2
    rd1 = rd1
    None = None
    User = {u1}
    Client = {c1}
    Redirect = {rd1}
    Registered <- OneClient
    Authorization = {a1, a2}
    Exchange = {x1}
    Address = {ip1, ip2}
    CacheMax = 1
    CodeTTL = 1
    SessionTTL = 1
    TokenTTL = 1
    ClockMayStep = FALSE
    MaxTime = 2
    MaxKeys = 2
SPECIFICATION HSpec
CHECK_DEADLOCK FALSE
INVARIANT KTypeOK
PROPERTY CodesLeave
PROPERTY SessionsLeave
PROPERTY CacheShrinks
