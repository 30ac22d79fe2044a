CONSTANTS
    u1 = u1
    u2 = u2
    l1 = l1
    l2 = l2
    l3 = l3
    l4 = l4
    User <- Users
    Login <- Logins
    UserOf <- Owner
    RightPassword <- Right
    TooLong = {l4}
    Redirected = {l3}
    File <- Students
    Blank = Blank
    None = None
SPECIFICATION Spec
CHECK_DEADLOCK FALSE
INVARIANT ZTypeOK
INVARIANT LastRowCounts
PROPERTY LoginsKeptApart
