CONSTANTS
    t1 = t1
    User = {u1, u2}
    Tag = {t1}
    Request = {r1, r2}
    AdminRequest = {a1}
    RoleSets <- SomeRoles
    MaxUid = 3
SYMMETRY Symmetry
SPECIFICATION Spec
CHECK_DEADLOCK FALSE
INVARIANT TTypeOK
INVARIANT TagsOriginate
INVARIANT StaffGiveOwn
