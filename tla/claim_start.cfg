CONSTANTS
    Uid = {d1}
    NoTable = NoTable
    ForeignKeysOn = TRUE
    MaxStarts = 2
SYMMETRY Symmetry
SPECIFICATION Spec
CHECK_DEADLOCK FALSE
INVARIANT StartSucceeds
