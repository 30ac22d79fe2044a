CONSTANTS
    Uid = {d1, d2}
    NoTable = NoTable
    ForeignKeysOn = TRUE
    MaxStarts = 3
SYMMETRY Symmetry
SPECIFICATION Spec
CHECK_DEADLOCK FALSE
INVARIANT MTypeOK
INVARIANT AccountsInFile
INVARIANT LogsKept
INVARIANT TimesReadable
