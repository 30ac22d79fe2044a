CONSTANTS
    Char <- SomeChars
    Tag <- SomeTags
    UserTag <- TheUserTag
    Blank = Blank
    BadPart = BadPart
    Lower <- LowerCase
    MaxParts = 3
SPECIFICATION Spec
INVARIANT RepresentsHeld
INVARIANT NoRepetition
INVARIANT SearchFindsAll
INVARIANT SearchFindsOnly
