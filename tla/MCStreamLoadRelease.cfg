CONSTANTS
    SizeWidth = 6
    IntWidth = 4
    NotInt = NotInt
    Asserts = FALSE
    LengthValues <- MCLengthValues
    DataLens <- MCDataLens
SPECIFICATION Spec
CHECK_DEADLOCK FALSE
INVARIANT LoadedMatchesLength
