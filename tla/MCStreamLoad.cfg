CONSTANTS
    SizeWidth = 6
    IntWidth = 4
    NotInt = NotInt
    Asserts = TRUE
    LengthValues <- MCLengthValues
    DataLens <- MCDataLens
SPECIFICATION Spec
CHECK_DEADLOCK FALSE
INVARIANTS TypeOK
