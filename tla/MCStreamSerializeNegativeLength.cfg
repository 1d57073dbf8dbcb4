CONSTANTS
    SizeWidth = 6
    IntWidth = 5
    NotInt = NotInt
    LengthValues <- MCLengthValuesNegative
    DataLens <- MCDataLens
    DictLens <- MCDictLens
    RefHeaderLens <- MCRefHeaderLens
SPECIFICATION Spec
CHECK_DEADLOCK FALSE
INVARIANT NoOverflow
