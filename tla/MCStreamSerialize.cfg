CONSTANTS
    SizeWidth = 6
    IntWidth = 5
    NotInt = NotInt
    LengthValues <- MCLengthValues
    DataLens <- MCDataLens
    DictLens <- MCDictLens
    RefHeaderLens <- MCRefHeaderLens
SPECIFICATION Spec
CHECK_DEADLOCK FALSE
INVARIANTS TypeOK NoOverflow ReturnOK
