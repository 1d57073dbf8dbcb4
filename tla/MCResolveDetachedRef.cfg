CONSTANTS
    Asserts = FALSE
    RefIds <- MCRefIds
    DictKeys <- MCDictKeys
    Vals <- MCVals
SPECIFICATION Spec
INVARIANT NoCrash
