CONSTANTS
    IntWidth = 4
    Precision = 6
    Asserts = TRUE
    BoolInputs <- MCBoolPrefixInputs
    IntInputs <- MCIntInputs
    IntValues <- MCIntValues
    RealValues <- MCRealValues
SPECIFICATION Spec
INVARIANT BoolAcceptsOnlyLiterals
