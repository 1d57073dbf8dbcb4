CONSTANTS
    IntWidth = 4
    Precision = 6
    Asserts = TRUE
    BoolInputs <- MCBoolInputs
    IntInputs <- MCIntInputs
    IntValues <- MCIntValues
    RealValues <- MCRealValues
SPECIFICATION Spec
INVARIANTS TypeOK CodecRoundTrip
