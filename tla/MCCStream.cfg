CONSTANTS
    FilterNames <- MCFilterNames
    Supported <- MCSupported
    Payloads <- MCPayloads
    FilterEntries <- MCFilterEntries
    LengthValues <- MCLengthValues
    InPdf = TRUE
SPECIFICATION Spec
INVARIANTS
    TypeOK
    RoundTrip
