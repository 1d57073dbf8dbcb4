CONSTANTS
    FilterNames <- MCFilterNames
    Supported <- MCSupported
    Payloads <- MCPayloads
    FilterEntries <- MCFilterEntriesWithRef
    LengthValues <- MCLengthValues
    InPdf = TRUE
SPECIFICATION Spec
INVARIANTS
    RoundTrip
