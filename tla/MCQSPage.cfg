CONSTANTS
    w1 = w1
    w2 = w2
    s1 = s1
    s2 = s2
    NULL = NULL
    Wrappers <- MCWrappers
    StreamIds <- MCStreamIds
    InitStreams <- MCInitStreams
    FontNames <- MCFontNames
    InitFonts <- MCInitFonts
    FreshFontIds <- MCFreshFontIds
    Coords <- MCCoords
    Matrices <- MCMatrices
SYMMETRY MCSymmetry
SPECIFICATION Spec
INVARIANTS TypeOK FontIdFound
