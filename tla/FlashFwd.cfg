CONSTANTS
    kBlockM = 6
    kBlockN = 3
    kNWarps = 2
    RowAtom = 2
    CopyAtom = 1
    LenQ = {1, 4, 6, 8}
    LenK = {1, 5, 6, 9, 13}
    Widths = {0, 1, 4}
    Args <- AllArgs
SPECIFICATION FairSpec
INVARIANTS
    TypeOK
    OutputExact
    AlignedAsDocumented
    LseInfIffEmpty
    NoBlockTwice
    UncheckedLoadsInBounds
    NoNaN
PROPERTY
    Termination
