CONSTANTS
    kBlockM = 4
    kBlockN = 2
    kNWarps = 2
    RowAtom = 2
    CopyAtom = 1
    LenQ = {2, 7, 8}
    LenK = {1, 5, 8}
    Args <- MCArgs
SPECIFICATION FairSpec
INVARIANTS
    TypeOK
    NoRace
    SameBarrier
PROPERTIES
    ImplementsFlashFwd
    Termination
