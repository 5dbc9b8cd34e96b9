CONSTANTS
    kBlockM = 2
    kBlockN = 4
    BalanceLen = 8
    BalanceMin = 8
    LenQ = {1, 4, 5}
    LenK = {3, 8, 9}
    Grids = {2, 4}
    Args <- AllArgs
SPECIFICATION FairSpec
INVARIANTS
    TypeOK
    DKVExact
    DQExact
    TileOnce
    UncheckedLoadsInBounds
    NoStaleRead
    Deterministic
PROPERTY
    Termination
