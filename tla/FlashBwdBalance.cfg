CONSTANTS
    kBlockM = 2
    kBlockN = 4
    BalanceLen = 8
    BalanceMin = 8
    LenQ = {1}
    LenK = {3}
    Grids = {2}
    Args <- LongArgs
SPECIFICATION Spec
INVARIANT
    DKVExact
