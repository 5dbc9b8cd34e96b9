CONSTANTS
    kBlockM = 2
    kBlockN = 4
    BalanceLen = 8
    BalanceMin = 8
    Warps = {0, 1}
    Args <- BalancedArgs
SPECIFICATION Spec
INVARIANT
    NoRace
