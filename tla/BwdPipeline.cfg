CONSTANTS
    kBlockM = 2
    kBlockN = 4
    BalanceLen = 8
    BalanceMin = 8
    Warps = {0, 1, 2}
    Args <- SyncedArgs
SPECIFICATION FairSpec
INVARIANTS
    TypeOK
    NoRace
    SameBarrier
    StoresAll
PROPERTY
    Termination
