CONSTANTS
    kBlockM = 4
    kBlockN = 2
    kNWarps = 1
    RowAtom = 1
    CopyAtom = 1
    CombineRows = 2
    Capacity = 8
    CacheLens = {0, 3, 5}
    NewLens = {1, 3}
    Lens = {1, 3, 5}
    Widths = {1}
    SplitCounts = {2, 3}
    Args <- SmallReadArgs
SPECIFICATION Spec
INVARIANT
    LseInBounds
