CONSTANTS
    Tokens <- Vocabulary
    NoToken <- None
    Unit = 4
    Draws <- PositiveDraws
    MainP <- MCMainP
    DraftP <- MCDraftP
    PromptLen = 3
    MaxLengths = {3, 4, 6, 7}
    Lookaheads = {1, 2, 3}
    DecodeLengths = {3, 5}
    Calls <- MCCalls
    Earlier <- MCEarlier
SPECIFICATION FairSpec
INVARIANTS
    TypeOK
    CacheFresh
    CacheInBounds
PROPERTIES
    ImplementsGeneration
    Termination
