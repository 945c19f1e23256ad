SPECIFICATION MCSpec
CONSTANTS
    Sources <- MCSources
    MaxChain = 2
    SeqLen = 7
    Exact = 4
    Tokens = {t1, t2}
    Empty = none
    fl <- HalfFloat
CHECK_DEADLOCK FALSE
INVARIANTS
    SingleAssignment
    OutputsKeepMeaning
    CachesAreUpdated
    HeadsPaired
    NormsScaleFree
    LogitsOfLastToken
    DecisionsReachGraph
    SlotsAreSound
PROPERTIES
    ImplementsTokenCache
