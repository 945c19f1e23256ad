SPECIFICATION LoopSpec
CONSTANTS
    SeqLen = 8
    Exact = 4
    Tokens = {t1, t2}
    Empty = none
    fl <- HalfFloat
INVARIANT
    CausalMask
