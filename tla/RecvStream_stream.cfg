SPECIFICATION FairSpec
CONSTANTS
    c1 = c1
    c2 = c2
    Conns = {c1, c2}
    Sizes = {4}
    MaxOffset = 4
    RcvBuf = 5
    ShortMax = 8
    BufCache = 9
    MaxFrames <- TwoAndOne
CHECK_DEADLOCK FALSE
INVARIANTS
    TypeOK
    Fits
    Prompt
    InOrder
PROPERTIES
    C1IsChannel
    BreakReported
