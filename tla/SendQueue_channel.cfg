SPECIFICATION FairSpec
CONSTANTS
    c1 = c1
    c2 = c2
    t1 = t1
    t2 = t2
    t3 = t3
    Callers = {c1, c2}
    Threads = {t1, t2, t3}
    MaxCalls = 2
CHECK_DEADLOCK FALSE
INVARIANTS
    TypeOK
    OneChain
    Fifo
PROPERTIES
    ChannelFairSpec
    ChainEnds
    DisconnectReported
