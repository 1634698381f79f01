SPECIFICATION FairSpec
CONSTANTS
    g1 = g1
    g2 = g2
    g3 = g3
    k1 = k1
    k2 = k2
    Games = {g1, g2, g3}
    Gates = {k1, k2}
    Fixed <- Mixed
    Base0 = g1
    Cell0 = g2
    Gold = 1
    MaxGifts = 1
    MaxRounds = 1
    Mortal = {g1, g2}
    MaxFaults = 2
CHECK_DEADLOCK FALSE
INVARIANTS
    TypeOK
    OneCopy
    Apart
    NoDuplicate
PROPERTIES
    NoOrphan
