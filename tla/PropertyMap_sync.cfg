SPECIFICATION FairSpec
CONSTANTS
    k1 = k1
    k2 = k2
    v1 = v1
    v2 = v2
    Keys = {k1, k2}
    Vals = {v1, v2}
    Absent = Absent
INVARIANTS
    TypeOK
    FlagsReachEntity
    ClientCovered
    ObserverCovered
PROPERTIES
    ClientFairReplica
    ObserverCatchesUp
