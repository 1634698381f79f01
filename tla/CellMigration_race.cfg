SPECIFICATION Spec
CONSTANTS
    g1 = g1
    g2 = g2
    g3 = g3
    client = client
    a = a
    b = b
    NoCell = NoCell
    Games = {g1, g2}
    Gates = {a}
    Sources = {"base"}
    At <- MCAtBase
    Home = g1
    Fixed <- OneGate
    ClientGate = a
    MaxCalls <- NoCalls
    MaxMigrations = 1
    MaxTimeouts = 1
CHECK_DEADLOCK FALSE
INVARIANTS
    CellSurvives
