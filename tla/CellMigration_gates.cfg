SPECIFICATION FairSpec
CONSTANTS
    g1 = g1
    g2 = g2
    g3 = g3
    client = client
    a = a
    b = b
    NoCell = NoCell
    Games = {g1, g2, g3}
    Gates = {a, b}
    Sources = {"base", "client"}
    At <- MCAt
    Home = g1
    Fixed <- TwoGates
    ClientGate = a
    MaxCalls <- TwoEach
    MaxMigrations = 1
    MaxTimeouts = 0
CHECK_DEADLOCK FALSE
INVARIANTS
    OneAuthority
    OwnersCache
PROPERTIES
    TransparentToBase
    TransparentToClient
    MigrationEnds
