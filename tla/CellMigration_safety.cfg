SPECIFICATION Spec
CONSTANTS
    g1 = g1
    g2 = g2
    g3 = g3
    client = client
    a = a
    b = b
    NoCell = NoCell
    Games = {g1, g2, g3}
    Gates = {a}
    Sources = {"base", "client"}
    At <- MCAt
    Home = g1
    Fixed <- OneGate
    ClientGate = a
    MaxCalls <- TwoEach
    MaxMigrations = 2
    MaxTimeouts = 0
CHECK_DEADLOCK FALSE
INVARIANTS
    TypeOK
    OneAuthority
    OwnersCache
    MailBoxSound
    NoNullRpc
PROPERTIES
    FrozenUntouched
