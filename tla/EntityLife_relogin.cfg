SPECIFICATION Spec
CONSTANTS
    g1 = g1
    g2 = g2
    g3 = g3
    Nobody = Nobody
    Games = {g1, g2}
    MaxClients = 2
    Loads = {g1, g2}
CHECK_DEADLOCK FALSE
INVARIANTS
    OldClientTold
