SPECIFICATION Spec
CONSTANTS
    c2 = c2
    t3 = t3
    c1 = c1
    t1 = t1
    t2 = t2
    Callers = {c1}
    Threads = {t1, t2}
    MaxCalls = 2
CHECK_DEADLOCK FALSE
INVARIANTS
    WireIntact
