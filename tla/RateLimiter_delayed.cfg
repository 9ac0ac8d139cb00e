SPECIFICATION Spec
CONSTANTS
    Threads = {t1, t2}
    Clients = {k1, k2}
    Window = 3
    MaxAttempts = 2
    MaxDelay = 1
    MaxTime = 4
INVARIANTS
    RollingLimit
PROPERTIES
    RefusalJustified
SYMMETRY Symmetry
CHECK_DEADLOCK FALSE
