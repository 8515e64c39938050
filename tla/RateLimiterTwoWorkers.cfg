SPECIFICATION Spec
CONSTANTS
    Window = 2
    Limit = 3
    Requests = {r1, s1, s2}
    Streams = {s1, s2}
    Tenants = {t1}
    Estimates = {2}
    Usages = {1, 4}
    Workers = {w1, w2}
    MaxTime = 3
    MaxCrashes = 1
    Faults = FALSE
SYMMETRY Interchangeable
INVARIANTS
    TableIsBook
    LiveBound
CHECK_DEADLOCK FALSE
