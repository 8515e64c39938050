SPECIFICATION Spec
CONSTANTS
    Window = 2
    Limit = 3
    Requests = {r1, r2, r3}
    Streams = {}
    Tenants = {t1}
    Estimates = {2}
    Usages = {1}
    Workers = {w1, w2}
    MaxTime = 3
    MaxCrashes = 0
    Faults = FALSE
SYMMETRY Interchangeable
INVARIANT EveryInstant
CHECK_DEADLOCK FALSE
