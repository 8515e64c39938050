SPECIFICATION Spec
CONSTANTS
    Window = 2
    Limit = 3
    Requests = {r1, r2, r3}
    Tenants = {t1, t2}
    Estimates = {1, 2}
    Usages = {0, 1, 3}
    MaxTime = 3
SYMMETRY Interchangeable
INVARIANTS
    TypeOK
    EveryInstant
CHECK_DEADLOCK FALSE
