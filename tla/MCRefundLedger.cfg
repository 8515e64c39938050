SPECIFICATION Spec
CONSTANTS
    Processes = {p1, p2}
    Calls = 3
    Customers = {ada, alan}
    Active = {ada}
    Amounts = {1, 2}
    Supplied = {k1}
    Seed = 2
    Replay = 2
    MaxTime = 2
    MaxCrashes = 1
    Faults = TRUE
SYMMETRY Alike
INVARIANTS
    TypeOK
    PaidOnce
    ReplayIsOriginal
    MovedIsOnRecord
CHECK_DEADLOCK FALSE
