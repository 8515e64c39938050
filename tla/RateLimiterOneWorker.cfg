SPECIFICATION FairSpec
CONSTANTS
    Window = 2
    Limit = 3
    Requests = {r1, s1, s2}
    Streams = {s1, s2}
    Tenants = {t1}
    Estimates = {2, 4}
    Usages = {1}
    Workers = {w1}
    MaxTime = 2
    MaxCrashes = 0
    Faults = TRUE
INVARIANTS
    TypeOK
    TransactionHasThread
    RetryIsLeast
PROPERTIES
    LedgerSpec
    CallsEnd
CHECK_DEADLOCK FALSE
