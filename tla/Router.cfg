SPECIFICATION FairSpec
CONSTANTS
    Window = 2
    Limit = 3
    Requests = {r1, s1}
    Streams = {s1}
    Tenants = {t1}
    Estimates = {2}
    Usages = {0, 3}
    MaxTime = 2
    Providers = 2
    Input = 1
    MaxCrashes = 1
    Faults = TRUE
INVARIANTS
    TypeOK
    HeldInFlight
    NothingServedIsFree
    FailureIsHonest
PROPERTIES
    Answered
    StatusIsFinal
CHECK_DEADLOCK FALSE
