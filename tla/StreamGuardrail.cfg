SPECIFICATION Spec
CONSTANTS
    MaxHoldback = 6
    Cases <- MCCases
INVARIANTS
    TypeOK
    CutsDoNotMatter
    ChannelsAsWhole
    OnlyCandidatesAreMissing
    EndIsHonest
CHECK_DEADLOCK FALSE
