SPECIFICATION FairSpec
CONSTANTS
    Lines <- MCLines
    MaxLines = 4
    RejectionBuffer = 1
INVARIANTS
    TypeOK
    EveryOwedLineHasOne
    IdsAreTheirOwn
PROPERTY EveryOwedLineIsAnswered
CHECK_DEADLOCK FALSE
