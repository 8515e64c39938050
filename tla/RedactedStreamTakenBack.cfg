SPECIFICATION Spec
CONSTANTS
    MaxHoldback = 7
    Alphabet <- MCAlphabet
    Texts <- TakenBack
INVARIANT EveryChunking
CHECK_DEADLOCK FALSE
