SPECIFICATION Spec
CONSTANTS
    MaxHoldback = 6
    Cases <- TwoChoices
INVARIANT NoOriginalSurvives
CHECK_DEADLOCK FALSE
