SPECIFICATION Spec
CONSTANTS
    MaxHoldback = 7
    Alphabet <- MCAlphabet
    Texts <- MCTexts
INVARIANTS
    TypeOK
    NoUnmarkedGap
    ChunkingIsInvisible
    NoSecretLeaves
    OnlyCandidatesVanish
    OverflowIsOneRun
CHECK_DEADLOCK FALSE
