SPECIFICATION FairSpec
CONSTANTS
    t1 = t1
    None = None
    Invalid = Invalid
    Terms <- OneTerms
    Interactions <- OneInteraction
    What <- TwoWhats
    UserThrows = TRUE
    MaxCalls = 2
INVARIANTS
    AnswerTellsEffect
    StatusAgrees
    NothingUntold
PROPERTIES
    ImplementsCalls
    EveryCallAnswered
    StatusHeals
CHECK_DEADLOCK FALSE
