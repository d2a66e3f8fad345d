SPECIFICATION FairSpec
CONSTANTS
    Setups <- ServeSetups
    Calls <- MCCalls
    MaxCalls = 2
    Window = 2
INVARIANTS
    TypeOK
    PlayedInOrder
    MissesAreHonoured
    EveryAnswerCounts
PROPERTIES
    HeldUntilAnswered
    EveryCallAnswered
CHECK_DEADLOCK FALSE
