SPECIFICATION Spec
CONSTANTS
    Setups <- DroppedSetups
    Calls <- MCCalls
    MaxCalls = 2
    Window = 2
INVARIANTS
    EveryAnswerCounts
CHECK_DEADLOCK FALSE
