SPECIFICATION Spec
CONSTANTS
    Setups <- SpliceSetups
    Calls <- SpliceCalls
    MaxSessions = 2
    MaxCalls = 2
INVARIANTS
    OwnAnswer
CHECK_DEADLOCK FALSE
