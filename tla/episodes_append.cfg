SPECIFICATION FairSpec
CONSTANTS
    Setups <- AppendSetups
    Calls <- AppendCalls
    MaxSessions = 2
    MaxCalls = 2
INVARIANTS
    TypeOK
    AnsweredOnce
    ShownIsSaved
PROPERTIES
    AppendOnly
    SessionEnds
CHECK_DEADLOCK FALSE
