SPECIFICATION Spec
CONSTANTS
    Setups <- ServeSetups
    Calls <- MCCalls
    MaxCalls = 3
    MaxDrops = 1
INVARIANTS
    TypeOK
    ServedAsRecorded
    HeardAsRecorded
    NoLostWakeup
    MissesFailTheRun
    ShownIsSaved
CHECK_DEADLOCK FALSE
