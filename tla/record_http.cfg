\* Requests side by side: answers cut into chunks, a first contact that fails, listening
\* streams, clients that go away, writes that fail, and every way to end.
CONSTANTS
    x1 = x1
    x2 = x2
    x3 = x3
    Exchange = {x1, x2, x3}
    Plans <- HttpPlans
    Before = Before
    Nothing = Nothing
    CanFail = TRUE
SPECIFICATION FairSpec
INVARIANTS
    TypeOK
    SentIsRecorded
    OneListener
    CassetteFirst
    CheckpointIsKept
PROPERTIES RunEnds
CHECK_DEADLOCK FALSE
