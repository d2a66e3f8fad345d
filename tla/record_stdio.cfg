\* Two requests, every way to end, and writes that may fail.
CONSTANTS
    N = 2
    Before = Before
    Crashed = Crashed
    Nothing = Nothing
    Leftover = {Nothing}
    CanFail = TRUE
SPECIFICATION FairSpec
INVARIANTS
    TypeOK
    RecordedInOrder
    CleanEnd
    CassetteIsWhole
PROPERTIES SessionEnds DiscardsOnlyAfterASave
CHECK_DEADLOCK FALSE
