\* Doors of every kind over one cassette; clients are patient.
SPECIFICATION Spec
CONSTANTS
    d1 = d1
    d2 = d2
    d3 = d3
    Door = {d1, d2, d3}
    NoDoor = NoDoor
    Setups <- DoorSetups
INVARIANTS
    TypeOK
    OneRecords
    BadRunsFail
    ClaimFollowsUse
PROPERTIES
    NoLostRecording
    ImplementsLock
    TransportKept
CHECK_DEADLOCK FALSE
