\* serve --new-episodes loads the cassette before it takes the claim.
SPECIFICATION Spec
CONSTANTS
    d1 = d1
    d2 = d2
    d3 = d3
    Door = {d1, d2, d3}
    NoDoor = NoDoor
    Setups <- LostSetups
PROPERTY NoLostRecording
CHECK_DEADLOCK FALSE
