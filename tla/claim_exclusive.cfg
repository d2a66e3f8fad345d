\* Three contenders on two hosts; only p1, alone on its host, can die.
CONSTANTS
    p1 = p1
    p2 = p2
    p3 = p3
    Proc = {p1, p2, p3}
    Host <- TwoHosts
    Mortal = {p1}
    Forcer = {}
    Patience <- SomeWait
    MaxClaims = 1
    MaxAge = 0
    Sharing = TRUE
    NoFile = NoFile
SPECIFICATION Spec
INVARIANT TypeOK
PROPERTY ImplementsLock
CHECK_DEADLOCK FALSE
