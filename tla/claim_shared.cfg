\* Three contenders on one host, of which p1 may exit after it is done.
CONSTANTS
    p1 = p1
    p2 = p2
    p3 = p3
    Proc = {p1, p2, p3}
    Host <- OneHost
    Mortal = {p1}
    Forcer = {}
    Patience <- FailFast
    MaxClaims = 1
    MaxAge = 0
    Sharing = FALSE
    NoFile = NoFile
SPECIFICATION Spec
INVARIANT MutualExclusion
CHECK_DEADLOCK FALSE
