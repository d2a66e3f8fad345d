\* Everything that can break a claim: deaths, reused pids, age, --force.
CONSTANTS
    p1 = p1
    p2 = p2
    p3 = p3
    Proc = {p1, p2}
    Host <- OneHost
    Mortal = {p1, p2}
    Forcer = {p2}
    Patience <- SomeWait
    MaxClaims = 2
    MaxAge = 2
    Sharing = FALSE
    NoFile = NoFile
SPECIFICATION FairSpec
INVARIANT SharedOnlyIfBroken
PROPERTY NeverWedged
CHECK_DEADLOCK FALSE
