CONSTANTS
    Student = {s1}
    Deliverable = {d1}
    Worker = {w1}
    OpenLead = 0
    EarlyJoin = 0
    Start = 1
    End = 2
    GraceEnd = 3
    Horizon = 4
    MaxCrashes = 1
SPECIFICATION FairSpec
CHECK_DEADLOCK FALSE
PROPERTIES AwaitingResolves ActiveResolves
