CONSTANTS
    Student = {s1, s2}
    Deliverable = {d1}
    Worker = {w1, w2}
    OpenLead = 0
    EarlyJoin = 0
    Start = 1
    End = 2
    GraceEnd = 3
    Horizon = 4
    MaxCrashes = 0
SPECIFICATION Spec
CHECK_DEADLOCK FALSE
PROPERTY SubmittedIsNeverRemoved
