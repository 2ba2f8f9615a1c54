CONSTANTS
    a = a
    b = b
    Submission = {a, b}
    Investigated = {a}
    Request = {1}
    Tries = 2
    MinAudited = 1
    MaxPresses = 2
    MaxFaults = 1
SPECIFICATION FairSpec
INVARIANTS TypeOK AttemptMatchesRow PublishedHasScore PublicationIsStable
PROPERTIES ClosedAttemptsStay NeverAbandoned ImplementsLifecycle JobEnds
CHECK_DEADLOCK FALSE
