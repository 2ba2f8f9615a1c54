CONSTANTS
    Request = {r1, r2}
    Job = {j1, j2}
    Concurrency = 2
    Attempts = 3
    MaxUploads = 2
    MaxCrashes = 1
SPECIFICATION FairSpec
CHECK_DEADLOCK FALSE
INVARIANTS TypeOK PendingIsOwed AloneNeverStale
PROPERTY PendingResolves
