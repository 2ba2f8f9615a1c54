CONSTANTS
    Request = {r1, r2}
    Job = {j1, j2}
    Concurrency = 2
    Attempts = 3
    MaxUploads = 2
    MaxCrashes = 0
SPECIFICATION Spec
SYMMETRY Symmetry
CHECK_DEADLOCK FALSE
INVARIANT NotStuckOnOldVerdict
