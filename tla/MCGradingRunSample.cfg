CONSTANTS
    a = a
    b = b
    Submission = {a, b}
    Investigated = {a, b}
    Request = {1}
    Tries = 1
    MinAudited = 1
    MaxPresses = 1
    MaxFaults = 0
SPECIFICATION Spec
SYMMETRY Symmetry
INVARIANT PromotedNeverSampled
CHECK_DEADLOCK FALSE
