CONSTANTS
    a = a
    b = b
    A = A
    B = B
    m = m
    v = v
    n = n
    Row = {a, b}
    Rubric = {A, B}
    Rule = {m, v, n}
    RubricOf <- AllInA
    SessionOf <- OneSession
    Criteria <- TheCriteria
    Groups = {"g", "verbal"}
    Price = {25}
    Investigation <- Investigations
    InitialTable <- TheTable
    EnvBlocked = {}
    MaxEdits = 2
SPECIFICATION Spec
INVARIANTS TypeOK OpenFollowsTable AutoStillEarned PublishedAsPromised ScoreAddsUp
PROPERTIES NothingBecomesFree PublishedFallsOnlyByPrice ImplementsLifecycle
CHECK_DEADLOCK FALSE
SYMMETRY Swap
