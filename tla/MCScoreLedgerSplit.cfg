CONSTANTS
    a = a
    b = b
    A = A
    B = B
    m = m
    v = v
    n = n
    Row = {a}
    Rubric = {A, B}
    Rule = {m, v, n}
    RubricOf <- AllInA
    SessionOf <- OneSession
    Criteria <- TheCriteria
    Groups = {"g", "verbal"}
    Price = {25}
    Investigation <- Investigations
    InitialTable <- TheTable
    EnvBlocked = {}
    MaxEdits = 1
SPECIFICATION Spec
PROPERTIES SplitKeepsApplied
CHECK_DEADLOCK FALSE
