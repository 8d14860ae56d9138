CONSTANTS
    Starters = {s1, s2}
    Executions = {x1, x2, x3, x4}
    Existing = 8
    Cap = 10
SPECIFICATION Spec
INVARIANTS
    TypeOK
    IdsInOrder
CHECK_DEADLOCK FALSE
