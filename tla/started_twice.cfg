CONSTANTS
    Starters = {s1}
    Executions = {x1, x2, x3}
    Existing = 0
    Cap = 1000
SPECIFICATION Spec
INVARIANTS
    AtMostOneActive
CHECK_DEADLOCK FALSE
