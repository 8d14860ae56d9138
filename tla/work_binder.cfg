CONSTANTS
    c1 = c1
    c2 = c2
    Candidates = {k1}
    Clients = {c1, c2}
    Crowds <- AnyCrowd
    MaxPackages = 2
    MaxStatements = 2
    MaxEditions = 4
SPECIFICATION Spec
INVARIANTS
    TypeOK
    IndexNamesItsOwn
    NoneLeftOut
    PromotedOnce
PROPERTIES
    StabilizesComplete
CHECK_DEADLOCK FALSE
