CONSTANTS
    c1 = c1
    c2 = c2
    x1 = x1
    Nothing = Nothing
    Clients = {c1, c2}
    Crowds <- AnyCrowd
    Executions = {x1}
    Initials = {"MA", "PRJ"}
    PrefixOf <- IntakePrefix
    Steps = {"a", "b"}
    Sources <- Shipped
    Flows <- Stored
    Seed <- There
    Largest = 999
    MaxProjects = 4
    MaxHistory = 4
SPECIFICATION Spec
INVARIANTS
    TypeOK
    MintedIsFree
    OneProjectPerIntake
    DriftIsExplained
    HistoryTellsSteps
CHECK_DEADLOCK FALSE
