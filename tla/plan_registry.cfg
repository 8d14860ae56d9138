SPECIFICATION FairSpec
CONSTANTS
    Names = {"a", "b", "c", "x"}
    WorkflowIds = {"p", "q"}
    DocumentTypes = {"discovery", "intake"}
    Outcomes = {"qualified"}
    ActiveLists <- Lists
    Nothing = Nothing
INVARIANTS
    TypeOK
    ServesExecutable
    WalkFindsReachable
    NoneMissing
PROPERTIES
    LoadingEnds
CHECK_DEADLOCK FALSE
