CONSTANTS
    Nodes <- DiscoveryNodes
    Kind <- DiscoveryKind
    Producing <- DiscoveryTasks
    EndOutcome <- PlanEnds
    Entry = "pgc_gate"
    Edges <- DiscoveryEdges
    DraftIsDocument = TRUE
    MaxRetries = 2
    Answers = {a1}
    Options = {"retry", "abandon"}
    Requests = {r1, r2}
    Ops = {"run", "resolve", "cancel"}
    MaxSteps = 100
    MaxDocuments = 2
    MaxAnswerRows = 2
    CrashAllowed = FALSE
SPECIFICATION Spec
PROPERTIES
    CancelledStays
