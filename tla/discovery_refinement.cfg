CONSTANTS
    Nodes <- DiscoveryNodes
    Kind <- DiscoveryKind
    Producing <- DiscoveryTasks
    EndOutcome <- PlanEnds
    Entry = "pgc_gate"
    Edges <- DiscoveryEdges
    DraftIsDocument = TRUE
    MaxRetries = 2
    Answers = {a1, a2}
    Options = {"retry", "abandon"}
    Requests = {r1}
    Ops = {"step", "events", "run", "message", "cancel", "initialize", "edit", "resolve", "escalate"}
    MaxSteps = 100
    MaxDocuments = 2
    MaxAnswerRows = 2
    CrashAllowed = FALSE
SPECIFICATION FairSpec
INVARIANTS
    TypeOK
    JudgedOnItsAnswers
PROPERTIES
    ImplementsProduction
    RunSettles
