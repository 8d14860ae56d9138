CONSTANTS
    Nodes <- LibraryNodes
    Kind <- LibraryKind
    Producing <- LibraryTasks
    EndOutcome <- PlanEnds
    Entry = "pgc_gate"
    Edges <- LibraryEdges
    Entries = {"pgc_gate", "intake_gate"}
    DraftIsDocument = TRUE
    MaxRetries = 2
    Answers = {a1}
    Options = {"retry", "abandon"}
    Requests = {r1, r2}
    Ops = {"step", "events", "message", "cancel", "initialize", "resolve", "escalate"}
    DiscoveryOps = {"step", "resolve", "cancel", "escalate"}
    IntakeOps = {"message", "events", "initialize", "resolve"}
    LegacyOps = {}
    MaxSteps = 2
    MaxDocuments = 2
    MaxAnswerRows = 2
    CrashAllowed = FALSE
SPECIFICATION PlansSpec
ACTION_CONSTRAINT AsDriven
SYMMETRY RequestSymmetry
INVARIANTS
    OutcomeOfItsEnd
    RetryBudget
