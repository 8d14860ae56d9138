CONSTANTS
    Nodes <- LibraryNodes
    Kind <- LibraryKind
    Producing <- LibraryTasks
    EndOutcome <- PlanEnds
    Entry = "pgc_gate"
    Edges <- LibraryEdges
    Entries = {"pgc_gate", "intake_gate", "pgc"}
    DraftIsDocument = TRUE
    MaxRetries = 2
    Answers = {a1, a2}
    Options = {"retry", "abandon"}
    Requests = {r1}
    Ops = {"step", "run", "input", "message", "cancel", "edit", "resolve", "escalate"}
    DiscoveryOps = {"step", "run", "input", "resolve", "escalate", "cancel"}
    IntakeOps = {"message", "run", "edit", "cancel"}
    LegacyOps = {"step", "run", "input", "resolve", "cancel"}
    MaxSteps = 100
    MaxDocuments = 2
    MaxAnswerRows = 2
    CrashAllowed = TRUE
SPECIFICATION PlansSpec
ACTION_CONSTRAINT AsDriven
INVARIANTS
    IntakeConfirmedByOperator
    DiscoveryDraftedFromAnswers
    DiscoveryPausedForAReason
    RunIsShort
PROPERTIES
    FinishedStays
