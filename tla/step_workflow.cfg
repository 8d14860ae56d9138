CONSTANTS
    Plan <- MCPlan
    Nested <- MCNested
    Source <- MCSource
    Produces <- MCProduces
    Inputs <- MCInputs
    Guarded = {"technical_architecture", "work_statement"}
    Collections <- MCCollections
    MaxAttempts = 3
    Item = Item
    Root = Root
    None = None
    e1 = e1
    e2 = e2
SPECIFICATION Spec
INVARIANTS
    TypeOK
    WaitsForOne
    AcceptedOrRedrafted
    EachEntityServed
PROPERTIES
    Settles
CHECK_DEADLOCK FALSE
