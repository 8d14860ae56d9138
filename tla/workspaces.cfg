CONSTANTS
    Users = {u1, u2}
    Ids = {w1, w2}
    Types <- OneType
    Versions <- TwoVersions
    Releases <- TwoReleases
    Inputs <- NoInputs
    Texts = {sound}
    Broken = Broken
    Main = main
    Active = active
    Absent = Absent
    Panel = TRUE
    MaxEdits = 2
SPECIFICATION Spec
SYMMETRY UserSymmetry
INVARIANTS
    TypeOK
    IndexesAgree
PROPERTIES
    SwitchKeepsEdits
    ReleaseTakesStaged
    CommitTakesChosen
CHECK_DEADLOCK FALSE
