SPECIFICATION Spec
CONSTANTS
    a = a
    v2 = v2
    v1 = v1
    PK = {a}
    Val = {v1, v2}
    NoVal = NoVal
    GtidMode = TRUE
    ResyncOnGap = TRUE
    WaitForResume = FALSE
    MaxTx = 2
    MaxRotates = 1
    MaxCrashes = 2
    MaxDrops = 1
SYMMETRY Symmetry
INVARIANTS TypeOK 
PROPERTY GateHolds
