SPECIFICATION Spec
CONSTANTS
    PK = {1, 2}
    Val = {x, y}
    NoVal = NoVal
    MinSegments = 2
    TargetRows = 2
    SegMaxRows = 1
    MaxOps = 4
    MaxCompacts = 2
    MaxCrashes = 1
INVARIANTS TypeOK ContentIsKept NoStrayRows
CHECK_DEADLOCK FALSE
