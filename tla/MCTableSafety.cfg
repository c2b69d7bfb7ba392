SPECIFICATION Spec
CONSTANTS
    PK = {a, b}
    Val = {v1, v2}
    NoVal = NoVal
    Unknown = Unknown
    SegMaxRows = 2
    IndexSaveInterval = 2
    LazyQueryOpen = FALSE
    MaxOps = 3
    MaxCrashes = 3
SYMMETRY Symmetry
INVARIANTS TypeOK IndexNamesEveryLiveRow 
PROPERTY SegmentsAppendOnly
