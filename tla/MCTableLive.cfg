SPECIFICATION FairSpec
CONSTANTS
    PK = {a}
    Val = {v1, v2}
    NoVal = NoVal
    Unknown = Unknown
    SegMaxRows = 2
    IndexSaveInterval = 2
    LazyQueryOpen = TRUE
    MaxOps = 3
    MaxCrashes = 2
PROPERTIES RecoveryEnds SegmentsAppendOnly
