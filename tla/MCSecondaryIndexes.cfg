SPECIFICATION Spec
CONSTANTS
    PK = {1, 2}
    Val = {x, y}
    NoVal = NoVal
    Field = {f, g}
    None = None
    CacheFields = 1
    SegMaxRows = 2
    MaxOps = 3
    MaxCrashes = 2
SYMMETRY Columns
INVARIANTS TypeOK BitmapsCover  ExactCovers
CHECK_DEADLOCK FALSE
