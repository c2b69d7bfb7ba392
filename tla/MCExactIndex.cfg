SPECIFICATION Spec
CONSTANTS
    nfc = nfc
    nfd = nfd
    other = other
    Value <- MCValue
    HashOf <- MCHashOf
    Hash = {1, 2}
    Seg = {1, 2}
    RowId = {1}
    None <- MCNone
    CacheCapacity = 1
    MaxSteps = 4
INVARIANT TypeOK
PROPERTY ImplementsValueIndex
