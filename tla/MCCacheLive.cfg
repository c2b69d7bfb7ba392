CONSTANTS
    k1 = k1
    k2 = k2
    k3 = k3
    w1 = w1
    w2 = w2
    Key = {k1, k2, k3}
    Worker = {w1}
    Client = {c1}
    Owner <- OneWorker
    Inst = {i1, i2, i3, i4}
    None = None
    MaxOpenHard = 1
    Buffer = 0
    OpsChoices <- OpsOne
    MaxCalls = 3
    MaxRefresh = 0
SPECIFICATION FairSpec
INVARIANT CacheIsBounded
PROPERTY CallsReturn
