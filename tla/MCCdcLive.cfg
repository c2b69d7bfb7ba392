SPECIFICATION FairSpec
CONSTANTS
    a = a
    v1 = v1
    PK = {a}
    Val = {v1}
    NoVal = NoVal
    GtidMode = FALSE
    ResyncOnGap = FALSE
    WaitForResume = TRUE
    MaxTx = 2
    MaxRotates = 1
    MaxCrashes = 1
    MaxDrops = 1
PROPERTY EventuallyLiveAndEqual
