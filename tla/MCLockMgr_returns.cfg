CONSTANTS
    NtxFileBase = 100
    CdxFileBase = 100
    VfpFileBase = 50
    AdtFileBase = 1000
    MaxRecno = 1
    Handles = {h1, h2}
    Type = "Cdx"
    OffsetLimit = 200000
    InitCount = 0
    Relock = TRUE
    Strays = TRUE
    Unseen = TRUE
    Rollbacks = TRUE
    RetryCount = 2
    MaxHeld = 2
INVARIANTS KernelAgrees
SPECIFICATION FairSpec
PROPERTIES LockReturns
