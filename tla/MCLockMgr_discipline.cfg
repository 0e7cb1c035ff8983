CONSTANTS
    NtxFileBase = 100
    CdxFileBase = 100
    VfpFileBase = 50
    AdtFileBase = 1000
    MaxRecno = 3
    Handles = {h1, h2, h3}
    Type = "Adt"
    OffsetLimit = 200000
    InitCount = 1
    Relock = FALSE
    Strays = FALSE
    Unseen = FALSE
    Rollbacks = TRUE
    RetryCount = 1
    MaxHeld = 2
SPECIFICATION Spec
INVARIANTS TypeOK Exclusive UnlockForgets
PROPERTIES ImplementsService
SYMMETRY HandleSymmetry
