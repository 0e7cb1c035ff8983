CONSTANTS
    a = a
    b = b
    Vals = {a, b}
    Blank = a
    InitRows <- TwoRows
    PowerFails = TRUE
    MaxRows = 3
    MaxOps = 2
    MaxTxs = 2
    MaxCrashes = 3
SPECIFICATION FairSpec
PROPERTIES RecoveryEnds
INVARIANTS AcknowledgedKept  TypeOK RecoveryRestores CommittedKept AppendsDeleted
