CONSTANTS
    a = a
    b = b
    t1 = t1
    t2 = t2
    Tables = {t1}
    Vals = {a, b}
    Blank = a
    Names = {}
    Indexed = {t1}
    Unique = FALSE
    InitRows <- OneRow
    MaxRows = 3
    MaxOps = 2
    MaxSaves = 0
    MaxDepth = 2
    MaxOpens = 2
    MaxForeign = 1
SPECIFICATION Spec
INVARIANTS RollbackRestores BufferCurrent IndexExact ForeignKept
