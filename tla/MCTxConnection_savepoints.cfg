CONSTANTS
    a = a
    b = b
    t1 = t1
    t2 = t2
    Tables = {t1}
    Vals = {a, b}
    Blank = a
    Names = {s1, s2}
    Indexed = {}
    Unique = FALSE
    InitRows <- OneRow
    MaxRows = 2
    MaxOps = 3
    MaxSaves = 2
    MaxDepth = 1
    MaxOpens = 1
    MaxForeign = 0
SPECIFICATION Spec
INVARIANTS TypeOK RollbackRestores SavepointRestores MarksNested
SYMMETRY NameSymmetry
