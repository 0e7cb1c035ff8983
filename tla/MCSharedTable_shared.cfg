SPECIFICATION Spec
CONSTANTS
  h1 = h1
  h2 = h2
  a = a
  b = b
  NoHandle = NoHandle
  Handles = {h1, h2}
  Kinds = {"cdx", "ntx", "adt"}
  Fields = {a, b}
  Values = {0, 1}
  Blank = 0
  BlockRecs = 2
  BlockUnits = 3
  MemoSizes = {1, 3}
  HasAutoinc = FALSE
  RefreshAfterLock = TRUE
  SharedMaintenance = FALSE
  MemoWriters = {h1}
  MaxRows = 2
  MaxWrites = 3
  MaxBlocks = 4
INVARIANTS NoLostWrite MemoKept LockedIsCurrent
