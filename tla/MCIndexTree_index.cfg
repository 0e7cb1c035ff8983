SPECIFICATION Spec
CONSTANTS
  a = a
  b = b
  Drivers = {"cdx", "ntx", "adi"}
  TagSets <- FilesOfOneOrTwoTags
  KeysOf <- KeysOfDrivers
  ProbesOf <- ProbesOfDrivers
  Recs = {1, 2, 3, 4}
  Rows <- RowsOfDrivers
  MaxChanges <- ChangesOfDrivers
  Freedoms = {}
  KeySize = 2
  Base = 3
  LeafBytes = 8
  WideFrom = 3
  BranchMax = 2
  MaxKeys = 2
  LeafMax = 2
  RecLimit = 8
INVARIANTS EntriesInOrder FileIsTree
PROPERTY ImplementsOrderedIndex
CHECK_DEADLOCK FALSE
