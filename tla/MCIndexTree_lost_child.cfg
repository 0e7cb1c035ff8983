SPECIFICATION Spec
CONSTANTS
  a = a
  b = b
  Drivers = {"ntx"}
  TagSets <- FilesOfOneOrTwoTags
  KeysOf <- ManyKeys
  ProbesOf <- ProbesOfDrivers
  Recs = {1, 2, 3, 4, 5, 6, 7}
  Rows <- ManyRows
  MaxChanges <- ManyChanges
  Freedoms = {"lost_child"}
  KeySize = 2
  Base = 3
  LeafBytes = 8
  WideFrom = 3
  BranchMax = 2
  MaxKeys = 2
  LeafMax = 2
  RecLimit = 8
INVARIANT EntriesInOrder
CHECK_DEADLOCK FALSE
