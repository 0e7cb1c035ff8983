SPECIFICATION Spec
CONSTANTS
  Tables <- SmallTables
  Values = {1, 2, 3}
  Exprs <- Conditions
  Steps <- OneOrTwo
  NoScope = NoScope
  Excluded = {}
  Daring = {}
  MaxCalls = 6
INVARIANTS FilterIsCondition
PROPERTY ImplementsBrowse
CHECK_DEADLOCK FALSE
