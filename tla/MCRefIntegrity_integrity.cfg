SPECIFICATION Spec
CONSTANTS
  p = p  kid = kid  g = g  old = old  k1 = k1  k2 = k2  c1 = c1  c2 = c2
  usr = usr  gr = gr  x = x  r1 = r1  r2 = r2 
  Conns <- MCConns
  Objects <- MCObjects
  Kind <- MCKind
  MemberUser <- MCMemberUser
  MemberGroup <- MCMemberGroup
  BuiltIn = {gr}
  RuleTexts <- MCRuleTexts
  FirstCopy <- MCFirstCopy
  FirstRows <- MCFirstRows
  None = None
  Gone = Gone
  Tables <- MCTables
  Keys = {k1, k2}
  Blank = Blank
  Narrow = k1
  Superseded = {}
  Daring = {}
  MaxChanges = 2
  MaxRows = 2
  MaxCalls = 2
  MaxOpen = 2
SYMMETRY Sym
INVARIANTS TypeOK ReferencesKept SnapshotTrue
PROPERTY ImplementsRelations
CHECK_DEADLOCK FALSE
