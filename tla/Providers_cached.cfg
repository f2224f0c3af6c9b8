SPECIFICATION Spec
CONSTANTS
  Leaves = {}
  Groups = {}
  Nodes = {n1, n2}
  HasPath = TRUE
  MaxReloads = 0
  MaxRefresh = 1
  NoCache = NoCache
INVARIANT RefreshIsFresh
CHECK_DEADLOCK FALSE
