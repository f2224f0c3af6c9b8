SPECIFICATION FairSpec
CONSTANTS
  Conns = {c1, c2, c3}
  Wake = Wake
  Budgets = {0, 2}
  BacklogLimit = 2
INVARIANT SlotsAccounted
PROPERTIES
  NothingAfterStop
  ListenerLives
CHECK_DEADLOCK FALSE
