SPECIFICATION TrafficSpec
CONSTANTS
  SharedSides = {"a"}
  FailingSides = {"a", "b"}
  MaxChunks = 1
  None = None
  Exited = Exited
INVARIANTS
  
  TrackerAccounts
  ForwardIsExact
  InboundIsGuarded
  AssociationIsOne
 
CHECK_DEADLOCK FALSE
