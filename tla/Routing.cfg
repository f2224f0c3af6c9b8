SPECIFICATION RoutingSpec
CONSTANTS
  SharedSides = {"a"}
  FailingSides = {"a", "b"}
  MaxChunks = 1
  None = None
  Exited = Exited
INVARIANTS
  RoutingIsRight
  ResolversAreOwned
PROPERTIES
  
  RoutingSettles
CHECK_DEADLOCK FALSE
