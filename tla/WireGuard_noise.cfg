CONSTANTS
  Callers = {c1, c2}
  MaxCalls = 2
  MaxReads = 2
  MaxSessions = 2
  MaxNonce = 3
  WindowSize = 2
  Peers = {"same", "otherPsk"}
SPECIFICATION Spec
INVARIANT HandshakeIsNoise
CHECK_DEADLOCK FALSE
