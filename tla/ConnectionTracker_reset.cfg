SPECIFICATION Spec
CONSTANTS
  Sessions = {s1, s2}
  Named = {}
  Flows = {}
  Closers = {c1}
  Resetters = {c1}
  MaxChunks = 1
  MaxLookups = 1
INVARIANT ResetTearsDown
CHECK_DEADLOCK FALSE
