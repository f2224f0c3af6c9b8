SPECIFICATION Spec
CONSTANTS
  Callers = {t1}
  MaxStarts = 2
  MaxOps = 3
INVARIANT StartedIsRunning
CHECK_DEADLOCK FALSE
