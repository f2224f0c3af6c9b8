SPECIFICATION HostSpec
CONSTANTS
  None = None
  Callers = {t1, t2}
  MaxStarts = 3
  MaxOps = 3
INVARIANTS
  TimerIsExact
  LifecycleIsClean
  TunReportIsTrue
  ControlIsGuarded
  LoopIsReachable

  
CHECK_DEADLOCK FALSE
