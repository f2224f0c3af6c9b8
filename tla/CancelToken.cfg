SPECIFICATION FairSpec
CONSTANTS
  Cancellers = {c1, c2}
  Registrars = {h1, h2}
  Waiters = {w1}
  TimedWaiters = {t1}
  NoThread = NoThread
INVARIANTS
  HooksRunOnce
  NoLostWakeup
PROPERTY CancelReleasesAll
