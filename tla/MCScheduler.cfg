\* Two workers share three submissions through a queue of two, one retry each.
CONSTANTS
  Tasks = {t1, t2, t3}
  Workers = {w1, w2}
  Severities = {"critical", "info"}
  QueueSize = 2
  RetryCount = 1
  NoTask = NoTask
SPECIFICATION Safety
SYMMETRY Symmetry
INVARIANTS
  TypeOK
  NoLostWakeup
  OnePlacePerTask
  NoOvertaking
  FailsForCause
  StopDrains
