\* One event is reported once, and an administrator asks for it again.
CONSTANTS
  Events = {e1}
  Tasks = {t1, t2, t3}
  Requests = {r1, r2}
  MaxConcurrency = 2
  MaxRetries = 1
  MaxFailures = 0
  MaxStarts = 0
  NoEvent = NoEvent
SPECIFICATION Safety
SYMMETRY Symmetry
CHECK_DEADLOCK FALSE
INVARIANT OneActivePerEvent
