\* One event and two admin retries of it; one write fails, the process ends and starts again.
CONSTANTS
  Events = {e1}
  Tasks = {t1, t2}
  Requests = {r1, r2}
  MaxConcurrency = 2
  MaxRetries = 1
  MaxFailures = 1
  MaxStarts = 1
  NoEvent = NoEvent
SPECIFICATION Spec
CHECK_DEADLOCK FALSE
INVARIANTS
  TypeOK
  RowTellsOutcome
  NotifiedOnce
  ShutdownSettles
PROPERTIES
  RowsSettle
  UsesPool
  ShutdownEnds
