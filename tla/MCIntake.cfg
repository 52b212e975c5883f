\* Three events in an hour of three ticks, a window of two, one event an hour.
CONSTANTS
  r1 = r1
  r2 = r2
  r3 = r3
  Requests <- MCRequests
  Batch <- MCBatch
  Projects <- MCProjects
  Events <- MCEvents
  ProjectWindow <- MCProjectWindow
  DedupWindow = 0
  RateLimit = 1
  MinSeverity = ""
  MaxPayloadSize = 5
  ReadLimit = 8
  Hour = 3
  MaxStall = 1
  MaxTime = 4
SPECIFICATION Spec
CHECK_DEADLOCK FALSE
INVARIANTS
  TypeOK
  OncePerWindowUnlessSwept
  DuplicateHasOriginal
  UnderTwiceTheHourlyLimit
