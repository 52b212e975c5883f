\* One payload, reported three times; a window of two ticks; no rate limit in play.
CONSTANTS
  r1 = r1
  r2 = r2
  r3 = r3
  Requests <- MCRequests
  Batch <- NoBatch
  Projects <- MCProjects
  Events <- MCEvents
  ProjectWindow <- MCProjectWindow
  DedupWindow = 0
  RateLimit = 3
  MinSeverity = ""
  MaxPayloadSize = 5
  ReadLimit = 8
  Hour = 3
  MaxStall = 0
  MaxTime = 4
SPECIFICATION Spec
CHECK_DEADLOCK FALSE
SYMMETRY Symmetry
INVARIANT OncePerWindow
