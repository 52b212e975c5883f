\* Two diagnoses share a skill, one of whose names mcp.json has; two lines of output.
CONSTANTS
  Calls = {c1, c2}
  Keys = {k1, k2}
  OwnKeys = {k2}
  NoKey = NoKey
  PipeSize = 1
  MaxLines = 2
SPECIFICATION Spec
INVARIANTS
  TypeOK
  RaceOnlyAtFirstUse
  ReturnedLeavesNothing
  AnswerIsNotLost
PROPERTY ExecuteReturns
CHECK_DEADLOCK FALSE
