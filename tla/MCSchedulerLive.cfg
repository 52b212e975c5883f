\* Two workers, two submissions that may meet in a queue of one, one retry each.
CONSTANTS
  Tasks = {t1, t2}
  Workers = {w1, w2}
  Severities = {"critical", "info"}
  QueueSize = 1
  RetryCount = 1
  NoTask = NoTask
SPECIFICATION Spec
PROPERTIES
  EveryTaskEnds
  ImplementsTaskPool
