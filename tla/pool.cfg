SPECIFICATION Spec
CONSTANTS
  None = None
  Submitters = {s1, s2}
  Configs <- ManyConfigs
  Initial <- Oldest
  MaxTasks = 3
  MaxRefreshes = 1
INVARIANTS
  TypeOK
  TasksConserved
  DropsCounted
  QueuedTaskHasWorker
  RecursionBounded
PROPERTIES
  TasksEnd
  WorkersWithinMax
CHECK_DEADLOCK FALSE
