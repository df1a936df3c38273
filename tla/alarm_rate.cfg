CONSTANTS
  s1 = s1
  s2 = s2
  zeroPool = zeroPool
  plainPool = plainPool
  fullPool = fullPool
  mutedPool = mutedPool
  Pools <- OnePool
  PoolList <- JustOne
  Config <- TenThreads
  Submitters <- MCSubmitters
  Last = 1
  Failing <- NoNotifier
  ActiveCounts <- AllActive
  QueueSizes <- Sizes
  MaxRejections = 1
  MaxFailures = 0
SPECIFICATION Spec
PROPERTIES ActivityAlarmed
