CONSTANTS
  s1 = s1
  s2 = s2
  zeroPool = zeroPool
  plainPool = plainPool
  fullPool = fullPool
  mutedPool = mutedPool
  Pools <- MCPools
  PoolList <- MCList
  Config <- MCConfig
  Submitters <- MCSubmitters
  Last = 3
  Failing <- ListenerAndDatabase
  ActiveCounts <- ActiveOf2
  QueueSizes <- Sizes
  MaxRejections = 3
  MaxFailures = 2
SPECIFICATION FairSpec
INVARIANTS
  TypeOK
  NeverOvercounts
  ForgetsOnlyRaces
  HeadlineWithinIndicator
PROPERTIES
  RejectionsReported
