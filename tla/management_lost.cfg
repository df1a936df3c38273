SPECIFICATION Spec
CONSTANTS
  Missing = Missing
  Hosts = {h1}
  A = A
  B = B
  PoolList <- TwoPools
  Steady = {h1}
  Users = {u1}
  MaxValue = 2
  MaxEdits = 2
  MaxStops = 0
  MaxFailures = 0
INVARIANT NoEditLost
CHECK_DEADLOCK FALSE
