SPECIFICATION Spec
CONSTANTS
  Missing = Missing
  Hosts = {h1}
  A = A
  B = B
  PoolList <- Unnamed
  Steady = {}
  Users = {u1}
  MaxValue = 1
  MaxEdits = 0
  MaxStops = 1
  MaxFailures = 0
PROPERTIES
  RegistersAgain
CHECK_DEADLOCK FALSE
