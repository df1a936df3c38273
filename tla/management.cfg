SPECIFICATION Spec
CONSTANTS
  Missing = Missing
  Hosts = {h1, h2}
  A = A
  B = B
  PoolList <- ATwice
  Steady = {h2}
  Users = {u1}
  MaxValue = 1
  MaxEdits = 1
  MaxStops = 2
  MaxFailures = 1
INVARIANTS
  TypeOK
  RegisteredIsRunning
  ShutdownRecorded
  RowsWithinList
  RowsBelong
PROPERTIES
  RegistrationCompletes
  SignalEndsProcess
CHECK_DEADLOCK FALSE
