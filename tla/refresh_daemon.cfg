SPECIFICATION Spec
CONSTANTS
  A = A
  B = B
  New = New
  Abort_ = Abort_
  Discard = Discard
  Missing = Missing
  Pools = {A, B, New}
  Handlers = {Abort_, Discard}
  Configs <- FewConfigs
  MaxPublishes = 2
  MaxCrashes = 1
INVARIANTS
  DaemonSurvives
CHECK_DEADLOCK FALSE
