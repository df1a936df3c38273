SPECIFICATION Spec
CONSTANTS
  A = A
  B = B
  New = New
  Abort_ = Abort_
  Discard = Discard
  Missing = Missing
  Pools = {A, B, New}
  Handlers = {Abort_, Discard}
  Configs <- AllConfigs
  MaxPublishes = 2
  MaxCrashes = 1
INVARIANTS
  TypeOK
  SettingsInForce
  RestartableAfterRefresh
PROPERTIES
  RestartChangesNothing
  PublishedTakesEffect
  DaemonReadsPublished
  RefreshIsAtomic
CHECK_DEADLOCK FALSE
