CONSTANTS
  t1 = t1
  t2 = t2
  t3 = t3
  a = a
  NoThread = NoThread
  Threads <- MCThreads3
  Elems <- OneElem
  Capacities <- Fixed2
  Ops <- AllOps
  MaxItems = 3
SYMMETRY MCSymmetry
SPECIFICATION Spec
INVARIANTS
  TypeOK
  LockInv
  CountTracksItems
  CountedItemsPresent
  SnapshotConsistent
  WithinCapacity
  NoStrandedTaker
  NoStrandedPutter
  SomeoneCanRun
