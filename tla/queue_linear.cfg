CONSTANTS
  t1 = t1
  t2 = t2
  a = a
  b = b
  NoThread = NoThread
  Threads <- MCThreads
  Elems <- TwoElems
  Capacities <- Fixed2
  Ops <- LinearOps
  MaxItems = 3
SPECIFICATION FairSpec
PROPERTIES
  Linearizable
  TakersServed
  PuttersServed
