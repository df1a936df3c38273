---------------------- MODULE ResizableQueueBoundProofs ----------------------
(***************************************************************************)
(* Proofs about what depends on the capacity: that it bounds the queue,    *)
(* and that no putter is left asleep.  Neither holds of every use of the   *)
(* queue, since put and the timed offer compare with = a capacity that     *)
(* setCapacity may move below the size, and setCapacity signals nobody.    *)
(***************************************************************************)
EXTENDS ResizableQueueProofs

\* setCapacity never changes anything.
NeverResized == \A j, k \in Capacities : j = k

\* What a ThreadPoolExecutor does: it inserts with the untimed offer only.
OnlyOffers == Ops \cap InsertOps \subseteq {"offer"}

Fits(size) == \E k \in Capacities : size <= k

\* An insertion in progress is counted in advance; what putLock's owner read of
\* count is an upper bound, since only removals can have changed it.
BoundInv ==
  /\ \A t \in Threads : op[t] \in Ops \cup {"none"}
  /\ Fits(count + Entering)
  /\ \A t \in Threads : pc[t] = "putTest" => count <= n[t] /\ Fits(n[t])

-----------------------------------------------------------------------------

\* A size below one that fits fits.
LEMMA FitsLess ==
  ASSUME NEW i \in Int, NEW j \in Int, i <= j, Fits(j)
  PROVE  Fits(i)
BY CapacitiesAssumption DEF Fits

\* Steps that insert nothing and do not come out with a new reading of count.
LEMMA BoundQuiet ==
  ASSUME Inv, BoundInv, NEW t \in Threads, Others(t),
         count' \in Nat, count' <= count, op'[t] \in Ops \cup {"none"},
         pc'[t] \notin {"increment", "putTest"}
  PROVE  BoundInv'
<1> USE DEF Inv, TypeOK
<1>1. \A x \in Threads : op'[x] \in Ops \cup {"none"}
  BY DEF BoundInv, Others
<1>2. Entering \in 0..1 /\ Entering' \in 0..1
  BY DEF Entering
<1>3. Entering' <= Entering
  <2>1. (\E x \in Threads : pc'[x] = "increment") => (\E x \in Threads : pc[x] = "increment")
    BY DEF Others
  <2>2. QED
    BY <2>1 DEF Entering
<1>4. Fits(count + Entering)'
  <2>1. Fits(count' + Entering')
    BY <1>2, <1>3, FitsLess DEF BoundInv
  <2>2. QED
    BY <2>1 DEF Fits
<1>5. ASSUME NEW x \in Threads, pc'[x] = "putTest"
      PROVE  count' <= n'[x] /\ Fits(n[x])'
  <2>1. x # t /\ pc[x] = "putTest" /\ n'[x] = n[x]
    BY <1>5 DEF Others
  <2>2. count <= n[x] /\ Fits(n[x])
    BY <2>1 DEF BoundInv
  <2>3. QED
    BY <2>1, <2>2 DEF Fits
<1>6. QED
  BY <1>1, <1>4, <1>5 DEF BoundInv

\* Only the owner of putLock is at the labels of an insertion.
LEMMA OneInserter ==
  ASSUME Inv, NEW t \in Threads, pc[t] \in PutHeld \cup FullHeld \cup {"fullTakeLock"},
         NEW x \in Threads, pc[x] \in PutHeld
  PROVE  x = t
BY DEF Inv, LockInv

LEMMA BoundStep ==
  ASSUME Inv, BoundInv, NeverResized \/ OnlyOffers, NEW t \in Threads,
         Begin(t) \/ Step(t) \/ Interrupt(t) \/ TimedWaitEnds(t)
  PROVE  BoundInv'
<1> USE DEF Inv, TypeOK
<1>0. Others(t)
  BY OthersFrame
<1>1. CASE Begin(t)
  <2>1. /\ op'[t] \in Ops \cup {"none"} /\ count' = count
        /\ pc'[t] \notin {"increment", "putTest"}
    BY <1>1 DEF Begin, Goto, FirstLabel, shared
  <2>2. QED
    BY <1>0, <2>1, BoundQuiet
<1>2. CASE PutLock(t)
  <2>1. /\ pc'[t] = "putTest" /\ n'[t] = count /\ count' = count /\ op' = op
        /\ putLock = NoThread
    BY <1>2 DEF PutLock, Goto
  <2>2. \A x \in Threads : pc[x] \notin PutHeld
    BY <2>1, ThreadsAssumption DEF LockInv
  <2>3. Entering' = 0 /\ Entering = 0
    BY <1>0, <2>1, <2>2 DEF Entering, Others, PutHeld
  <2>4. Fits(count)
    BY <2>3 DEF BoundInv
  <2>5. Fits(count + Entering)'
    BY <2>1, <2>3, <2>4 DEF Fits
  <2>6. \A x \in Threads : pc'[x] = "putTest" => x = t
    BY <1>0, <2>2 DEF Others, PutHeld
  <2>7. count' <= n'[t] /\ Fits(n[t])'
    BY <2>1, <2>4 DEF Fits
  <2>8. QED
    BY <2>1, <2>5, <2>6, <2>7 DEF BoundInv
<1>3. CASE Enqueue(t)
  <2>1. /\ pc[t] = "putTest" /\ pc'[t] = "increment" /\ count' = count /\ op' = op
        /\ MayInsert(op[t], n[t], capacity)
    BY <1>3 DEF Enqueue, Goto, locals
  <2>2. count <= n[t] /\ Fits(n[t]) /\ op[t] \in InsertOps /\ op[t] \in Ops
    BY <2>1 DEF BoundInv, LabelInv, LabelOK, InsertOps
  <2>3. n[t] < capacity
    <3>1. CASE op[t] = "offer"
      BY <2>1, <3>1 DEF MayInsert
    <3>2. CASE op[t] # "offer"
      <4>1. NeverResized
        BY <2>2, <3>2 DEF OnlyOffers
      <4>2. n[t] <= capacity
        BY <2>2, <4>1 DEF Fits, NeverResized
      <4>3. n[t] # capacity
        BY <2>1, <3>2 DEF MayInsert
      <4>4. QED
        BY <4>2, <4>3, CapacitiesAssumption
    <3>3. QED
      BY <3>1, <3>2
  <2>4. count + 1 <= capacity
    BY <2>2, <2>3, CapacitiesAssumption
  <2>5. Entering' = 1
    BY <2>1 DEF Entering
  <2>6. Fits(count + Entering)'
    BY <2>1, <2>4, <2>5 DEF Fits
  <2>7. \A x \in Threads : pc'[x] # "putTest"
    BY <1>0, <2>1, OneInserter DEF Others, PutHeld
  <2>8. QED
    BY <2>1, <2>6, <2>7 DEF BoundInv
<1>4. CASE Increment(t)
  <2>1. /\ pc[t] = "increment" /\ pc'[t] = "signalMore" /\ count' = count + 1 /\ op' = op
    BY <1>4 DEF Increment, Goto
  <2>2. Entering = 1
    BY <2>1 DEF Entering
  <2>3. \A x \in Threads : pc'[x] \notin {"increment", "putTest"}
    BY <1>0, <2>1, OneInserter DEF Others, PutHeld
  <2>4. Entering' = 0
    BY <2>3 DEF Entering
  <2>5. Fits(count + Entering)'
    BY <2>1, <2>2, <2>4 DEF Fits, BoundInv
  <2>6. QED
    BY <2>1, <2>3, <2>5 DEF BoundInv
<1>5. CASE \/ OfferRead(t) \/ OfferTest(t) \/ PutAwait(t) \/ PutRefuse(t)
           \/ SignalMore(t) \/ SignalNotEmpty(t)
  <2>1. op' = op /\ count' = count
    BY <1>5 DEF OfferRead, OfferTest, PutAwait, PutRefuse, SignalMore, SignalNotEmpty,
                shared, locals
  <2>2. pc'[t] \notin {"increment", "putTest"}
    BY <1>5 DEF OfferRead, OfferTest, PutAwait, PutRefuse, SignalMore, SignalNotEmpty,
                Goto, SignalPutter, SignalTaker, SignalAndGoto
  <2>3. QED
    BY <1>0, <2>1, <2>2, BoundQuiet DEF BoundInv
<1>6. CASE TakeStep(t)
  <2>1. op' = op
    BY <1>6 DEF TakeStep, PollTest, TakeLock, Dequeue, TakeAwait, TakeRefuse, Decrement,
                TakeCompare, SignalNotFull, PeekRead, Drain, DrainCount, DrainCompare, locals
  <2>2. count' \in Nat
    BY TypeStep DEF Next, Step
  <2>3. count' <= count
    BY <1>6 DEF TakeStep, PollTest, TakeLock, Dequeue, TakeAwait, TakeRefuse, Decrement,
                TakeCompare, SignalNotFull, PeekRead, Drain, DrainCount, DrainCompare, shared
  <2>4. pc'[t] \notin {"increment", "putTest"}
    BY <1>6 DEF TakeStep, PollTest, TakeLock, Dequeue, TakeAwait, TakeRefuse, Decrement,
                TakeCompare, SignalNotFull, PeekRead, Drain, DrainCount, DrainCompare,
                Goto, SignalPutter, SignalTaker, SignalAndGoto
  <2>5. QED
    BY <1>0, <2>1, <2>2, <2>3, <2>4, BoundQuiet DEF BoundInv
<1>7. CASE FullStep(t)
  <2>1. op' = op
    BY <1>7 DEF FullStep, FullPutLock, FullTakeLock, RemoveItem, FullRead, Clear,
                FullCompare, locals
  <2>2. count' \in Nat
    BY <1>7, TypeStep DEF Next, Step
  <2>3. count' <= count
    BY <1>7 DEF FullStep, FullPutLock, FullTakeLock, RemoveItem, FullRead, Clear,
                FullCompare, shared
  <2>4. pc'[t] \notin {"increment", "putTest"}
    BY <1>7 DEF FullStep, FullPutLock, FullTakeLock, RemoveItem, FullRead, Clear,
                FullCompare, Goto, SignalPutter, SignalAndGoto
  <2>5. QED
    BY <1>0, <2>1, <2>2, <2>3, <2>4, BoundQuiet DEF BoundInv
<1>8. CASE Return(t) \/ Interrupt(t) \/ TimedWaitEnds(t)
  <2>1. /\ op'[t] \in Ops \cup {"none"} /\ count' = count
        /\ pc'[t] \notin {"increment", "putTest"}
    BY <1>8 DEF Return, Interrupt, TimedWaitEnds, Leave, Goto, shared, BoundInv
  <2>2. QED
    BY <1>0, <2>1, BoundQuiet
<1>9. QED
  BY <1>1, <1>2, <1>3, <1>4, <1>5, <1>6, <1>7, <1>8 DEF Step, PutStep

LEMMA BoundInvariance ==
  ASSUME NeverResized \/ OnlyOffers
  PROVE  Spec => []BoundInv
<1>1. Init => BoundInv
  <2>1. SUFFICES ASSUME Init PROVE BoundInv
    OBVIOUS
  <2>2. Entering = 0 /\ count = 0
    BY <2>1 DEF Init, Entering
  <2>3. Fits(0)
    BY CapacitiesAssumption DEF Fits
  <2>4. QED
    BY <2>1, <2>2, <2>3 DEF Init, BoundInv
<1>2. Inv /\ BoundInv /\ [Next]_vars => BoundInv'
  <2>1. ASSUME Inv, BoundInv, UNCHANGED vars \/ SetCapacity PROVE BoundInv'
    BY <2>1 DEF vars, shared, locals, SetCapacity, BoundInv, Entering, Fits
  <2>2. QED
    BY <2>1, BoundStep DEF Next
<1>3. QED
  BY <1>1, <1>2, Invariance, PTL DEF Spec

\* The queue never holds more than some capacity it was given allows, if nobody
\* moves the capacity or nobody inserts but with offer, which is what a pool does:
\* offer's two unlocked reads and setCapacity at any moment cannot overfill it.
THEOREM CapacityBoundsTheQueue ==
  ASSUME NeverResized \/ OnlyOffers
  PROVE  Spec => []WithinCapacity
<1>1. Inv /\ BoundInv => WithinCapacity
  <2>1. SUFFICES ASSUME Inv, BoundInv PROVE Fits(count)
    BY DEF WithinCapacity, Fits
  <2>2. Entering \in 0..1 /\ count \in Nat
    BY <2>1 DEF Entering, Inv, TypeOK
  <2>3. QED
    BY <2>1, <2>2, FitsLess DEF BoundInv
<1>2. QED
  BY <1>1, BoundInvariance, Invariance, PTL

-----------------------------------------------------------------------------
(***************************************************************************)
(* No lost wake-up on notFull.  The duty to wake a putter passes from the  *)
(* removal that found the queue full to the putter it wakes, and from each *)
(* insertion that leaves room to the next putter.                          *)
(***************************************************************************)

\* With one capacity the bounds are the capacity in force.
LEMMA WithinTheCapacity ==
  ASSUME Inv, BoundInv, NeverResized
  PROVE  /\ count <= capacity
         /\ \A t \in Threads : pc[t] = "putTest" => n[t] <= capacity
<1> USE CapacitiesAssumption DEF Inv, TypeOK
<1>1. Entering \in 0..1
  BY DEF Entering
<1>2. \A i \in Int : Fits(i) => i <= capacity
  BY DEF Fits, NeverResized
<1>3. count + Entering <= capacity
  BY <1>1, <1>2 DEF BoundInv
<1>4. QED
  BY <1>1, <1>2, <1>3 DEF BoundInv

\* A thread without the duty takes a step that makes nobody else stall.
LEMMA PutterQuiet ==
  ASSUME Inv, NoStrandedPutter, NEW t \in Threads, Others(t), ~PutDuty(t),
         PutterStalls(t)' => PutterStalls(t), capacity' = capacity,
         count' < capacity => count < capacity
  PROVE  NoStrandedPutter'
<1> SUFFICES ASSUME count' < capacity, NEW s \in Threads, PutterStalls(s)'
             PROVE  \E u \in Threads : PutDuty(u)'
  BY DEF NoStrandedPutter
<1>1. PutterStalls(s)
  BY DEF PutterStalls, Others
<1>2. PICK u \in Threads : PutDuty(u)
  BY <1>1 DEF NoStrandedPutter
<1>3. PutDuty(u)'
  BY <1>2 DEF PutDuty, Others
<1>4. QED
  BY <1>3

\* A signal reaches a waiting putter if there is one.
LEMMA SignalledPutter ==
  ASSUME Inv, NEW t \in Threads, NEW label, SignalPutter(t, label),
         pc[t] # "putWait", label # "putWait",
         \A x \in Threads : pc'[x] # "putTest"
  PROVE  NoStrandedPutter'
<1>1. CASE \E w \in Threads : pc[w] = "putWait"
  <2>1. PICK w \in Threads : pc[w] = "putWait" /\ pc' = [pc EXCEPT ![w] = "putRelock", ![t] = label]
    BY <1>1 DEF SignalPutter, SignalAndGoto
  <2>2. pc'[w] = "putRelock"
    BY <2>1 DEF Inv, TypeOK
  <2>3. QED
    BY <2>2 DEF NoStrandedPutter, PutDuty
<1>2. CASE \A w \in Threads : pc[w] # "putWait"
  <2>1. \A w \in Threads : pc'[w] # "putWait"
    BY <1>2 DEF SignalPutter, SignalAndGoto, Goto, Inv, TypeOK
  <2>2. QED
    BY <2>1 DEF NoStrandedPutter, PutterStalls
<1>3. QED
  BY <1>1, <1>2

LEMMA PutterStep ==
  ASSUME Inv, BoundInv, NeverResized, NoStrandedPutter, NEW t \in Threads,
         Begin(t) \/ Step(t) \/ Interrupt(t) \/ TimedWaitEnds(t)
  PROVE  NoStrandedPutter'
<1> USE CapacitiesAssumption DEF Inv, TypeOK
<1>0. Others(t)
  BY OthersFrame
<1>a. count <= capacity
  BY WithinTheCapacity
<1>1. CASE Begin(t)
  <2>1. ~PutDuty(t) /\ ~PutterStalls(t)' /\ count' = count /\ capacity' = capacity
    BY <1>1 DEF Begin, Goto, FirstLabel, PutDuty, PutterStalls, shared
  <2>2. QED
    BY <2>1, <1>0, PutterQuiet
<1>2. CASE PutStep(t)
  <2>1. CASE OfferRead(t)
    <3>1. ~PutDuty(t) /\ ~PutterStalls(t)' /\ count' = count /\ capacity' = capacity
      BY <2>1 DEF OfferRead, Goto, PutDuty, PutterStalls, shared
    <3>2. QED
      BY <3>1, <1>0, PutterQuiet
  <2>2. CASE OfferTest(t)
    <3>1. ~PutDuty(t) /\ ~PutterStalls(t)' /\ count' = count /\ capacity' = capacity
      BY <2>2 DEF OfferTest, Goto, PutDuty, PutterStalls, shared
    <3>2. QED
      BY <3>1, <1>0, PutterQuiet
  <2>3. CASE PutLock(t)
    <3>1. pc'[t] = "putTest" /\ n'[t] = count /\ count' = count /\ capacity' = capacity
      BY <2>3 DEF PutLock, Goto
    <3>2. count < capacity => PutDuty(t)'
      BY <3>1 DEF PutDuty
    <3>3. QED
      BY <3>1, <3>2 DEF NoStrandedPutter
  <2>4. CASE Enqueue(t)
    <3>1. PutDuty(t)'
      BY <2>4 DEF Enqueue, Goto, PutDuty
    <3>2. QED
      BY <3>1 DEF NoStrandedPutter
  <2>5. CASE PutAwait(t)
    <3>1. /\ ~PutDuty(t) /\ PutterStalls(t)
          /\ count' = count /\ capacity' = capacity
      BY <2>5 DEF PutAwait, MayInsert, PutDuty, PutterStalls
    <3>2. QED
      BY <3>1, <1>0, PutterQuiet
  <2>6. CASE PutRefuse(t)
    <3>1. pc[t] = "putTest" /\ n[t] <= capacity /\ ~MayInsert(op[t], n[t], capacity)
      BY <2>6, WithinTheCapacity DEF PutRefuse
    <3>2. n[t] = capacity
      BY <3>1 DEF MayInsert
    <3>3. ~PutDuty(t) /\ ~PutterStalls(t)' /\ count' = count /\ capacity' = capacity
      BY <2>6, <3>2 DEF PutRefuse, Goto, PutDuty, PutterStalls
    <3>4. QED
      BY <3>3, <1>0, PutterQuiet
  <2>7. CASE Increment(t)
    <3>1. /\ pc'[t] = "signalMore" /\ c'[t] = count
          /\ count' = count + 1 /\ capacity' = capacity
      BY <2>7 DEF Increment, Goto
    <3>2. count' < capacity' => PutDuty(t)'
      BY <3>1 DEF PutDuty
    <3>3. QED
      BY <3>2 DEF NoStrandedPutter
  <2>8. CASE SignalMore(t)
    <3>1. CASE RoomLeft(c[t], capacity)
      <4>1. PICK next \in {"signalNotEmpty", "return"} : SignalPutter(t, next)
        BY <2>8, <3>1 DEF SignalMore
      <4>2. pc[t] = "signalMore" /\ \A x \in Threads : pc[x] # "putTest"
        BY <2>8, OneInserter DEF SignalMore, PutHeld
      <4>3. \A x \in Threads : pc'[x] # "putTest"
        BY <4>1, <4>2, <1>0 DEF Others, SignalPutter, SignalAndGoto, Goto
      <4>4. QED
        BY <4>1, <4>2, <4>3, SignalledPutter
    <3>2. CASE ~RoomLeft(c[t], capacity)
      <4>1. ~PutDuty(t) /\ ~PutterStalls(t)' /\ count' = count /\ capacity' = capacity
        BY <2>8, <3>2 DEF SignalMore, RoomLeft, Goto, PutDuty, PutterStalls
      <4>2. QED
        BY <4>1, <1>0, PutterQuiet
    <3>3. QED
      BY <3>1, <3>2
  <2>9. CASE SignalNotEmpty(t)
    <3>1. ~PutDuty(t) /\ ~PutterStalls(t)' /\ count' = count /\ capacity' = capacity
      BY <2>9 DEF SignalNotEmpty, SignalTaker, SignalAndGoto, Goto, PutDuty, PutterStalls, shared
    <3>2. QED
      BY <3>1, <1>0, PutterQuiet
  <2>10. QED
    BY <1>2, <2>1, <2>2, <2>3, <2>4, <2>5, <2>6, <2>7, <2>8, <2>9 DEF PutStep
<1>3. CASE TakeStep(t)
  <2>1. CASE PollTest(t)
    <3>1. ~PutDuty(t) /\ ~PutterStalls(t)' /\ count' = count /\ capacity' = capacity
      BY <2>1 DEF PollTest, Goto, PutDuty, PutterStalls, shared
    <3>2. QED
      BY <3>1, <1>0, PutterQuiet
  <2>2. CASE TakeLock(t)
    <3>1. ~PutDuty(t) /\ ~PutterStalls(t)' /\ count' = count /\ capacity' = capacity
      BY <2>2 DEF TakeLock, Goto, PutDuty, PutterStalls, shared
    <3>2. QED
      BY <3>1, <1>0, PutterQuiet
  <2>3. CASE Dequeue(t)
    <3>1. ~PutDuty(t) /\ ~PutterStalls(t)' /\ count' = count /\ capacity' = capacity
      BY <2>3 DEF Dequeue, Goto, PutDuty, PutterStalls, shared
    <3>2. QED
      BY <3>1, <1>0, PutterQuiet
  <2>4. CASE TakeAwait(t)
    <3>1. ~PutDuty(t) /\ ~PutterStalls(t)' /\ count' = count /\ capacity' = capacity
      BY <2>4 DEF TakeAwait, Goto, PutDuty, PutterStalls, shared
    <3>2. QED
      BY <3>1, <1>0, PutterQuiet
  <2>5. CASE TakeRefuse(t)
    <3>1. ~PutDuty(t) /\ ~PutterStalls(t)' /\ count' = count /\ capacity' = capacity
      BY <2>5 DEF TakeRefuse, Goto, PutDuty, PutterStalls, shared
    <3>2. QED
      BY <3>1, <1>0, PutterQuiet
  <2>6. CASE Decrement(t)
    <3>1. ~PutDuty(t) /\ pc'[t] = "takeCompare" /\ c'[t] = count /\ capacity' = capacity
      BY <2>6 DEF Decrement, SignalTaker, SignalAndGoto, Goto, PutDuty
    <3>2. CASE count = capacity
      BY <3>1, <3>2 DEF NoStrandedPutter, PutDuty
    <3>3. CASE count < capacity
      <4>1. ~PutterStalls(t)'
        BY <3>1 DEF PutterStalls
      <4>2. QED
        BY <3>1, <3>3, <4>1, <1>0, PutterQuiet
    <3>4. QED
      BY <3>2, <3>3, <1>a
  <2>7. CASE TakeCompare(t)
    <3>1. CASE c[t] = capacity
      <4>1. PutDuty(t)'
        BY <2>7, <3>1 DEF TakeCompare, WasFull, Goto, PutDuty
      <4>2. QED
        BY <4>1 DEF NoStrandedPutter
    <3>2. CASE c[t] # capacity
      <4>1. ~PutDuty(t) /\ ~PutterStalls(t)' /\ count' = count /\ capacity' = capacity
        BY <2>7, <3>2 DEF TakeCompare, WasFull, Goto, PutDuty, PutterStalls, shared
      <4>2. QED
        BY <4>1, <1>0, PutterQuiet
    <3>3. QED
      BY <3>1, <3>2
  <2>8. CASE SignalNotFull(t)
    <3>1. putLock = NoThread /\ pc[t] = "signalNotFull" /\ SignalPutter(t, "return")
      BY <2>8 DEF SignalNotFull
    <3>2. \A x \in Threads : pc[x] # "putTest"
      BY <3>1, ThreadsAssumption DEF LockInv, PutHeld
    <3>3. \A x \in Threads : pc'[x] # "putTest"
      BY <3>1, <3>2, <1>0 DEF Others, SignalPutter, SignalAndGoto, Goto
    <3>4. QED
      BY <3>1, <3>3, SignalledPutter
  <2>9. CASE PeekRead(t)
    <3>1. ~PutDuty(t) /\ ~PutterStalls(t)' /\ count' = count /\ capacity' = capacity
      BY <2>9 DEF PeekRead, Goto, PutDuty, PutterStalls, shared
    <3>2. QED
      BY <3>1, <1>0, PutterQuiet
  <2>10. CASE Drain(t)
    <3>1. ~PutDuty(t) /\ ~PutterStalls(t)' /\ count' = count /\ capacity' = capacity
      BY <2>10 DEF Drain, Goto, PutDuty, PutterStalls, shared
    <3>2. QED
      BY <3>1, <1>0, PutterQuiet
  <2>11. CASE DrainCount(t)
    <3>1. ~PutDuty(t) /\ pc'[t] = "drainCompare" /\ c'[t] = count /\ capacity' = capacity
      BY <2>11 DEF DrainCount, SignalTaker, SignalAndGoto, Goto, PutDuty
    <3>2. CASE count = capacity
      BY <3>1, <3>2 DEF NoStrandedPutter, PutDuty
    <3>3. CASE count < capacity
      <4>1. ~PutterStalls(t)'
        BY <3>1 DEF PutterStalls
      <4>2. QED
        BY <3>1, <3>3, <4>1, <1>0, PutterQuiet
    <3>4. QED
      BY <3>2, <3>3, <1>a
  <2>12. CASE DrainCompare(t)
    <3>1. CASE c[t] = capacity
      <4>1. PutDuty(t)'
        BY <2>12, <3>1 DEF DrainCompare, WasFull, Goto, PutDuty
      <4>2. QED
        BY <4>1 DEF NoStrandedPutter
    <3>2. CASE c[t] # capacity
      <4>1. ~PutDuty(t) /\ ~PutterStalls(t)' /\ count' = count /\ capacity' = capacity
        BY <2>12, <3>2 DEF DrainCompare, WasFull, Goto, PutDuty, PutterStalls, shared
      <4>2. QED
        BY <4>1, <1>0, PutterQuiet
    <3>3. QED
      BY <3>1, <3>2
  <2>13. QED
    BY <1>3, <2>1, <2>2, <2>3, <2>4, <2>5, <2>6, <2>7, <2>8, <2>9, <2>10, <2>11, <2>12 DEF TakeStep
<1>4. CASE FullStep(t)
  <2>1. CASE FullPutLock(t)
    <3>1. ~PutDuty(t) /\ ~PutterStalls(t)' /\ count' = count /\ capacity' = capacity
      BY <2>1 DEF FullPutLock, Goto, PutDuty, PutterStalls, shared
    <3>2. QED
      BY <3>1, <1>0, PutterQuiet
  <2>2. CASE FullTakeLock(t)
    <3>1. ~PutDuty(t) /\ ~PutterStalls(t)' /\ count' = count /\ capacity' = capacity
      BY <2>2 DEF FullTakeLock, Goto, PutDuty, PutterStalls, shared
    <3>2. QED
      BY <3>1, <1>0, PutterQuiet
  <2>3. CASE RemoveItem(t)
    <3>1. ~PutDuty(t) /\ pc'[t] = "fullCompare" /\ c'[t] = count /\ capacity' = capacity
      BY <2>3 DEF RemoveItem, SignalTaker, SignalAndGoto, Goto, PutDuty
    <3>2. CASE count = capacity
      BY <3>1, <3>2 DEF NoStrandedPutter, PutDuty
    <3>3. CASE count < capacity
      <4>1. ~PutterStalls(t)'
        BY <3>1 DEF PutterStalls
      <4>2. QED
        BY <3>1, <3>3, <4>1, <1>0, PutterQuiet
    <3>4. QED
      BY <3>2, <3>3, <1>a
  <2>4. CASE FullRead(t)
    <3>1. ~PutDuty(t) /\ ~PutterStalls(t)' /\ count' = count /\ capacity' = capacity
      BY <2>4 DEF FullRead, Goto, PutDuty, PutterStalls, shared
    <3>2. QED
      BY <3>1, <1>0, PutterQuiet
  <2>5. CASE Clear(t)
    <3>1. ~PutDuty(t) /\ pc'[t] = "fullCompare" /\ c'[t] = count /\ capacity' = capacity
      BY <2>5 DEF Clear, SignalTaker, SignalAndGoto, Goto, PutDuty
    <3>2. CASE count = capacity
      BY <3>1, <3>2 DEF NoStrandedPutter, PutDuty
    <3>3. CASE count < capacity
      <4>1. ~PutterStalls(t)'
        BY <3>1 DEF PutterStalls
      <4>2. QED
        BY <3>1, <3>3, <4>1, <1>0, PutterQuiet
    <3>4. QED
      BY <3>2, <3>3, <1>a
  <2>6. CASE FullCompare(t)
    <3>1. CASE c[t] = capacity
      <4>1. pc[t] = "fullCompare" /\ SignalPutter(t, "return")
        BY <2>6, <3>1 DEF FullCompare, WasFull
      <4>2. \A x \in Threads : pc[x] # "putTest"
        BY <4>1, OneInserter DEF PutHeld, FullHeld
      <4>3. \A x \in Threads : pc'[x] # "putTest"
        BY <4>1, <4>2, <1>0 DEF Others, SignalPutter, SignalAndGoto, Goto
      <4>4. QED
        BY <4>1, <4>3, SignalledPutter
    <3>2. CASE c[t] # capacity
      <4>1. ~PutDuty(t) /\ ~PutterStalls(t)' /\ count' = count /\ capacity' = capacity
        BY <2>6, <3>2 DEF FullCompare, WasFull, Goto, PutDuty, PutterStalls
      <4>2. QED
        BY <4>1, <1>0, PutterQuiet
    <3>3. QED
      BY <3>1, <3>2
  <2>7. QED
    BY <1>4, <2>1, <2>2, <2>3, <2>4, <2>5, <2>6 DEF FullStep
<1>5. CASE Return(t) \/ Interrupt(t)
  <2>1. ~PutDuty(t) /\ ~PutterStalls(t)' /\ count' = count /\ capacity' = capacity
    BY <1>5 DEF Return, Interrupt, Interruptible, Leave, Goto, PutDuty, PutterStalls, shared
  <2>2. QED
    BY <2>1, <1>0, PutterQuiet
<1>6. CASE TimedWaitEnds(t)
  <2>1. CASE pc[t] = "putWait"
    <3>1. PutDuty(t)'
      BY <1>6, <2>1 DEF TimedWaitEnds, Goto, PutDuty
    <3>2. QED
      BY <3>1 DEF NoStrandedPutter
  <2>2. CASE pc[t] = "takeWait"
    <3>1. ~PutDuty(t) /\ ~PutterStalls(t)' /\ count' = count /\ capacity' = capacity
      BY <1>6, <2>2 DEF TimedWaitEnds, Goto, PutDuty, PutterStalls, shared
    <3>2. QED
      BY <3>1, <1>0, PutterQuiet
  <2>3. QED
    BY <1>6, <2>1, <2>2 DEF TimedWaitEnds
<1>7. QED
  BY <1>1, <1>2, <1>3, <1>4, <1>5, <1>6 DEF Step

\* No wake-up of a putter is lost while the capacity stays what it is, whatever
\* insertions, removals, timeouts and interrupts do: WasFull compares with = a count
\* that only then cannot pass the capacity by.
THEOREM PuttersAreNotStranded ==
  ASSUME NeverResized
  PROVE  Spec => []NoStrandedPutter
<1>1. Init => NoStrandedPutter
  BY DEF Init, NoStrandedPutter, PutterStalls
<1>2. Inv /\ BoundInv /\ NoStrandedPutter /\ [Next]_vars => NoStrandedPutter'
  <2>1. ASSUME NoStrandedPutter, UNCHANGED vars PROVE NoStrandedPutter'
    BY <2>1 DEF vars, shared, locals, NoStrandedPutter, PutterStalls, PutDuty
  <2>2. ASSUME Inv, NoStrandedPutter, SetCapacity PROVE NoStrandedPutter'
    <3>1. capacity' = capacity
      BY <2>2 DEF SetCapacity, NeverResized, Inv, TypeOK
    <3>2. QED
      BY <2>2, <3>1 DEF SetCapacity, locals, NoStrandedPutter, PutterStalls, PutDuty
  <2>3. QED
    BY <2>1, <2>2, PutterStep DEF Next
<1>3. QED
  BY <1>1, <1>2, Invariance, BoundInvariance, PTL DEF Spec
=============================================================================
