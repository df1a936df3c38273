-------------------- MODULE ResizableQueueRefinementProofs --------------------
(***************************************************************************)
(* Proof that ResizableQueue implements BoundedQueue: the queue is         *)
(* linearizable for any number of threads, elements and calls, while its   *)
(* capacity stays what it is.                                              *)
(***************************************************************************)
EXTENDS ResizableQueueRefinement, ResizableQueueBoundProofs, NumbersAndLists

\* The labels of a call that has updated neither count nor the list.
Early == {"idle", "offerRead", "offerTest", "putLock", "putWait", "putRelock",
          "putTest", "increment", "pollTest", "takeLock", "takeWait", "takeRelock",
          "takeTest", "drain", "fullPutLock", "fullTakeLock", "fullBody"}

\* Which operation a label belongs to, and what its call holds so far; the
\* element that is not counted in yet is the last of the list.
Shape(t) ==
  /\ pc[t] = "idle" => op[t] = "none"
  /\ pc[t] \in {"offerRead", "offerTest"} => op[t] = "offer"
  /\ pc[t] = "pollTest" => op[t] = "poll"
  /\ pc[t] \in {"putWait", "putRelock"} => op[t] \in {"put", "offerTimed"}
  /\ pc[t] \in {"takeWait", "takeRelock"} => op[t] \in {"take", "pollTimed"}
  /\ t \in expired => op[t] \in TimedOps
  /\ pc[t] \in Early => c[t] < 0
  /\ pc[t] \in Early /\ op[t] \notin InsertOps \cup {"remove"} => hand[t] = <<>>
  /\ pc[t] = "increment" => items # <<>> /\ hand[t] = <<items[Len(items)]>>

ShapeInv == \A t \in Threads : Shape(t)

\* The capacity in force is the only one, and no call is a peek.
RefInv == Inv /\ BoundInv /\ ShapeInv

-----------------------------------------------------------------------------
(***************************************************************************)
(* The capacity.                                                           *)
(***************************************************************************)

LEMMA OneCapacity == NeverResized
  BY FixedCapacity DEF NeverResized

LEMMA CapacityInForce ==
  ASSUME RefInv
  PROVE  /\ capacity = TheCapacity
         /\ count \in Nat /\ capacity \in Nat /\ count + Entering <= capacity
         /\ \A t \in Threads : /\ op[t] # "peek"
                               /\ pc[t] = "putTest" => n[t] <= capacity
<1> USE DEF RefInv, Inv, TypeOK
<1>1. capacity = TheCapacity
  BY FixedCapacity DEF TheCapacity
<1>2. \A i \in Int : Fits(i) => i <= capacity
  BY OneCapacity DEF Fits, NeverResized
<1>3. Entering \in 0..1 /\ count \in Nat /\ capacity \in Int
  BY CapacitiesAssumption DEF Entering
<1>4. count + Entering <= capacity
  BY <1>2, <1>3 DEF BoundInv
<1>5. \A t \in Threads : op[t] # "peek"
  BY NoPeek DEF BoundInv
<1>6. \A t \in Threads : pc[t] = "putTest" => n[t] <= capacity
  BY <1>2 DEF BoundInv
<1>7. capacity \in Nat
  BY <1>3, <1>4
<1>8. QED
  BY <1>1, <1>3, <1>4, <1>5, <1>6, <1>7

-----------------------------------------------------------------------------
(***************************************************************************)
(* The list, and the part of it that count counts.                         *)
(***************************************************************************)

\* takeLock has one owner.
LEMMA OneRemover ==
  ASSUME Inv, NEW t \in Threads, pc[t] \in TakeHeld \cup FullHeld,
         NEW x \in Threads, pc[x] \in TakeHeld \cup FullHeld
  PROVE  x = t
BY DEF Inv, LockInv

Counted == SubSeq(items, 1, Len(items) - Entering)

\* The abstract buffer, and its length.
BufferInv ==
  /\ (\A t \in Threads : ~Leaving(t)) =>
       /\ CountedBuffer = Counted
       /\ Len(items) = count + Entering
  /\ \A t \in Threads : Leaving(t) =>
       /\ CountedBuffer = hand[t] \o Counted
       /\ Len(items) + Len(hand[t]) = count + Entering
       /\ Len(hand[t]) <= count /\ Len(hand[t]) \in Nat
  /\ Counted \in Seq(Elems) /\ Len(Counted) = Len(items) - Entering
  /\ Len(items) - Entering \in 0..Len(items)
  /\ CountedBuffer \in Seq(Elems) /\ Len(CountedBuffer) = count
  /\ Entering \in 0..1

LEMMA BufferFacts == Inv => BufferInv
<1> SUFFICES ASSUME Inv PROVE BufferInv
  OBVIOUS
<1>1. /\ items \in Seq(Elems) /\ Len(items) \in Nat /\ count \in Nat
      /\ \A t \in Threads : hand[t] \in Seq(Elems) /\ Len(hand[t]) \in Nat
      /\ Entering \in 0..1
  BY DEF Inv, TypeOK, Entering
<1>2. \A t \in Threads : Leaving(t) =>
        /\ Len(items) + Len(hand[t]) = count + Entering
        /\ Len(hand[t]) <= count
  <2> TAKE t \in Threads
  <2>1. ASSUME NEW x \in Threads, Leaving(x), Leaving(t) PROVE x = t
    BY <2>1, OneRemover DEF Leaving, TakeHeld
  <2>2. QED
    BY <2>1 DEF Inv, CountInv, CountTracksItems
<1>3. (\A t \in Threads : ~Leaving(t)) => Len(items) = count + Entering
  BY DEF Inv, CountInv, CountTracksItems
<1>4. Len(items) - Entering \in 0..Len(items)
  <2>1. CASE \A t \in Threads : ~Leaving(t)
    BY <1>1, <1>3, <2>1
  <2>2. ASSUME NEW t \in Threads, Leaving(t) PROVE Len(items) - Entering \in 0..Len(items)
    BY <1>1, <1>2, <2>2
  <2>3. QED
    BY <2>1, <2>2
<1>5. Counted \in Seq(Elems) /\ Len(Counted) = Len(items) - Entering
  BY <1>1, <1>4, PrefixProperties DEF Counted
<1>6. ASSUME \A t \in Threads : ~Leaving(t)
      PROVE  CountedBuffer = Counted
  <2>1. {t \in Threads : Leaving(t)} = {}
    BY <1>6
  <2>2. CountedBuffer = <<>> \o Counted
    BY <2>1 DEF CountedBuffer, Counted
  <2>3. QED
    BY <1>5, <2>2, ConcatEmptySeq
<1>7. ASSUME NEW t \in Threads, Leaving(t)
      PROVE  CountedBuffer = hand[t] \o Counted
  <2>1. {x \in Threads : Leaving(x)} = {t}
    BY <1>7, OneRemover DEF Leaving, TakeHeld
  <2>2. (CHOOSE x \in {t} : TRUE) = t
    OBVIOUS
  <2>3. {t} # {}
    OBVIOUS
  <2>4. CountedBuffer = hand[CHOOSE x \in {t} : TRUE] \o Counted
    BY <2>1, <2>3 DEF CountedBuffer, Counted
  <2>5. QED
    BY <2>2, <2>4
<1>8. CountedBuffer \in Seq(Elems) /\ Len(CountedBuffer) = count
  <2>1. CASE \A t \in Threads : ~Leaving(t)
    BY <1>1, <1>3, <1>5, <1>6, <2>1
  <2>2. ASSUME NEW t \in Threads, Leaving(t)
        PROVE  CountedBuffer \in Seq(Elems) /\ Len(CountedBuffer) = count
    <3>1. CountedBuffer \in Seq(Elems) /\ Len(CountedBuffer) = Len(hand[t]) + Len(Counted)
      BY <1>1, <1>5, <1>7, <2>2, ConcatProperties
    <3>2. QED
      BY <1>1, <1>2, <1>5, <2>2, <3>1
  <2>3. QED
    BY <2>1, <2>2
<1>9. QED
  BY <1>1, <1>2, <1>3, <1>4, <1>5, <1>6, <1>7, <1>8 DEF BufferInv

-----------------------------------------------------------------------------
(***************************************************************************)
(* What a step of t leaves alone.                                          *)
(***************************************************************************)

Frame(t) ==
  /\ Others(t)
  /\ capacity' = capacity
  /\ \A x \in Threads \ {t} : (x \in expired') <=> (x \in expired)

LEMMA StepFrame ==
  ASSUME TypeOK, NEW t \in Threads,
         Begin(t) \/ Step(t) \/ Interrupt(t) \/ TimedWaitEnds(t)
  PROVE  Frame(t)
<1>1. Others(t)
  BY OthersFrame
<1>2. CASE Begin(t) \/ Return(t) \/ Interrupt(t) \/ TimedWaitEnds(t)
  BY <1>1, <1>2 DEF Frame, Begin, Return, Interrupt, TimedWaitEnds, Leave, shared
<1>3. CASE PutStep(t)
  <2>1. capacity' = capacity /\ (expired' = expired \/ expired' = expired \cup {t})
    BY <1>3 DEF PutStep, OfferRead, OfferTest, PutLock, Enqueue, PutAwait, PutRefuse,
                Increment, SignalMore, SignalNotEmpty, shared, locals
  <2>2. QED
    BY <1>1, <2>1 DEF Frame
<1>4. CASE TakeStep(t)
  <2>1. capacity' = capacity /\ (expired' = expired \/ expired' = expired \cup {t})
    BY <1>4 DEF TakeStep, PollTest, TakeLock, Dequeue, TakeAwait, TakeRefuse, Decrement,
                TakeCompare, SignalNotFull, PeekRead, Drain, DrainCount, DrainCompare,
                shared, locals
  <2>2. QED
    BY <1>1, <2>1 DEF Frame
<1>5. CASE FullStep(t)
  <2>1. capacity' = capacity /\ expired' = expired
    BY <1>5 DEF FullStep, FullPutLock, FullTakeLock, RemoveItem, FullRead, Clear,
                FullCompare, shared, locals
  <2>2. QED
    BY <1>1, <2>1 DEF Frame
<1>6. QED
  BY <1>2, <1>3, <1>4, <1>5 DEF Step

\* While a thread is about to count its element in, the others leave the end
\* of the list alone.
LEMMA LastStays ==
  ASSUME Inv, NEW t \in Threads,
         Begin(t) \/ Step(t) \/ Interrupt(t) \/ TimedWaitEnds(t),
         NEW x \in Threads \ {t}, pc[x] = "increment", items # <<>>
  PROVE  items' # <<>> /\ items'[Len(items')] = items[Len(items)]
<1>1. pc[t] \notin PutHeld \cup FullHeld \cup {"fullTakeLock"}
  BY DEF Inv, LockInv, PutHeld
<1>2. Entering = 1 /\ items \in Seq(Elems) /\ Len(items) \in Nat /\ count \in Nat
  BY DEF Entering, Inv, TypeOK
<1>3. ASSUME pc[t] \in {"takeTest", "drain"}
      PROVE  n[t] \in Int /\ n[t] <= count /\ Len(items) = count + 1
  <2>1. \A y \in Threads : ~Leaving(y)
    BY <1>3, OneRemover DEF Leaving, TakeHeld
  <2>2. Len(items) = count + 1
    BY <1>2, <2>1, BufferFacts DEF BufferInv
  <2>3. QED
    BY <1>3, <2>2 DEF Inv, CountInv, TypeOK
<1>4. CASE Dequeue(t)
  <2>1. pc[t] = "takeTest" /\ n[t] > 0 /\ items' = Tail(items)
    BY <1>4 DEF Dequeue
  <2>2. Len(items) >= 2
    BY <1>2, <1>3, <2>1
  <2>3. /\ items' \in Seq(Elems) /\ Len(items') = Len(items) - 1
        /\ \A i \in 1..Len(items') : items'[i] = items[i + 1]
    BY <1>2, <2>1, HeadTailProperties
  <2>4. QED
    BY <1>2, <2>2, <2>3
<1>5. CASE Drain(t)
  <2>1. CASE items' = items
    BY <2>1
  <2>2. CASE items' # items
    <3>1. pc[t] = "drain" /\ \E i \in 1..n[t] : items' = SubSeq(items, i + 1, Len(items))
      BY <1>5, <2>2 DEF Drain
    <3>2. PICK i \in 1..n[t] : items' = SubSeq(items, i + 1, Len(items))
      BY <3>1
    <3>3. n[t] \in Int /\ n[t] <= count /\ Len(items) = count + 1
      BY <1>3, <3>1
    <3>4. i \in Nat /\ i >= 1 /\ i + 1 <= Len(items)
      BY <1>2, <3>3
    <3>5. \A j \in (i + 1)..Len(items) : items[j] \in Elems
      BY <1>2, <3>4, ElementOfSeq
    <3>6. /\ items' \in Seq(Elems) /\ Len(items') = Len(items) - (i + 1) + 1
          /\ \A j \in 1..Len(items) - (i + 1) + 1 : items'[j] = items[(i + 1) + j - 1]
      BY <1>2, <3>2, <3>4, <3>5, SubSeqProperties
    <3>7. Len(items') \in 1..Len(items) - (i + 1) + 1 /\ (i + 1) + Len(items') - 1 = Len(items)
      BY <1>2, <3>4, <3>6
    <3>8. QED
      BY <3>6, <3>7
  <2>3. QED
    BY <2>1, <2>2
<1>6. CASE ~Dequeue(t) /\ ~Drain(t)
  <2>1. CASE PutStep(t)
    BY <1>1, <2>1 DEF PutStep, OfferRead, OfferTest, PutLock, Enqueue, PutAwait, PutRefuse,
                      Increment, SignalMore, SignalNotEmpty, shared, PutHeld
  <2>2. CASE TakeStep(t)
    BY <1>6, <2>2 DEF TakeStep, PollTest, TakeLock, TakeAwait, TakeRefuse, Decrement,
                      TakeCompare, SignalNotFull, PeekRead, DrainCount, DrainCompare, shared
  <2>3. CASE FullStep(t)
    BY <1>1, <2>3 DEF FullStep, FullPutLock, FullTakeLock, RemoveItem, FullRead, Clear,
                      FullCompare, shared, FullHeld
  <2>4. CASE Begin(t) \/ Return(t) \/ Interrupt(t) \/ TimedWaitEnds(t)
    BY <2>4 DEF Begin, Return, Interrupt, TimedWaitEnds, shared
  <2>5. QED
    BY <2>1, <2>2, <2>3, <2>4 DEF Step
<1>7. QED
  BY <1>4, <1>5, <1>6

-----------------------------------------------------------------------------
(***************************************************************************)
(* The shape of a call is kept.                                            *)
(***************************************************************************)

LEMMA ShapeOfOthers ==
  ASSUME Inv, ShapeInv, NEW t \in Threads,
         Begin(t) \/ Step(t) \/ Interrupt(t) \/ TimedWaitEnds(t),
         NEW x \in Threads \ {t}
  PROVE  Shape(x)'
<1>1. Frame(t) /\ Shape(x)
  BY StepFrame DEF Inv, ShapeInv
<1>2. pc'[x] = "increment" => items' # <<>> /\ items'[Len(items')] = items[Len(items)]
  BY <1>1, LastStays DEF Frame, Others, Shape
<1>3. QED
  BY <1>1, <1>2 DEF Shape, Frame, Others, Early

LEMMA ShapeStep ==
  ASSUME Inv, ShapeInv, NEW t \in Threads,
         Begin(t) \/ Step(t) \/ Interrupt(t) \/ TimedWaitEnds(t),
         \A x \in Threads : op[x] # "peek"
  PROVE  ShapeInv'
<1> USE DEF Inv, TypeOK
<1>0. Shape(t) /\ LabelOK(t) /\ op[t] # "peek"
  BY DEF ShapeInv, LabelInv
<1>1. SUFFICES Shape(t)'
  BY ShapeOfOthers DEF ShapeInv
<1> USE DEF Shape, locals, shared
<1>2. CASE Begin(t)
  <2>1. PICK o \in Ops :
          /\ op' = [op EXCEPT ![t] = o]
          /\ pc' = [pc EXCEPT ![t] = FirstLabel(o)]
          /\ IF o \in InsertOps \cup {"remove"}
             THEN \E e \in Elems : hand' = [hand EXCEPT ![t] = <<e>>]
             ELSE UNCHANGED hand
          /\ \/ UNCHANGED expired
             \/ o \in TimedOps /\ expired' = expired \cup {t}
    BY <1>2 DEF Begin, Goto
  <2>2. pc[t] = "idle" /\ op[t] = "none" /\ c' = c
    BY <1>0, <1>2 DEF Begin
  <2>3. op'[t] = o /\ pc'[t] = FirstLabel(o) /\ o \in AllOps /\ o # "peek"
    BY <2>1, OpsAssumption, NoPeek
  <2>4. c'[t] < 0 /\ (o \notin InsertOps \cup {"remove"} => hand'[t] = <<>>)
    BY <1>0, <2>1, <2>2 DEF Early, InsertOps
  <2>5. t \in expired' => o \in TimedOps
    BY <1>0, <2>1, <2>2 DEF TimedOps
  <2>6. /\ pc'[t] \in {"offerRead", "pollTest", "putLock", "takeLock", "fullPutLock"}
        /\ pc'[t] = "offerRead" => o = "offer"
        /\ pc'[t] = "pollTest" => o = "poll"
    BY <2>3 DEF FirstLabel
  <2>7. QED
    BY <2>3, <2>4, <2>5, <2>6
<1>3. CASE PutStep(t)
  <2>1. CASE OfferRead(t)
    BY <1>0, <2>1 DEF OfferRead, Goto, LabelOK, InsertOps, TimedOps, Early
  <2>2. CASE OfferTest(t)
    BY <1>0, <2>2 DEF OfferTest, Goto, LabelOK, InsertOps, TimedOps, Early
  <2>3. CASE PutLock(t)
    BY <1>0, <2>3 DEF PutLock, Goto, LabelOK, InsertOps, TimedOps, Early
  <2>4. CASE Enqueue(t)
    <3>1. /\ pc[t] = "putTest" /\ pc'[t] = "increment" /\ items' = items \o hand[t]
          /\ op' = op /\ hand' = hand /\ c' = c /\ expired' = expired
      BY <2>4 DEF Enqueue, Goto
    <3>2. op[t] \in InsertOps /\ Len(hand[t]) = 1 /\ hand[t] \in Seq(Elems) /\ c[t] < 0
      BY <1>0, <3>1 DEF LabelOK, Early
    <3>3. hand[t] = <<hand[t][1]>>
      BY <3>2
    <3>4. /\ items' \in Seq(Elems) /\ Len(items') = Len(items) + 1
          /\ items'[Len(items) + 1] = hand[t][1]
      <4>1. items \in Seq(Elems) /\ Len(items) \in Nat
        OBVIOUS
      <4>2. /\ items \o hand[t] \in Seq(Elems)
            /\ Len(items \o hand[t]) = Len(items) + Len(hand[t])
            /\ \A i \in 1..Len(items) + Len(hand[t]) : (items \o hand[t])[i] =
                  IF i <= Len(items) THEN items[i] ELSE hand[t][i - Len(items)]
        BY <3>2, <4>1, ConcatProperties
      <4>3. /\ Len(items) + 1 \in 1..Len(items) + Len(hand[t])
            /\ ~(Len(items) + 1 <= Len(items)) /\ (Len(items) + 1) - Len(items) = 1
        BY <3>2, <4>1
      <4>4. (items \o hand[t])[Len(items) + 1] = hand[t][1]
        BY <4>2, <4>3
      <4>5. QED
        BY <3>1, <3>2, <4>2, <4>4
    <3>5. items' # <<>> /\ hand'[t] = <<items'[Len(items')]>>
      BY <3>1, <3>3, <3>4
    <3>6. QED
      BY <1>0, <3>1, <3>2, <3>5
  <2>5. CASE PutAwait(t)
    BY <1>0, <2>5 DEF PutAwait, Goto, LabelOK, InsertOps, Early
  <2>6. CASE PutRefuse(t)
    BY <1>0, <2>6 DEF PutRefuse, Goto, LabelOK, InsertOps, TimedOps, Early
  <2>7. CASE Increment(t)
    BY <1>0, <2>7 DEF Increment, Goto, LabelOK, InsertOps, TimedOps, Early
  <2>8. CASE SignalMore(t)
    BY <1>0, <2>8 DEF SignalMore, Goto, SignalPutter, SignalAndGoto, LabelOK, InsertOps, TimedOps, Early
  <2>9. CASE SignalNotEmpty(t)
    BY <1>0, <2>9 DEF SignalNotEmpty, Goto, SignalTaker, SignalAndGoto, LabelOK, InsertOps, TimedOps, Early
  <2>10. QED
    BY <1>3, <2>1, <2>2, <2>3, <2>4, <2>5, <2>6, <2>7, <2>8, <2>9 DEF PutStep
<1>4. CASE TakeStep(t)
  <2>1. CASE PollTest(t)
    BY <1>0, <2>1 DEF PollTest, Goto, LabelOK, TakeOps, TimedOps, Early
  <2>2. CASE TakeLock(t)
    BY <1>0, <2>2 DEF TakeLock, Goto, LabelOK, TakeOps, TimedOps, Early
  <2>3. CASE Dequeue(t)
    BY <1>0, <2>3 DEF Dequeue, Goto, LabelOK, TakeOps, TimedOps, Early
  <2>4. CASE TakeAwait(t)
    BY <1>0, <2>4 DEF TakeAwait, Goto, LabelOK, TakeOps, TimedOps, Early
  <2>5. CASE TakeRefuse(t)
    BY <1>0, <2>5 DEF TakeRefuse, Goto, LabelOK, TakeOps, TimedOps, Early
  <2>6. CASE Decrement(t)
    BY <1>0, <2>6 DEF Decrement, Goto, SignalTaker, SignalAndGoto, LabelOK, TakeOps, TimedOps, Early
  <2>7. CASE TakeCompare(t)
    BY <1>0, <2>7 DEF TakeCompare, Goto, LabelOK, TakeOps, TimedOps, Early
  <2>8. CASE SignalNotFull(t)
    BY <1>0, <2>8 DEF SignalNotFull, Goto, SignalPutter, SignalAndGoto, LabelOK, TakeOps, TimedOps, Early
  <2>9. CASE PeekRead(t)
    BY <1>0, <2>9 DEF PeekRead, Goto, LabelOK, TakeOps, TimedOps, Early
  <2>10. CASE Drain(t)
    BY <1>0, <2>10 DEF Drain, Goto, LabelOK, TakeOps, TimedOps, Early
  <2>11. CASE DrainCount(t)
    BY <1>0, <2>11 DEF DrainCount, Goto, LabelOK, TakeOps, TimedOps, Early
  <2>12. CASE DrainCompare(t)
    BY <1>0, <2>12 DEF DrainCompare, Goto, LabelOK, TakeOps, TimedOps, Early
  <2>13. QED
    BY <1>4, <2>1, <2>2, <2>3, <2>4, <2>5, <2>6, <2>7, <2>8, <2>9, <2>10, <2>11, <2>12 DEF TakeStep
<1>5. CASE FullStep(t)
  <2>1. CASE FullPutLock(t)
    BY <1>0, <2>1 DEF FullPutLock, Goto, LabelOK, FullOps, TimedOps, Early
  <2>2. CASE FullTakeLock(t)
    BY <1>0, <2>2 DEF FullTakeLock, Goto, LabelOK, FullOps, TimedOps, Early
  <2>3. CASE RemoveItem(t)
    BY <1>0, <2>3 DEF RemoveItem, Goto, LabelOK, FullOps, TimedOps, Early
  <2>4. CASE FullRead(t)
    BY <1>0, <2>4 DEF FullRead, Goto, LabelOK, FullOps, TimedOps, Early
  <2>5. CASE Clear(t)
    BY <1>0, <2>5 DEF Clear, Goto, LabelOK, FullOps, TimedOps, Early
  <2>6. CASE FullCompare(t)
    BY <1>0, <2>6 DEF FullCompare, Goto, SignalPutter, SignalAndGoto, LabelOK, FullOps, TimedOps, Early
  <2>7. QED
    BY <1>5, <2>1, <2>2, <2>3, <2>4, <2>5, <2>6 DEF FullStep
<1>6. CASE Return(t) \/ Interrupt(t)
  BY <1>6 DEF Return, Interrupt, Leave, Goto
<1>7. CASE TimedWaitEnds(t)
  BY <1>0, <1>7 DEF TimedWaitEnds, Goto, Early
<1>8. QED
  BY <1>2, <1>3, <1>4, <1>5, <1>6, <1>7 DEF Step

LEMMA RefInvariance == Spec => []RefInv
<1>1. Spec => []BoundInv
  BY OneCapacity, BoundInvariance
<1>2. Init => ShapeInv
  BY DEF Init, ShapeInv, Shape, Early
<1>3. Inv /\ BoundInv /\ ShapeInv /\ [Next]_vars => ShapeInv'
  <2>1. ASSUME Inv, ShapeInv, UNCHANGED vars \/ SetCapacity PROVE ShapeInv'
    BY <2>1 DEF vars, shared, locals, SetCapacity, ShapeInv, Shape
  <2>2. ASSUME BoundInv PROVE \A x \in Threads : op[x] # "peek"
    BY <2>2, NoPeek DEF BoundInv
  <2>3. QED
    BY <2>1, <2>2, ShapeStep DEF Next
<1>4. Spec => []Inv
  BY Invariance
<1>5. QED
  BY <1>1, <1>2, <1>3, <1>4, PTL DEF Spec, RefInv

-----------------------------------------------------------------------------
(***************************************************************************)
(* The calls, as the abstract queue sees them.                             *)
(***************************************************************************)

Calls == [t \in Threads |-> CallOf(t)]

\* A step of t changes no other call.
LEMMA CallsOfStep ==
  ASSUME TypeOK, NEW t \in Threads,
         Begin(t) \/ Step(t) \/ Interrupt(t) \/ TimedWaitEnds(t)
  PROVE  Calls' = [Calls EXCEPT ![t] = CallOf(t)']
<1>1. Frame(t)
  BY StepFrame
<1>2. ASSUME NEW x \in Threads \ {t} PROVE CallOf(x)' = CallOf(x)
  <2>1. /\ op'[x] = op[x] /\ hand'[x] = hand[x] /\ c'[x] = c[x] /\ n'[x] = n[x]
        /\ capacity' = capacity
        /\ (x \in expired') <=> (x \in expired)
        /\ \/ pc'[x] = pc[x]
           \/ pc[x] = "putWait" /\ pc'[x] = "putRelock"
           \/ pc[x] = "takeWait" /\ pc'[x] = "takeRelock"
    BY <1>1 DEF Frame, Others
  <2>2. Decided(x)' <=> Decided(x)
    <3>1. CASE pc'[x] = pc[x]
      BY <2>1, <3>1 DEF Decided
    <3>2. CASE pc'[x] # pc[x]
      BY <2>1, <3>2 DEF Decided
    <3>3. QED
      BY <3>1, <3>2
  <2>3. Argument(x)' = Argument(x) /\ Result(x)' = Result(x)
    BY <2>1 DEF Argument, Result
  <2>4. (pc'[x] = "idle") <=> (pc[x] = "idle")
    BY <2>1
  <2>5. QED
    BY <2>1, <2>2, <2>3, <2>4 DEF CallOf
<1>3. QED
  BY <1>2 DEF Calls

\* The abstract state in the words of the abstract specification.
LEMMA CallCases ==
  ASSUME NEW t \in Threads
  PROVE  /\ pc[t] = "idle" => CallOf(t) = [state |-> "idle", op |-> op[t], val |-> Argument(t)]
         /\ pc[t] # "idle" /\ ~Decided(t)
              => CallOf(t) = [state |-> "pending", op |-> op[t], val |-> Argument(t)]
         /\ Decided(t) => CallOf(t) = [state |-> "done", op |-> op[t], val |-> Result(t)]
  BY DEF CallOf, Decided

LEMMA NextCallCases ==
  ASSUME NEW t \in Threads
  PROVE  /\ pc'[t] = "idle" => CallOf(t)' = [state |-> "idle", op |-> op'[t], val |-> Argument(t)']
         /\ pc'[t] # "idle" /\ ~Decided(t)'
              => CallOf(t)' = [state |-> "pending", op |-> op'[t], val |-> Argument(t)']
         /\ Decided(t)' => CallOf(t)' = [state |-> "done", op |-> op'[t], val |-> Result(t)']
  BY DEF CallOf, Decided

\* The labels at which the list and count differ.
Between == {"increment", "decrement", "drainCount"}

LEMMA BufferKept ==
  ASSUME Inv, Inv', Counted' = Counted,
         \A x \in Threads : Leaving(x)' <=> Leaving(x),
         \A x \in Threads : Leaving(x) => hand'[x] = hand[x]
  PROVE  CountedBuffer' = CountedBuffer
<1>1. BufferInv /\ BufferInv'
  BY BufferFacts, PTL
<1>2. CASE \A x \in Threads : ~Leaving(x)
  BY <1>1, <1>2 DEF BufferInv
<1>3. ASSUME NEW x \in Threads, Leaving(x) PROVE CountedBuffer' = CountedBuffer
  <2>1. Leaving(x)' /\ hand'[x] = hand[x]
    BY <1>3
  <2>2. CountedBuffer = hand[x] \o Counted
    BY <1>1, <1>3 DEF BufferInv
  <2>3. CountedBuffer' = hand'[x] \o Counted'
    BY <1>1, <2>1 DEF BufferInv
  <2>4. QED
    BY <2>1, <2>2, <2>3
<1>4. QED
  BY <1>2, <1>3

\* Threads at none of these labels leave the abstract buffer alone.
LEMMA BufferSame ==
  ASSUME Inv, Inv', NEW t \in Threads, Others(t), items' = items,
         pc[t] \notin Between, pc'[t] \notin Between
  PROVE  CountedBuffer' = CountedBuffer
<1>1. \A x \in Threads : (pc'[x] = "increment") <=> (pc[x] = "increment")
  BY DEF Others, Between
<1>2. Entering' = Entering
  BY <1>1 DEF Entering
<1>3. Counted' = Counted
  BY <1>2 DEF Counted
<1>4. \A x \in Threads : Leaving(x)' <=> Leaving(x)
  BY DEF Others, Between, Leaving
<1>5. \A x \in Threads : Leaving(x) => hand'[x] = hand[x]
  BY DEF Others, Between, Leaving
<1>6. QED
  BY <1>3, <1>4, <1>5, BufferKept

\* An element appended but not counted in is not part of the buffer.
LEMMA BufferEnqueue ==
  ASSUME Inv, Inv', NEW t \in Threads, Enqueue(t)
  PROVE  CountedBuffer' = CountedBuffer
<1>1. Others(t)
  BY OthersFrame DEF Step, PutStep, Inv
<1>2. /\ pc[t] = "putTest" /\ pc'[t] = "increment" /\ items' = items \o hand[t]
      /\ hand' = hand
  BY DEF Enqueue, Goto, locals, Inv, TypeOK
<1>3. /\ items \in Seq(Elems) /\ hand[t] \in Seq(Elems) /\ Len(hand[t]) = 1
      /\ Len(items) \in Nat
  BY <1>2 DEF Inv, TypeOK, LabelInv, LabelOK
<1>4. Entering = 0
  BY <1>2, OneInserter DEF Entering, PutHeld
<1>5. Entering' = 1
  BY <1>2 DEF Entering
<1>6. Counted = items
  BY <1>3, <1>4, SubSeqFull DEF Counted
<1>7. Counted' = items
  <2>1. Len(items \o hand[t]) - 1 = Len(items)
    <3>1. Len(items \o hand[t]) = Len(items) + Len(hand[t])
      BY <1>3, ConcatProperties
    <3>2. QED
      BY <1>3, <3>1
  <2>2. Counted' = SubSeq(items \o hand[t], 1, Len(items))
    BY <1>2, <1>5, <2>1 DEF Counted
  <2>3. SubSeq(items \o hand[t], 1, Len(items)) = SubSeq(items, 1, Len(items))
    BY <1>3, PrefixOfConcat
  <2>4. QED
    BY <1>3, <2>2, <2>3, SubSeqFull
<1>8. \A x \in Threads : Leaving(x)' <=> Leaving(x)
  BY <1>1, <1>2 DEF Others, Leaving
<1>9. QED
  BY <1>2, <1>6, <1>7, <1>8, BufferKept

\* Counting it in puts it at the end.
LEMMA BufferIncrement ==
  ASSUME Inv, Inv', NEW t \in Threads, Shape(t), Increment(t)
  PROVE  CountedBuffer' = CountedBuffer \o hand[t]
<1>1. Others(t)
  BY OthersFrame DEF Step, PutStep, Inv
<1>2. pc[t] = "increment" /\ pc'[t] = "signalMore" /\ items' = items /\ hand' = hand
  BY DEF Increment, Goto, Inv, TypeOK
<1>3. /\ items \in Seq(Elems) /\ hand[t] \in Seq(Elems) /\ Len(items) \in Nat
      /\ items # <<>> /\ hand[t] = <<items[Len(items)]>>
  <2>1. items \in Seq(Elems) /\ hand[t] \in Seq(Elems) /\ Len(items) \in Nat
    BY DEF Inv, TypeOK
  <2>2. items # <<>> /\ hand[t] = <<items[Len(items)]>>
    BY <1>2 DEF Shape
  <2>3. QED
    BY <2>1, <2>2
<1>4. Entering = 1
  BY <1>2 DEF Entering
<1>5. Entering' = 0
  BY <1>1, <1>2, OneInserter DEF Entering, PutHeld, Others
<1>6. Counted' = Counted \o hand[t]
  <2>1. Counted' = items
    BY <1>2, <1>3, <1>5, SubSeqFull DEF Counted
  <2>2. Counted \o hand[t] = items
    BY <1>3, <1>4, LastElement DEF Counted
  <2>3. QED
    BY <2>1, <2>2
<1>7. \A x \in Threads : Leaving(x)' <=> Leaving(x)
  BY <1>1, <1>2 DEF Others, Leaving
<1>8. BufferInv /\ BufferInv'
  BY BufferFacts, PTL
<1>9. CASE \A x \in Threads : ~Leaving(x)
  BY <1>6, <1>7, <1>8, <1>9 DEF BufferInv
<1>10. ASSUME NEW x \in Threads, Leaving(x)
       PROVE  CountedBuffer' = CountedBuffer \o hand[t]
  <2>1. CountedBuffer = hand[x] \o Counted
    BY <1>8, <1>10 DEF BufferInv
  <2>2. CountedBuffer' = hand[x] \o (Counted \o hand[t])
    BY <1>2, <1>6, <1>7, <1>8, <1>10 DEF BufferInv
  <2>3. hand[x] \in Seq(Elems) /\ Counted \in Seq(Elems)
    BY <1>8 DEF BufferInv, Inv, TypeOK
  <2>4. (hand[x] \o Counted) \o hand[t] = hand[x] \o (Counted \o hand[t])
    <3>1. \A h, q, r \in Seq(Elems) : (h \o q) \o r = h \o (q \o r)
      BY ConcatAssociative
    <3>2. QED
      BY <1>3, <2>3, <3>1, Zenon
  <2>5. QED
    BY <2>1, <2>2, <2>4
<1>11. QED
  BY <1>9, <1>10

\* Elements taken off the list but not counted out are still in the buffer.
LEMMA BufferDequeue ==
  ASSUME Inv, Inv', NEW t \in Threads, Others(t),
         pc[t] \in {"takeTest", "drain"}, pc'[t] \in {"decrement", "drainCount"},
         NEW k \in 1..n[t], hand'[t] = SubSeq(items, 1, k),
         items' = SubSeq(items, k + 1, Len(items))
  PROVE  CountedBuffer' = CountedBuffer
<1>1. BufferInv /\ BufferInv'
  BY BufferFacts, PTL
<1>2. /\ items \in Seq(Elems) /\ Len(items) \in Nat /\ count \in Nat
      /\ n[t] \in Int /\ n[t] <= count
  BY DEF Inv, TypeOK, CountInv
<1>3. \A x \in Threads : ~Leaving(x)
  BY OneRemover DEF Leaving, TakeHeld
<1>4. \A x \in Threads : (pc'[x] = "increment") <=> (pc[x] = "increment")
  BY DEF Others
<1>5. Entering' = Entering /\ Entering \in 0..1
  BY <1>4 DEF Entering
<1>6. Len(items) = count + Entering /\ CountedBuffer = Counted
  BY <1>1, <1>3 DEF BufferInv
<1>7. Counted = SubSeq(items, 1, count)
  BY <1>2, <1>5, <1>6 DEF Counted
<1>8. k \in 1..count /\ count \in 1..Len(items)
  BY <1>2, <1>5, <1>6
<1>9. /\ Len(items') = Len(items) - k
      /\ SubSeq(items, 1, k) \o SubSeq(items', 1, count - k) = SubSeq(items, 1, count)
  BY <1>2, <1>8, SplitPrefix
<1>10. Counted' = SubSeq(items', 1, count - k)
  <2>1. Len(items') - Entering' = count - k
    BY <1>2, <1>5, <1>6, <1>8, <1>9
  <2>2. QED
    BY <2>1 DEF Counted
<1>11. CountedBuffer' = hand'[t] \o Counted'
  <2>1. Leaving(t)'
    BY DEF Leaving
  <2>2. QED
    BY <1>1, <2>1 DEF BufferInv
<1>12. QED
  BY <1>6, <1>7, <1>9, <1>10, <1>11

\* Counting them out takes them off its head.
LEMMA BufferDecrement ==
  ASSUME Inv, Inv', NEW t \in Threads, Others(t), Leaving(t),
         pc'[t] \in {"takeCompare", "drainCompare"}, items' = items
  PROVE  /\ CountedBuffer = hand[t] \o Counted /\ CountedBuffer' = Counted
         /\ Counted \in Seq(Elems)
<1>1. BufferInv /\ BufferInv'
  BY BufferFacts, PTL
<1>2. \A x \in Threads : ~Leaving(x)'
  BY OneRemover DEF Leaving, TakeHeld, Others
<1>3. \A x \in Threads : (pc'[x] = "increment") <=> (pc[x] = "increment")
  BY DEF Others, Leaving
<1>4. Entering' = Entering
  BY <1>3 DEF Entering
<1>5. Counted' = Counted
  BY <1>4 DEF Counted
<1>6. QED
  BY <1>1, <1>2, <1>5 DEF BufferInv

\* Under both locks the buffer is the list.
BufferLocked == \A t \in Threads : pc[t] \in FullHeld => CountedBuffer = items

LEMMA LockedBuffer == Inv => BufferLocked
<1> SUFFICES ASSUME Inv, NEW t \in Threads, pc[t] \in FullHeld
             PROVE  CountedBuffer = items
  BY DEF BufferLocked
<1>1. \A x \in Threads : ~Leaving(x)
  BY OneRemover DEF Leaving, TakeHeld, FullHeld
<1>2. Entering = 0
  BY OneInserter DEF Entering, PutHeld, FullHeld
<1>3. items \in Seq(Elems) /\ Len(items) \in Nat
  BY DEF Inv, TypeOK
<1>4. Counted = items
  BY <1>2, <1>3, SubSeqFull DEF Counted
<1>5. QED
  BY <1>1, <1>4, BufferFacts DEF BufferInv

-----------------------------------------------------------------------------
(***************************************************************************)
(* The steps of the abstract queue, one lemma for each.                    *)
(***************************************************************************)

Stepping(t) == Begin(t) \/ Step(t) \/ Interrupt(t) \/ TimedWaitEnds(t)

\* The steps that the callers do not notice.
LEMMA UnnoticedStep ==
  ASSUME RefInv, NEW t \in Threads, Stepping(t),
         pc[t] # "idle", pc'[t] # "idle", Decided(t)' <=> Decided(t),
         op'[t] = op[t], hand'[t] = hand[t], c'[t] = c[t]
  PROVE  Calls' = Calls
<1>1. Argument(t)' = Argument(t) /\ Result(t)' = Result(t)
  BY DEF Argument, Result
<1>2. CallOf(t)' = CallOf(t)
  <2>1. CASE Decided(t)
    BY <1>1, <2>1, CallCases, NextCallCases
  <2>2. CASE ~Decided(t)
    BY <1>1, <2>2, CallCases, NextCallCases
  <2>3. QED
    BY <2>1, <2>2
<1>3. Calls' = [Calls EXCEPT ![t] = CallOf(t)]
  BY <1>2, CallsOfStep DEF RefInv, Inv, Stepping
<1>4. QED
  BY <1>3 DEF Calls

\* A pending call takes effect: what the abstract action has to be told.
LEMMA AnswerStep ==
  ASSUME RefInv, NEW t \in Threads, Stepping(t),
         pc[t] # "idle", ~Decided(t), Decided(t)', op'[t] = op[t]
  PROVE  /\ Calls[t] = [state |-> "pending", op |-> op[t], val |-> Argument(t)]
         /\ Calls' = [Calls EXCEPT ![t] = [state |-> "done", op |-> op[t], val |-> Result(t)']]
<1>1. Calls[t] = CallOf(t)
  BY DEF Calls
<1>2. Calls' = [Calls EXCEPT ![t] = CallOf(t)']
  BY CallsOfStep DEF RefInv, Inv, Stepping
<1>3. QED
  BY <1>1, <1>2, CallCases, NextCallCases

\* The abstract predicates, with the calls named.
LEMMA AbstractWords ==
  /\ Abstract!vars = <<CountedBuffer, Calls>>
  /\ \A t, ops : Abstract!Asks(t, ops) <=> Calls[t].state = "pending" /\ Calls[t].op \in ops
  /\ \A t, res : Abstract!Answer(t, res)
       <=> Calls' = [Calls EXCEPT ![t] = [state |-> "done", op |-> Calls[t].op, val |-> res]]
<1>1. Abstract!vars = <<CountedBuffer, Calls>>
  BY DEF Abstract!vars, Calls
<1>2. \A t, ops : Abstract!Asks(t, ops) <=> Calls[t].state = "pending" /\ Calls[t].op \in ops
  BY DEF Abstract!Asks, Calls
<1>3. \A t, res : Abstract!Answer(t, res)
       <=> Calls' = [Calls EXCEPT ![t] = [state |-> "done", op |-> Calls[t].op, val |-> res]]
  BY DEF Abstract!Answer, Abstract!Done, Calls
<1>4. QED
  BY <1>1, <1>2, <1>3

\* The abstract module's copies of the operators on sequences.
LEMMA AbstractLists ==
  ASSUME NEW s, NEW e
  PROVE  /\ Abstract!Contains(s, e) <=> Contains(s, e)
         /\ Abstract!RemoveFirst(s, e) = RemoveFirst(s, e)
<1>1. Abstract!Contains(s, e) <=> Contains(s, e)
  BY DEF Abstract!Contains, Contains
<1>2. \A i : Abstract!RemoveAt(s, i) = RemoveAt(s, i)
  BY DEF Abstract!RemoveAt, RemoveAt
<1>3. \A I : Abstract!Min(I) = Min(I)
  BY DEF Abstract!Min, Min
<1>4. Abstract!SelectInSeq(s, LAMBDA v : v = e) = SelectInSeq(s, LAMBDA v : v = e)
  BY <1>3 DEF Abstract!SelectInSeq, SelectInSeq
<1>5. Abstract!RemoveFirst(s, e) = RemoveFirst(s, e)
  BY <1>2, <1>4 DEF Abstract!RemoveFirst, RemoveFirst
<1>6. QED
  BY <1>1, <1>5

LEMMA GiveUpStep ==
  ASSUME RefInv, NEW t \in Threads, Stepping(t),
         pc[t] # "idle", ~Decided(t), Decided(t)', op'[t] = op[t],
         op[t] \in {"offerTimed", "offer", "pollTimed", "poll"},
         IF op[t] \in InsertOps THEN count = capacity ELSE count = 0,
         Result(t)' = <<>>, CountedBuffer' = CountedBuffer
  PROVE  Abstract!Next
<1>1. /\ Calls[t] = [state |-> "pending", op |-> op[t], val |-> Argument(t)]
      /\ Calls' = [Calls EXCEPT ![t] = [state |-> "done", op |-> op[t], val |-> <<>>]]
  BY AnswerStep
<1>2. CountedBuffer \in Seq(Elems) /\ Len(CountedBuffer) = count /\ capacity = TheCapacity
  BY BufferFacts, CapacityInForce DEF BufferInv, RefInv
<1>3. IF op[t] \in InsertOps THEN Len(CountedBuffer) = TheCapacity ELSE CountedBuffer = <<>>
  BY <1>2, EmptySeq
<1>4. Abstract!GiveUp(t)
  <2>1. Abstract!Asks(t, Abstract!Impatient) /\ Abstract!Answer(t, <<>>)
    <3>1. Calls[t].state = "pending" /\ Calls[t].op = op[t] /\ op[t] \in Abstract!Impatient
      BY <1>1 DEF Abstract!Impatient
    <3>2. Calls' = [Calls EXCEPT ![t] = [state |-> "done", op |-> Calls[t].op, val |-> <<>>]]
      BY <1>1, <3>1
    <3>3. QED
      BY <3>1, <3>2, AbstractWords, Zenon
  <2>2. Calls[t].op = op[t] /\ InsertOps = Abstract!Inserting
    BY <1>1 DEF InsertOps, Abstract!Inserting
  <2>3. IF Calls[t].op \in Abstract!Inserting THEN Len(CountedBuffer) = TheCapacity ELSE CountedBuffer = <<>>
    BY <1>3, <2>2
  <2>4. QED
    BY <2>1, <2>3 DEF Abstract!GiveUp, Calls
<1>5. QED
  BY <1>4 DEF Abstract!Next

\* An insertion takes effect.
LEMMA InsertStep ==
  ASSUME RefInv, NEW t \in Threads, Stepping(t),
         pc[t] # "idle", ~Decided(t), Decided(t)', op'[t] = op[t],
         op[t] \in InsertOps, count < capacity,
         Result(t)' = hand[t], CountedBuffer' = CountedBuffer \o hand[t]
  PROVE  Abstract!Next
<1>1. /\ Calls[t] = [state |-> "pending", op |-> op[t], val |-> Argument(t)]
      /\ Calls' = [Calls EXCEPT ![t] = [state |-> "done", op |-> op[t], val |-> Result(t)']]
  BY AnswerStep
<1>2. Calls[t].state = "pending" /\ Calls[t].op = op[t] /\ Calls[t].val = Argument(t)
  BY <1>1
<1>3. Abstract!Asks(t, Abstract!Inserting)
  <2>1. op[t] \in Abstract!Inserting
    BY DEF InsertOps, Abstract!Inserting
  <2>2. QED
    BY <1>2, <2>1, AbstractWords, Zenon
<1>4. Abstract!Answer(t, Result(t)')
  <2>1. Calls' = [Calls EXCEPT ![t] = [state |-> "done", op |-> Calls[t].op, val |-> Result(t)']]
    BY <1>1, <1>2
  <2>2. QED
    BY <2>1, AbstractWords, Zenon
<1>5. Len(CountedBuffer) < TheCapacity
  BY BufferFacts, CapacityInForce DEF BufferInv, RefInv
<1>6. Calls[t].val = hand[t]
  BY <1>2 DEF Argument
<1>9. Abstract!Insert(t)
  BY <1>3, <1>4, <1>5, <1>6 DEF Abstract!Insert, Calls
<1>10. QED
  BY <1>9 DEF Abstract!Next

\* A removal takes effect: the element in hand is counted out.
LEMMA TakeEffectStep ==
  ASSUME RefInv, NEW t \in Threads, Stepping(t),
         pc[t] # "idle", ~Decided(t), Decided(t)', op'[t] = op[t],
         op[t] \in TakeOps, hand[t] \in Seq(Elems), Len(hand[t]) = 1,
         NEW rest \in Seq(Elems), CountedBuffer = hand[t] \o rest,
         Result(t)' = hand[t], CountedBuffer' = rest
  PROVE  Abstract!Next
<1>1. /\ Calls[t] = [state |-> "pending", op |-> op[t], val |-> Argument(t)]
      /\ Calls' = [Calls EXCEPT ![t] = [state |-> "done", op |-> op[t], val |-> Result(t)']]
  BY AnswerStep
<1>2. Calls[t].state = "pending" /\ Calls[t].op = op[t] /\ Calls[t].val = Argument(t)
  BY <1>1
<1>3. Abstract!Asks(t, Abstract!Taking)
  <2>1. op[t] \in Abstract!Taking
    BY DEF TakeOps, Abstract!Taking
  <2>2. QED
    BY <1>2, <2>1, AbstractWords, Zenon
<1>4. Abstract!Answer(t, Result(t)')
  <2>1. Calls' = [Calls EXCEPT ![t] = [state |-> "done", op |-> Calls[t].op, val |-> Result(t)']]
    BY <1>1, <1>2
  <2>2. QED
    BY <2>1, AbstractWords, Zenon
<1>5. /\ CountedBuffer # <<>> /\ Tail(CountedBuffer) = rest /\ <<Head(CountedBuffer)>> = hand[t]
  BY HeadAndRest
<1>9. Abstract!Take(t)
  BY <1>3, <1>4, <1>5 DEF Abstract!Take, Calls
<1>10. QED
  BY <1>9 DEF Abstract!Next

\* drainTo takes i elements.
LEMMA DrainEffectStep ==
  ASSUME RefInv, NEW t \in Threads, Stepping(t),
         pc[t] # "idle", ~Decided(t), Decided(t)', op'[t] = op[t],
         op[t] = "drainTo", NEW i \in 0..Len(CountedBuffer),
         Result(t)' = SubSeq(CountedBuffer, 1, i),
         CountedBuffer' = SubSeq(CountedBuffer, i + 1, Len(CountedBuffer))
  PROVE  Abstract!Next
<1>1. /\ Calls[t] = [state |-> "pending", op |-> op[t], val |-> Argument(t)]
      /\ Calls' = [Calls EXCEPT ![t] = [state |-> "done", op |-> op[t], val |-> Result(t)']]
  BY AnswerStep
<1>2. Calls[t].state = "pending" /\ Calls[t].op = op[t] /\ Calls[t].val = Argument(t)
  BY <1>1
<1>3. Abstract!Asks(t, {"drainTo"})
  <2>1. op[t] \in {"drainTo"}
    OBVIOUS
  <2>2. QED
    BY <1>2, <2>1, AbstractWords, Zenon
<1>4. Abstract!Answer(t, Result(t)')
  <2>1. Calls' = [Calls EXCEPT ![t] = [state |-> "done", op |-> Calls[t].op, val |-> Result(t)']]
    BY <1>1, <1>2
  <2>2. QED
    BY <2>1, AbstractWords, Zenon
<1>9. Abstract!DrainSome(t)
  BY <1>3, <1>4 DEF Abstract!DrainSome, Calls
<1>10. QED
  BY <1>9 DEF Abstract!Next

\* remove takes out the first occurrence, if there is one.
LEMMA RemoveEffectStep ==
  ASSUME RefInv, NEW t \in Threads, Stepping(t),
         pc[t] # "idle", ~Decided(t), Decided(t)', op'[t] = op[t],
         op[t] = "remove",
         Result(t)' = IF Contains(CountedBuffer, hand[t][1]) THEN hand[t] ELSE <<>>,
         CountedBuffer' = RemoveFirst(CountedBuffer, hand[t][1])
  PROVE  Abstract!Next
<1>1. /\ Calls[t] = [state |-> "pending", op |-> op[t], val |-> Argument(t)]
      /\ Calls' = [Calls EXCEPT ![t] = [state |-> "done", op |-> op[t], val |-> Result(t)']]
  BY AnswerStep
<1>2. Calls[t].state = "pending" /\ Calls[t].op = op[t] /\ Calls[t].val = Argument(t)
  BY <1>1
<1>3. Abstract!Asks(t, {"remove"})
  <2>1. op[t] \in {"remove"}
    OBVIOUS
  <2>2. QED
    BY <1>2, <2>1, AbstractWords, Zenon
<1>4. Abstract!Answer(t, Result(t)')
  <2>1. Calls' = [Calls EXCEPT ![t] = [state |-> "done", op |-> Calls[t].op, val |-> Result(t)']]
    BY <1>1, <1>2
  <2>2. QED
    BY <2>1, AbstractWords, Zenon
<1>5. Calls[t].val = hand[t]
  BY <1>2 DEF Argument
<1>6. Result(t)' = IF Abstract!Contains(CountedBuffer, Calls[t].val[1]) THEN Calls[t].val ELSE <<>>
  BY <1>5, AbstractLists
<1>7. CountedBuffer' = Abstract!RemoveFirst(CountedBuffer, Calls[t].val[1])
  BY <1>5, AbstractLists
<1>8. Abstract!Answer(t, IF Abstract!Contains(CountedBuffer, Calls[t].val[1]) THEN Calls[t].val ELSE <<>>)
  BY <1>4, <1>6
<1>9. Abstract!RemoveOne(t)
  BY <1>3, <1>7, <1>8 DEF Abstract!RemoveOne, Calls
<1>10. QED
  BY <1>9 DEF Abstract!Next

\* clear empties the queue.
LEMMA ClearEffectStep ==
  ASSUME RefInv, NEW t \in Threads, Stepping(t),
         pc[t] # "idle", ~Decided(t), Decided(t)', op'[t] = op[t],
         op[t] = "clear", Result(t)' = <<>>, CountedBuffer' = <<>>
  PROVE  Abstract!Next
<1>1. /\ Calls[t] = [state |-> "pending", op |-> op[t], val |-> Argument(t)]
      /\ Calls' = [Calls EXCEPT ![t] = [state |-> "done", op |-> op[t], val |-> Result(t)']]
  BY AnswerStep
<1>2. Calls[t].state = "pending" /\ Calls[t].op = op[t] /\ Calls[t].val = Argument(t)
  BY <1>1
<1>3. Abstract!Asks(t, {"clear"})
  <2>1. op[t] \in {"clear"}
    OBVIOUS
  <2>2. QED
    BY <1>2, <2>1, AbstractWords, Zenon
<1>4. Abstract!Answer(t, Result(t)')
  <2>1. Calls' = [Calls EXCEPT ![t] = [state |-> "done", op |-> Calls[t].op, val |-> Result(t)']]
    BY <1>1, <1>2
  <2>2. QED
    BY <2>1, AbstractWords, Zenon
<1>9. Abstract!Empty(t)
  BY <1>3, <1>4 DEF Abstract!Empty, Calls
<1>10. QED
  BY <1>9 DEF Abstract!Next

\* toArray copies the queue.
LEMMA CopyEffectStep ==
  ASSUME RefInv, NEW t \in Threads, Stepping(t),
         pc[t] # "idle", ~Decided(t), Decided(t)', op'[t] = op[t],
         op[t] = "toArray", Result(t)' = CountedBuffer, CountedBuffer' = CountedBuffer
  PROVE  Abstract!Next
<1>1. /\ Calls[t] = [state |-> "pending", op |-> op[t], val |-> Argument(t)]
      /\ Calls' = [Calls EXCEPT ![t] = [state |-> "done", op |-> op[t], val |-> Result(t)']]
  BY AnswerStep
<1>2. Calls[t].state = "pending" /\ Calls[t].op = op[t] /\ Calls[t].val = Argument(t)
  BY <1>1
<1>3. Abstract!Asks(t, {"toArray"})
  <2>1. op[t] \in {"toArray"}
    OBVIOUS
  <2>2. QED
    BY <1>2, <2>1, AbstractWords, Zenon
<1>4. Abstract!Answer(t, Result(t)')
  <2>1. Calls' = [Calls EXCEPT ![t] = [state |-> "done", op |-> Calls[t].op, val |-> Result(t)']]
    BY <1>1, <1>2
  <2>2. QED
    BY <2>1, AbstractWords, Zenon
<1>9. Abstract!Copy(t)
  BY <1>3, <1>4 DEF Abstract!Copy, Calls
<1>10. QED
  BY <1>9 DEF Abstract!Next

-----------------------------------------------------------------------------
(***************************************************************************)
(* The steps of the queue.  Each is a step of the abstract queue, or one   *)
(* that the callers do not notice.                                         *)
(***************************************************************************)

Implemented == Abstract!Next \/ UNCHANGED <<CountedBuffer, Calls>>

\* A step that neither decides the call nor changes what it holds.
LEMMA Unnoticed ==
  ASSUME RefInv, RefInv', NEW t \in Threads, Stepping(t),
         pc[t] # "idle", pc'[t] # "idle", Decided(t)' <=> Decided(t),
         op'[t] = op[t], hand'[t] = hand[t], c'[t] = c[t], items' = items,
         pc[t] \notin Between, pc'[t] \notin Between
  PROVE  Implemented
<1>1. CountedBuffer' = CountedBuffer
  BY BufferSame, OthersFrame DEF Stepping, RefInv, Inv
<1>2. Calls' = Calls
  BY UnnoticedStep
<1>3. QED
  BY <1>1, <1>2 DEF Implemented

\* A step that refuses the call.
LEMMA Refusal ==
  ASSUME RefInv, RefInv', NEW t \in Threads, Stepping(t),
         pc[t] # "idle", ~Decided(t), Decided(t)', op'[t] = op[t], items' = items,
         op[t] \in {"offerTimed", "offer", "pollTimed", "poll"},
         IF op[t] \in InsertOps THEN count = capacity ELSE count = 0,
         pc[t] \in Early, hand'[t] = hand[t], c'[t] = c[t],
         pc[t] \notin Between, pc'[t] \notin Between
  PROVE  Implemented
<1>1. CountedBuffer' = CountedBuffer
  BY BufferSame, OthersFrame DEF Stepping, RefInv, Inv
<1>2. Result(t)' = <<>>
  BY DEF Result, RefInv, ShapeInv, Shape
<1>3. QED
  BY <1>1, <1>2, GiveUpStep DEF Implemented

LEMMA BeginImplements ==
  ASSUME RefInv, RefInv', NEW t \in Threads, Begin(t)
  PROVE  Implemented
<1> USE DEF RefInv, Inv, TypeOK
<1>1. PICK o \in Ops :
        /\ op' = [op EXCEPT ![t] = o]
        /\ pc' = [pc EXCEPT ![t] = FirstLabel(o)]
        /\ IF o \in InsertOps \cup {"remove"}
           THEN \E e \in Elems : hand' = [hand EXCEPT ![t] = <<e>>]
           ELSE UNCHANGED hand
  BY DEF Begin, Goto
<1>2. pc[t] = "idle" /\ op[t] = "none" /\ items' = items
  BY DEF Begin, shared, ShapeInv, Shape
<1>3. op'[t] = o /\ pc'[t] = FirstLabel(o) /\ o \in AllOps /\ o # "peek"
  BY <1>1, OpsAssumption, NoPeek
<1>4. pc'[t] \in {"offerRead", "pollTest", "putLock", "takeLock", "fullPutLock"}
  BY <1>3 DEF FirstLabel
<1>5. CountedBuffer' = CountedBuffer
  BY <1>2, <1>4, BufferSame, OthersFrame DEF Between
<1>6. Calls[t] = [state |-> "idle", op |-> "none", val |-> <<>>]
  BY <1>2, CallCases DEF Calls, Argument, InsertOps
<1>7. CallOf(t)' = [state |-> "pending", op |-> o, val |-> Argument(t)']
  BY <1>3, <1>4, NextCallCases DEF Decided
<1>8. Calls' = [Calls EXCEPT ![t] = [state |-> "pending", op |-> o, val |-> Argument(t)']]
  BY <1>7, CallsOfStep
<1>9. Calls[t] = Abstract!NoCall
  BY <1>6 DEF Abstract!NoCall
<1>10. CASE o \in InsertOps \cup {"remove"}
  <2>1. PICK e \in Elems : hand' = [hand EXCEPT ![t] = <<e>>]
    BY <1>1, <1>10
  <2>2. Argument(t)' = <<e>>
    BY <1>3, <1>10, <2>1 DEF Argument
  <2>3. Calls' = [Calls EXCEPT ![t] = Abstract!Pending(o, <<e>>)]
    BY <1>8, <2>2 DEF Abstract!Pending
  <2>4. o \in Abstract!Inserting \cup {"remove"}
    BY <1>10 DEF InsertOps, Abstract!Inserting
  <2>5. Abstract!Invoke(t)
    BY <1>5, <1>9, <2>3, <2>4 DEF Abstract!Invoke, Calls
  <2>6. QED
    BY <2>5 DEF Implemented, Abstract!Next
<1>11. CASE o \notin InsertOps \cup {"remove"}
  <2>1. Argument(t)' = <<>>
    BY <1>3, <1>11 DEF Argument
  <2>2. Calls' = [Calls EXCEPT ![t] = Abstract!Pending(o, <<>>)]
    BY <1>8, <2>1 DEF Abstract!Pending
  <2>3. o \in Abstract!Taking \cup (Abstract!Others \ {"remove"})
    BY <1>3, <1>11 DEF AllOps, InsertOps, TakeOps, FullOps, Abstract!Taking, Abstract!Others
  <2>4. Abstract!Invoke(t)
    BY <1>5, <1>9, <2>2, <2>3 DEF Abstract!Invoke, Calls
  <2>5. QED
    BY <2>4 DEF Implemented, Abstract!Next
<1>12. QED
  BY <1>10, <1>11

\* The call ends, with its answer or with an exception.
LEMMA EndImplements ==
  ASSUME RefInv, RefInv', NEW t \in Threads, Return(t) \/ Interrupt(t)
  PROVE  Implemented
<1> USE DEF RefInv, Inv, TypeOK
<1>1. /\ pc'[t] = "idle" /\ op'[t] = "none" /\ hand'[t] = <<>> /\ items' = items
  BY DEF Return, Interrupt, Leave, Goto, shared
<1>2. Calls' = [Calls EXCEPT ![t] = Abstract!NoCall]
  <2>1. CallOf(t)' = Abstract!NoCall
    BY <1>1, NextCallCases DEF Argument, InsertOps, Abstract!NoCall
  <2>2. QED
    BY <2>1, CallsOfStep DEF Step
<1>3. CASE Return(t)
  <2>1. pc[t] = "return"
    BY <1>3 DEF Return
  <2>2. CountedBuffer' = CountedBuffer
    BY <1>1, <1>3, <2>1, BufferSame, OthersFrame DEF Between, Step
  <2>3. Calls[t].state = "done"
    BY <2>1, CallCases DEF Calls, Decided
  <2>4. Abstract!Respond(t)
    BY <1>2, <2>2, <2>3 DEF Abstract!Respond, Calls
  <2>5. QED
    BY <2>4 DEF Implemented, Abstract!Next
<1>4. CASE Interrupt(t)
  <2>1. pc[t] \in {"putWait", "takeWait", "putLock", "takeLock"}
    BY <1>4 DEF Interrupt, Interruptible
  <2>2. op[t] \in Abstract!Waiting
    BY <1>4 DEF Interrupt, Interruptible, ShapeInv, Shape, Abstract!Waiting
  <2>3. CountedBuffer' = CountedBuffer
    BY <1>1, <1>4, <2>1, BufferSame, OthersFrame DEF Between
  <2>4. Calls[t].state = "pending" /\ Calls[t].op = op[t]
    <3>1. ~Decided(t) /\ pc[t] # "idle"
      BY <2>1 DEF Decided
    <3>2. Calls[t] = [state |-> "pending", op |-> op[t], val |-> Argument(t)]
      BY <3>1, CallCases DEF Calls
    <3>3. QED
      BY <3>2
  <2>5. Abstract!Asks(t, Abstract!Waiting)
    BY <2>2, <2>4, AbstractWords, Zenon
  <2>6. Abstract!Withdraw(t)
    BY <1>2, <2>3, <2>5 DEF Abstract!Withdraw, Calls
  <2>7. QED
    BY <2>6 DEF Implemented, Abstract!Next
<1>5. QED
  BY <1>3, <1>4

LEMMA TimedWaitEndsImplements ==
  ASSUME RefInv, RefInv', NEW t \in Threads, TimedWaitEnds(t)
  PROVE  Implemented
<1>1. /\ pc[t] \in {"putWait", "takeWait"} /\ pc'[t] \in {"putRelock", "takeRelock"}
      /\ op' = op /\ hand' = hand /\ c' = c /\ items' = items
  BY DEF TimedWaitEnds, Goto, shared, RefInv, Inv, TypeOK
<1>2. ~Decided(t) /\ ~Decided(t)'
  BY <1>1 DEF Decided
<1>3. QED
  BY <1>1, <1>2, Unnoticed DEF Stepping, Between

LEMMA PutImplements ==
  ASSUME RefInv, RefInv', NEW t \in Threads, PutStep(t)
  PROVE  Implemented
<1> USE DEF RefInv, Inv, TypeOK
<1>a. Stepping(t) /\ Others(t)
  BY OthersFrame DEF Stepping, Step
<1>b. Shape(t) /\ LabelOK(t) /\ op[t] # "peek"
  BY CapacityInForce DEF ShapeInv, LabelInv
<1>c. count \in Nat /\ capacity \in Nat /\ n[t] \in Int
  BY CapacityInForce
<1>1. CASE OfferRead(t)
  <2>1. /\ pc[t] = "offerRead" /\ pc'[t] = "offerTest" /\ n'[t] = count /\ op' = op
        /\ hand' = hand /\ c' = c /\ items' = items /\ capacity' = capacity
    BY <1>1 DEF OfferRead, Goto, shared
  <2>2. ~Decided(t) /\ op[t] = "offer"
    BY <1>b, <2>1 DEF Decided, Shape
  <2>3. Decided(t)' <=> count = capacity
    BY <2>1 DEF Decided
  <2>4. CASE count = capacity
    <3>1. IF op[t] \in InsertOps THEN count = capacity ELSE count = 0
      BY <2>2, <2>4 DEF InsertOps
    <3>2. QED
      BY <1>a, <2>1, <2>2, <2>3, <2>4, <3>1, Refusal DEF Between, Early
  <2>5. CASE count # capacity
    BY <1>a, <2>1, <2>2, <2>3, <2>5, Unnoticed DEF Between
  <2>6. QED
    BY <2>4, <2>5
<1>2. CASE OfferTest(t)
  <2>1. /\ pc[t] = "offerTest" /\ pc'[t] = IF n[t] = capacity THEN "return" ELSE "putLock"
        /\ op' = op /\ hand' = hand /\ c' = c /\ items' = items
    BY <1>2 DEF OfferTest, Goto, shared, locals
  <2>2. Decided(t)' <=> Decided(t)
    BY <2>1 DEF Decided
  <2>3. QED
    BY <1>a, <2>1, <2>2, Unnoticed DEF Between
<1>3. CASE PutLock(t)
  <2>1. /\ pc[t] \in {"putLock", "putRelock"} /\ pc'[t] = "putTest" /\ n'[t] = count
        /\ op' = op /\ hand' = hand /\ c' = c /\ items' = items /\ capacity' = capacity
    BY <1>3 DEF PutLock, Goto
  <2>2. ~Decided(t)
    BY <2>1 DEF Decided
  <2>3. Decided(t)' <=> count = capacity /\ (op[t] = "offer" \/ t \in expired')
    BY <2>1 DEF Decided
  <2>4. CASE count = capacity /\ (op[t] = "offer" \/ t \in expired')
    <3>1. op[t] \in InsertOps
      BY <1>b, <2>1 DEF LabelOK
    <3>2. t \in expired' => op[t] \in TimedOps
      BY <1>b, <1>3 DEF PutLock, Shape, TimedOps
    <3>3. op[t] \in {"offerTimed", "offer", "pollTimed", "poll"}
      BY <2>4, <3>1, <3>2 DEF InsertOps, TimedOps
    <3>4. QED
      BY <1>a, <2>1, <2>2, <2>3, <2>4, <3>1, <3>3, Refusal DEF Between, Early
  <2>5. CASE ~(count = capacity /\ (op[t] = "offer" \/ t \in expired'))
    BY <1>a, <2>1, <2>2, <2>3, <2>5, Unnoticed DEF Between
  <2>6. QED
    BY <2>4, <2>5
<1>4. CASE Enqueue(t)
  <2>1. /\ pc[t] = "putTest" /\ pc'[t] = "increment" /\ MayInsert(op[t], n[t], capacity)
        /\ op' = op /\ hand' = hand /\ c' = c
    BY <1>4 DEF Enqueue, Goto, locals
  <2>2. n[t] # capacity
    BY <1>c, <2>1 DEF MayInsert
  <2>3. ~Decided(t) /\ ~Decided(t)'
    BY <2>1, <2>2 DEF Decided
  <2>4. Calls' = Calls
    BY <1>a, <2>1, <2>3, UnnoticedStep
  <2>5. QED
    BY <1>4, <2>4, BufferEnqueue DEF Implemented
<1>5. CASE PutAwait(t)
  <2>1. /\ pc[t] = "putTest" /\ pc'[t] = "putWait" /\ op[t] # "offer" /\ t \notin expired
        /\ op' = op /\ hand' = hand /\ c' = c /\ items' = items
    BY <1>5 DEF PutAwait, Goto, locals
  <2>2. ~Decided(t) /\ ~Decided(t)'
    BY <2>1 DEF Decided
  <2>3. QED
    BY <1>a, <2>1, <2>2, Unnoticed DEF Between
<1>6. CASE PutRefuse(t)
  <2>1. /\ pc[t] = "putTest" /\ pc'[t] = "return" /\ ~MayInsert(op[t], n[t], capacity)
        /\ op[t] = "offer" \/ t \in expired
        /\ op' = op /\ hand' = hand /\ c' = c /\ items' = items
    BY <1>6 DEF PutRefuse, Goto, locals
  <2>2. n[t] <= capacity
    BY <2>1, CapacityInForce
  <2>3. n[t] = capacity
    BY <1>c, <2>1, <2>2 DEF MayInsert
  <2>4. Decided(t) /\ Decided(t)'
    BY <2>1, <2>3 DEF Decided
  <2>5. QED
    BY <1>a, <2>1, <2>4, Unnoticed DEF Between
<1>7. CASE Increment(t)
  <2>1. /\ pc[t] = "increment" /\ pc'[t] = "signalMore" /\ c'[t] = count /\ op' = op
        /\ hand' = hand
    BY <1>7 DEF Increment, Goto
  <2>2. ~Decided(t) /\ Decided(t)' /\ op[t] \in InsertOps
    BY <1>b, <2>1 DEF Decided, LabelOK
  <2>3. Result(t)' = hand[t]
    BY <1>c, <2>1 DEF Result
  <2>4. count < capacity
    <3>1. Entering = 1
      BY <2>1 DEF Entering
    <3>2. QED
      BY <1>c, <3>1, CapacityInForce
  <2>5. CountedBuffer' = CountedBuffer \o hand[t]
    BY <1>b, <1>7, BufferIncrement
  <2>6. QED
    BY <1>a, <2>1, <2>2, <2>3, <2>4, <2>5, InsertStep DEF Implemented
<1>8. CASE SignalMore(t) \/ SignalNotEmpty(t)
  <2>1. /\ pc[t] \in {"signalMore", "signalNotEmpty"} /\ pc'[t] \in {"signalNotEmpty", "return"}
        /\ op' = op /\ hand' = hand /\ c' = c /\ items' = items
    BY <1>8 DEF SignalMore, SignalNotEmpty, SignalPutter, SignalTaker, SignalAndGoto, Goto,
                shared, locals
  <2>2. Decided(t) /\ Decided(t)'
    BY <2>1 DEF Decided
  <2>3. QED
    BY <1>a, <2>1, <2>2, Unnoticed DEF Between
<1>9. QED
  BY <1>1, <1>2, <1>3, <1>4, <1>5, <1>6, <1>7, <1>8 DEF PutStep

LEMMA TakeImplements ==
  ASSUME RefInv, RefInv', NEW t \in Threads, TakeStep(t)
  PROVE  Implemented
<1> USE DEF RefInv, Inv, TypeOK
<1>a. Stepping(t) /\ Others(t)
  BY OthersFrame DEF Stepping, Step
<1>b. Shape(t) /\ LabelOK(t) /\ op[t] # "peek"
  BY CapacityInForce DEF ShapeInv, LabelInv
<1>c. /\ count \in Nat /\ n[t] \in Int /\ items \in Seq(Elems) /\ Len(items) \in Nat
      /\ hand[t] \in Seq(Elems) /\ CountedBuffer \in Seq(Elems) /\ Len(CountedBuffer) = count
  BY BufferFacts DEF BufferInv
<1>1. CASE PollTest(t)
  <2>1. /\ pc[t] = "pollTest" /\ pc'[t] = IF count = 0 THEN "return" ELSE "takeLock"
        /\ op' = op /\ hand' = hand /\ c' = c /\ items' = items
    BY <1>1 DEF PollTest, Goto, shared, locals
  <2>2. ~Decided(t) /\ op[t] = "poll"
    BY <1>b, <2>1 DEF Decided, Shape
  <2>3. Decided(t)' <=> count = 0
    BY <2>1 DEF Decided
  <2>4. CASE count = 0
    <3>1. IF op[t] \in InsertOps THEN count = capacity ELSE count = 0
      BY <2>2, <2>4 DEF InsertOps
    <3>2. QED
      BY <1>a, <2>1, <2>2, <2>3, <2>4, <3>1, Refusal DEF Between, Early
  <2>5. CASE count # 0
    BY <1>a, <2>1, <2>2, <2>3, <2>5, Unnoticed DEF Between
  <2>6. QED
    BY <2>4, <2>5
<1>2. CASE TakeLock(t)
  <2>1. /\ pc[t] \in {"takeLock", "takeRelock"}
        /\ pc'[t] = IF op[t] = "drainTo" THEN "drain" ELSE "takeTest"
        /\ n'[t] = count /\ op' = op /\ hand' = hand /\ c' = c /\ items' = items
    BY <1>2, <1>b DEF TakeLock, Goto
  <2>2. ~Decided(t)
    BY <2>1 DEF Decided
  <2>3. Decided(t)' <=> op[t] # "drainTo" /\ count = 0 /\ (op[t] = "poll" \/ t \in expired')
    BY <2>1 DEF Decided
  <2>4. CASE op[t] # "drainTo" /\ count = 0 /\ (op[t] = "poll" \/ t \in expired')
    <3>1. op[t] \in TakeOps
      BY <1>b, <2>1, <2>4 DEF LabelOK
    <3>2. t \in expired' => op[t] \in TimedOps
      BY <1>b, <1>2 DEF TakeLock, Shape, TimedOps
    <3>3. op[t] \in {"offerTimed", "offer", "pollTimed", "poll"} /\ op[t] \notin InsertOps
      BY <2>4, <3>1, <3>2 DEF InsertOps, TakeOps, TimedOps
    <3>4. QED
      BY <1>a, <2>1, <2>2, <2>3, <2>4, <3>3, Refusal DEF Between, Early
  <2>5. CASE ~(op[t] # "drainTo" /\ count = 0 /\ (op[t] = "poll" \/ t \in expired'))
    BY <1>a, <2>1, <2>2, <2>3, <2>5, Unnoticed DEF Between
  <2>6. QED
    BY <2>4, <2>5
<1>3. CASE Dequeue(t)
  <2>1. /\ pc[t] = "takeTest" /\ pc'[t] = "decrement" /\ n[t] > 0
        /\ hand'[t] = <<Head(items)>> /\ items' = Tail(items) /\ op' = op /\ c' = c
    BY <1>3 DEF Dequeue, Goto
  <2>2. ~Decided(t) /\ ~Decided(t)' /\ op[t] \in TakeOps
    BY <1>b, <2>1 DEF Decided, LabelOK
  <2>3. Calls' = Calls
    <3>1. CallOf(t)' = CallOf(t)
      <4>1. Argument(t)' = Argument(t)
        BY <2>1, <2>2 DEF Argument, InsertOps, TakeOps
      <4>2. QED
        BY <2>1, <2>2, <4>1, CallCases, NextCallCases
    <3>2. Calls' = [Calls EXCEPT ![t] = CallOf(t)]
      BY <1>a, <3>1, CallsOfStep DEF Stepping
    <3>3. QED
      BY <3>2 DEF Calls
  <2>4. n[t] <= Len(items) /\ items # <<>>
    <3>1. n[t] <= Len(items)
      BY <2>1, CountedLemma
    <3>2. QED
      BY <1>c, <2>1, <3>1, EmptySeq
  <2>5. 1 \in 1..n[t] /\ 1 \in 1..Len(items) /\ 1 \in 1..1
    <3>1. n[t] \in Int /\ n[t] > 0 /\ n[t] <= Len(items) /\ Len(items) \in Nat
      BY <1>c, <2>1, <2>4
    <3>2. \A i, j \in Int : i > 0 /\ i <= j => 1 \in 1..i /\ 1 \in 1..j /\ 1 \in 1..1
      OBVIOUS
    <3>3. Len(items) \in Int
      BY <3>1
    <3>4. QED
      BY <3>1, <3>2, <3>3, Zenon
  <2>6. SubSeq(items, 1, 1) = <<Head(items)>>
    <3>1. SubSeq(items, 1, 1) = <<items[1]>> \o SubSeq(items, 1 + 1, 1)
      BY <1>c, <2>5, SubSeqRecursiveFirst
    <3>2. SubSeq(items, 1 + 1, 1) = <<>>
      BY SubSeqEmpty
    <3>3. <<items[1]>> \in Seq(Elems) /\ items[1] = Head(items)
      BY <1>c, <2>4, <2>5, ElementOfSeq
    <3>4. QED
      BY <3>1, <3>2, <3>3, ConcatEmptySeq
  <2>7. Tail(items) = SubSeq(items, 1 + 1, Len(items))
    BY <1>c, <2>4, TailIsSubSeq
  <2>8. CountedBuffer' = CountedBuffer
    BY <1>a, <2>1, <2>5, <2>6, <2>7, BufferDequeue
  <2>9. QED
    BY <2>3, <2>8 DEF Implemented
<1>4. CASE TakeAwait(t)
  <2>1. /\ pc[t] = "takeTest" /\ pc'[t] = "takeWait" /\ op[t] # "poll" /\ t \notin expired
        /\ op' = op /\ hand' = hand /\ c' = c /\ items' = items
    BY <1>4 DEF TakeAwait, Goto, locals
  <2>2. ~Decided(t) /\ ~Decided(t)'
    BY <2>1 DEF Decided
  <2>3. QED
    BY <1>a, <2>1, <2>2, Unnoticed DEF Between
<1>5. CASE TakeRefuse(t)
  <2>1. /\ pc[t] = "takeTest" /\ pc'[t] = "return" /\ n[t] = 0
        /\ op[t] = "poll" \/ t \in expired
        /\ op' = op /\ hand' = hand /\ c' = c /\ items' = items
    BY <1>5 DEF TakeRefuse, Goto, locals
  <2>2. Decided(t) /\ Decided(t)'
    BY <2>1 DEF Decided
  <2>3. QED
    BY <1>a, <2>1, <2>2, Unnoticed DEF Between
<1>6. CASE Decrement(t)
  <2>1. /\ pc[t] = "decrement" /\ pc'[t] = "takeCompare" /\ items' = items
        /\ op' = op /\ hand' = hand
    BY <1>6 DEF Decrement, SignalTaker, SignalAndGoto, Goto
  <2>2. ~Decided(t) /\ Decided(t)' /\ op[t] \in TakeOps /\ Len(hand[t]) = 1
    BY <1>b, <2>1 DEF Decided, LabelOK
  <2>3. Result(t)' = hand[t]
    BY <2>1, <2>2 DEF Result, InsertOps, TakeOps
  <2>4. /\ CountedBuffer = hand[t] \o Counted /\ CountedBuffer' = Counted
        /\ Counted \in Seq(Elems)
    BY <1>a, <2>1, BufferDecrement DEF Leaving
  <2>5. QED
    BY <1>a, <1>c, <2>1, <2>2, <2>3, <2>4, TakeEffectStep DEF Implemented
<1>7. CASE TakeCompare(t) \/ SignalNotFull(t) \/ DrainCompare(t)
  <2>1. /\ pc[t] \in {"takeCompare", "signalNotFull", "drainCompare"}
        /\ pc'[t] \in {"signalNotFull", "return"}
        /\ op' = op /\ hand' = hand /\ c' = c /\ items' = items
    BY <1>7 DEF TakeCompare, SignalNotFull, DrainCompare, SignalPutter, SignalAndGoto, Goto,
                shared, locals
  <2>2. Decided(t) /\ Decided(t)'
    BY <2>1 DEF Decided
  <2>3. QED
    BY <1>a, <2>1, <2>2, Unnoticed DEF Between
<1>8. CASE PeekRead(t)
  BY <1>8, <1>b DEF PeekRead, LabelOK
<1>9. CASE Drain(t)
  <2>1. pc[t] = "drain" /\ op[t] = "drainTo" /\ op' = op /\ c' = c
    BY <1>9, <1>b DEF Drain, LabelOK
  <2>2. ~Decided(t)
    BY <2>1 DEF Decided
  <2>3. CASE pc'[t] = "return"
    <3>1. items' = items /\ hand' = hand
      BY <1>9, <2>3 DEF Drain, Goto
    <3>2. hand[t] = <<>>
      BY <1>b, <2>1 DEF Shape, Early, InsertOps
    <3>3. Result(t)' = <<>>
      BY <2>1, <3>1, <3>2 DEF Result, InsertOps
    <3>4. CountedBuffer' = CountedBuffer
      BY <1>a, <2>1, <2>3, <3>1, BufferSame DEF Between
    <3>5. /\ 0 \in 0..Len(CountedBuffer) /\ SubSeq(CountedBuffer, 1, 0) = <<>>
          /\ SubSeq(CountedBuffer, 0 + 1, Len(CountedBuffer)) = CountedBuffer
      BY <1>c, SubSeqEmpty, SubSeqFull
    <3>6. Decided(t)'
      BY <2>3 DEF Decided
    <3>7. QED
      BY <1>a, <2>1, <2>2, <3>3, <3>4, <3>5, <3>6, DrainEffectStep DEF Implemented
  <2>4. CASE pc'[t] # "return"
    <3>1. PICK k \in 1..n[t] :
            /\ hand' = [hand EXCEPT ![t] = SubSeq(items, 1, k)]
            /\ items' = SubSeq(items, k + 1, Len(items))
            /\ Goto(t, "drainCount")
      BY <1>9, <2>4 DEF Drain, Goto
    <3>2. pc'[t] = "drainCount" /\ hand'[t] = SubSeq(items, 1, k)
      BY <3>1 DEF Goto
    <3>3. CountedBuffer' = CountedBuffer
      BY <1>a, <2>1, <3>1, <3>2, BufferDequeue
    <3>4. CallOf(t)' = CallOf(t)
      <4>1. Argument(t)' = <<>> /\ Argument(t) = <<>> /\ ~Decided(t)'
        BY <2>1, <3>2 DEF Argument, InsertOps, Decided
      <4>2. QED
        BY <2>1, <2>2, <3>2, <4>1, CallCases, NextCallCases
    <3>5. Calls' = [Calls EXCEPT ![t] = CallOf(t)]
      BY <1>a, <3>4, CallsOfStep DEF Stepping
    <3>6. Calls' = Calls
      BY <3>5 DEF Calls
    <3>7. QED
      BY <3>3, <3>6 DEF Implemented
  <2>5. QED
    BY <2>3, <2>4
<1>10. CASE DrainCount(t)
  <2>1. /\ pc[t] = "drainCount" /\ pc'[t] = "drainCompare" /\ items' = items
        /\ op' = op /\ hand' = hand /\ op[t] = "drainTo"
    BY <1>10, <1>b DEF DrainCount, Goto, LabelOK
  <2>2. ~Decided(t) /\ Decided(t)'
    BY <2>1 DEF Decided
  <2>3. Result(t)' = hand[t]
    BY <2>1 DEF Result, InsertOps
  <2>4. /\ CountedBuffer = hand[t] \o Counted /\ CountedBuffer' = Counted
        /\ Counted \in Seq(Elems)
    BY <1>a, <2>1, BufferDecrement DEF Leaving
  <2>5. Len(hand[t]) \in 0..Len(CountedBuffer)
    BY <1>c, <2>1 DEF CountInv, Leaving
  <2>6. SubSeq(CountedBuffer, 1, Len(hand[t])) = hand[t]
    <3>1. Len(hand[t]) \in 0..Len(hand[t])
      BY <1>c
    <3>2. SubSeq(hand[t] \o Counted, 1, Len(hand[t])) = SubSeq(hand[t], 1, Len(hand[t]))
      BY <1>c, <2>4, <3>1, PrefixOfConcat
    <3>3. QED
      BY <1>c, <2>4, <3>2, SubSeqFull
  <2>7. SubSeq(CountedBuffer, Len(hand[t]) + 1, Len(CountedBuffer)) = Counted
    BY <1>c, <2>4, RestOfConcat
  <2>8. QED
    BY <1>a, <2>1, <2>2, <2>3, <2>4, <2>5, <2>6, <2>7, DrainEffectStep DEF Implemented
<1>11. QED
  BY <1>1, <1>2, <1>3, <1>4, <1>5, <1>6, <1>7, <1>8, <1>9, <1>10 DEF TakeStep

LEMMA FullImplements ==
  ASSUME RefInv, RefInv', NEW t \in Threads, FullStep(t)
  PROVE  Implemented
<1> USE DEF RefInv, Inv, TypeOK
<1>a. Stepping(t) /\ Others(t)
  BY OthersFrame DEF Stepping, Step
<1>b. Shape(t) /\ LabelOK(t)
  BY DEF ShapeInv, LabelInv
<1>c. count \in Nat /\ items \in Seq(Elems) /\ BufferLocked /\ BufferLocked'
  BY LockedBuffer, PTL
<1>1. CASE FullPutLock(t) \/ FullTakeLock(t)
  <2>1. /\ pc[t] \in {"fullPutLock", "fullTakeLock"} /\ pc'[t] \in {"fullTakeLock", "fullBody"}
        /\ op' = op /\ hand' = hand /\ c' = c /\ items' = items
    BY <1>1 DEF FullPutLock, FullTakeLock, Goto, locals
  <2>2. ~Decided(t) /\ ~Decided(t)'
    BY <2>1 DEF Decided
  <2>3. QED
    BY <1>a, <2>1, <2>2, Unnoticed DEF Between
<1>2. CASE RemoveItem(t)
  <2>1. /\ pc[t] = "fullBody" /\ pc'[t] = "fullCompare" /\ op[t] = "remove" /\ c'[t] = count
        /\ op' = op /\ hand' = hand
    BY <1>2 DEF RemoveItem, Goto
  <2>2. PICK i \in DOMAIN items :
          /\ items[i] = hand[t][1]
          /\ \A j \in 1..(i - 1) : items[j] # hand[t][1]
          /\ items' = RemoveAt(items, i)
    BY <1>2 DEF RemoveItem
  <2>3. ~Decided(t) /\ Decided(t)'
    BY <2>1 DEF Decided
  <2>4. CountedBuffer = items /\ CountedBuffer' = items'
    BY <1>c, <2>1 DEF BufferLocked, FullHeld
  <2>5. CountedBuffer' = RemoveFirst(CountedBuffer, hand[t][1])
    BY <1>c, <2>2, <2>4, RemoveFirstAt
  <2>6. Contains(CountedBuffer, hand[t][1])
    <3>1. i \in 1..Len(items)
      BY <1>c, LenProperties
    <3>2. QED
      BY <2>2, <2>4, <3>1 DEF Contains
  <2>7. Result(t)' = hand[t]
    BY <1>c, <2>1 DEF Result
  <2>8. Result(t)' = IF Contains(CountedBuffer, hand[t][1]) THEN hand[t] ELSE <<>>
    BY <2>6, <2>7
  <2>9. QED
    BY <1>a, <2>1, <2>3, <2>5, <2>8, RemoveEffectStep DEF Implemented
<1>3. CASE FullRead(t)
  <2>1. /\ pc[t] = "fullBody" /\ pc'[t] = "return" /\ items' = items /\ op' = op /\ c' = c
    BY <1>3 DEF FullRead, Goto
  <2>2. ~Decided(t) /\ Decided(t)'
    BY <2>1 DEF Decided
  <2>3. CountedBuffer = items /\ CountedBuffer' = CountedBuffer
    BY <1>a, <1>c, <2>1, BufferSame DEF BufferLocked, FullHeld, Between
  <2>4. CASE op[t] = "remove"
    <3>1. ~Contains(CountedBuffer, hand[t][1]) /\ hand' = hand
      BY <1>3, <2>3, <2>4 DEF FullRead
    <3>2. Result(t)' = <<>>
      BY <1>b, <2>1, <2>4 DEF Result, Shape, Early
    <3>3. CountedBuffer' = RemoveFirst(CountedBuffer, hand[t][1])
      BY <2>3, <3>1 DEF RemoveFirst, Contains
    <3>4. Result(t)' = IF Contains(CountedBuffer, hand[t][1]) THEN hand[t] ELSE <<>>
      BY <3>1, <3>2
    <3>5. QED
      BY <1>a, <2>1, <2>2, <2>4, <3>3, <3>4, RemoveEffectStep DEF Implemented
  <2>5. CASE op[t] = "toArray"
    <3>1. hand'[t] = items
      BY <1>3, <2>5 DEF FullRead
    <3>2. Result(t)' = CountedBuffer
      BY <2>1, <2>3, <2>5, <3>1 DEF Result, InsertOps
    <3>3. QED
      BY <1>a, <2>1, <2>2, <2>3, <2>5, <3>2, CopyEffectStep DEF Implemented
  <2>6. QED
    BY <1>3, <2>4, <2>5 DEF FullRead
<1>4. CASE Clear(t)
  <2>1. /\ pc[t] = "fullBody" /\ pc'[t] = "fullCompare" /\ op[t] = "clear" /\ items' = <<>>
        /\ op' = op /\ hand' = hand
    BY <1>4 DEF Clear, Goto
  <2>2. ~Decided(t) /\ Decided(t)'
    BY <2>1 DEF Decided
  <2>3. CountedBuffer' = <<>>
    BY <1>c, <2>1 DEF BufferLocked, FullHeld
  <2>4. Result(t)' = <<>>
    BY <1>b, <2>1 DEF Result, Shape, Early, InsertOps
  <2>5. QED
    BY <1>a, <2>1, <2>2, <2>3, <2>4, ClearEffectStep DEF Implemented
<1>5. CASE FullCompare(t)
  <2>1. /\ pc[t] = "fullCompare" /\ pc'[t] = "return"
        /\ op' = op /\ hand' = hand /\ c' = c /\ items' = items
    BY <1>5 DEF FullCompare, SignalPutter, SignalAndGoto, Goto, locals
  <2>2. Decided(t) /\ Decided(t)'
    BY <2>1 DEF Decided
  <2>3. QED
    BY <1>a, <2>1, <2>2, Unnoticed DEF Between
<1>6. QED
  BY <1>1, <1>2, <1>3, <1>4, <1>5 DEF FullStep

\* setCapacity can only write the one capacity there is.
LEMMA SetCapacityImplements ==
  ASSUME RefInv, SetCapacity
  PROVE  Implemented
<1>1. capacity' = capacity
  BY FixedCapacity DEF SetCapacity, RefInv, Inv, TypeOK
<1>2. UNCHANGED <<items, count, pc, op, hand, c, n, expired>>
  BY DEF SetCapacity, locals
<1>3. CountedBuffer' = CountedBuffer
  BY <1>2 DEF CountedBuffer, Entering, Leaving
<1>4. Calls' = Calls
  BY <1>1, <1>2 DEF Calls, CallOf, Decided, Argument, Result
<1>5. QED
  BY <1>3, <1>4 DEF Implemented

\* Linearizability: with one capacity and without peek, every behaviour of the
\* two-lock queue, with its signals, timeouts, interrupts and reads of count and
\* capacity outside the locks, is one of the atomic bounded FIFO queue, which
\* takes effect where count is updated or a refusal is decided.
THEOREM QueueIsLinearizable == Spec => Linearizable
<1>1. Init => Abstract!Init
  <2>1. SUFFICES ASSUME Init PROVE Abstract!Init
    OBVIOUS
  <2>2. items = <<>> /\ Entering = 0 /\ {t \in Threads : Leaving(t)} = {}
    BY <2>1 DEF Init, Entering, Leaving
  <2>3. CountedBuffer = <<>> \o SubSeq(<<>>, 1, Len(<<>>) - 0)
    BY <2>2 DEF CountedBuffer
  <2>4. CountedBuffer = <<>>
    BY <2>3
  <2>5. \A t \in Threads : CallOf(t) = Abstract!NoCall
    BY <2>1 DEF Init, CallOf, Decided, Argument, InsertOps, Abstract!NoCall
  <2>6. QED
    BY <2>4, <2>5 DEF Abstract!Init
<1>2. RefInv /\ RefInv' /\ [Next]_vars => [Abstract!Next]_Abstract!vars
  <2>1. SUFFICES ASSUME RefInv, RefInv', [Next]_vars PROVE [Abstract!Next]_Abstract!vars
    OBVIOUS
  <2>2. ASSUME NEW t \in Threads, Begin(t) \/ Step(t) \/ Interrupt(t) \/ TimedWaitEnds(t)
        PROVE  Implemented
    BY <2>1, <2>2, BeginImplements, PutImplements, TakeImplements, FullImplements,
       EndImplements, TimedWaitEndsImplements DEF Step
  <2>3. CASE UNCHANGED vars
    <3>1. UNCHANGED <<items, count, capacity, pc, op, hand, c, n, expired>>
      BY <2>3 DEF vars, shared, locals
    <3>2. CountedBuffer' = CountedBuffer
      BY <3>1 DEF CountedBuffer, Entering, Leaving
    <3>3. Calls' = Calls
      BY <3>1 DEF Calls, CallOf, Decided, Argument, Result
    <3>4. QED
      BY <3>2, <3>3 DEF Abstract!vars, Calls
  <2>4. Implemented => [Abstract!Next]_Abstract!vars
    BY DEF Implemented, Abstract!vars, Calls
  <2>5. QED
    BY <2>1, <2>2, <2>3, <2>4, SetCapacityImplements DEF Next
<1>3. QED
  BY <1>1, <1>2, RefInvariance, PTL DEF Spec, Linearizable, Abstract!Spec
=============================================================================
