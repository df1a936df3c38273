------------------------ MODULE ResizableQueueProofs ------------------------
(***************************************************************************)
(* Proofs about ResizableQueue, for any set of threads, of elements and of *)
(* capacities, and any choice of operations.                               *)
(***************************************************************************)
EXTENDS ResizableQueue, SequenceTheorems, TLAPS

\* Where thread t can be while it executes a given operation, and what it
\* then holds in its hand.
LabelOK(t) ==
  /\ pc[t] \in {"offerRead", "offerTest", "putLock", "putWait", "putRelock",
                "putTest", "increment", "signalMore", "signalNotEmpty"}
       => op[t] \in InsertOps
  /\ pc[t] \in {"pollTest", "takeLock"} => op[t] \in TakeOps \cup {"peek", "drainTo"}
  /\ pc[t] \in {"takeWait", "takeRelock", "takeTest", "decrement"} => op[t] \in TakeOps
  /\ pc[t] = "peekRead" => op[t] = "peek"
  /\ pc[t] \in {"drain", "drainCount"} => op[t] = "drainTo"
  /\ pc[t] \in {"fullPutLock", "fullTakeLock", "fullBody"} => op[t] \in FullOps
  /\ op[t] \in InsertOps => Len(hand[t]) = 1
  /\ pc[t] = "decrement" => Len(hand[t]) = 1

LabelInv == \A t \in Threads : LabelOK(t)

\* What takeLock's owner relies on: the items it counted are still there.
CountInv ==
  /\ CountTracksItems
  /\ \A t \in Threads : pc[t] \in {"takeTest", "drain"} => n[t] <= count
  /\ \A t \in Threads : Leaving(t) => Len(hand[t]) <= count

\* The inductive invariant that the other proofs rest on.
Inv == TypeOK /\ LockInv /\ LabelInv /\ CountInv

-----------------------------------------------------------------------------

\* A single element can be taken out of a sequence anywhere.
LEMMA RemoveAtProperties ==
  ASSUME NEW S, NEW s \in Seq(S), NEW i \in 1..Len(s)
  PROVE  /\ RemoveAt(s, i) \in Seq(S)
         /\ Len(RemoveAt(s, i)) = Len(s) - 1
<1> DEFINE before == SubSeq(s, 1, i-1)
           after  == SubSeq(s, i+1, Len(s))
<1>1. before \in Seq(S) /\ Len(before) = i - 1
  BY SubSeqProperties
<1>2. after \in Seq(S) /\ Len(after) = Len(s) - i
  BY SubSeqProperties
<1>3. RemoveAt(s, i) = before \o after
  BY DEF RemoveAt
<1> HIDE DEF before, after
<1>4. /\ before \o after \in Seq(S)
      /\ Len(before \o after) = Len(before) + Len(after)
  BY <1>1, <1>2, ConcatProperties
<1>5. Len(s) \in Nat /\ i \in Int
  OBVIOUS
<1>6. (i - 1) + (Len(s) - i) = Len(s) - 1
  BY <1>5
<1>7. Len(RemoveAt(s, i)) = (i - 1) + (Len(s) - i)
  BY <1>1, <1>2, <1>3, <1>4
<1>8. QED
  BY <1>3, <1>4, <1>6, <1>7

LEMMA InitInv == Init => Inv
<1> SUFFICES ASSUME Init PROVE Inv
  OBVIOUS
<1> USE CapacitiesAssumption, ThreadsAssumption DEF Init
<1>1. TypeOK
  BY DEF TypeOK, Labels, AllOps
<1>2. LockInv
  BY DEF LockInv, PutHeld, FullHeld, TakeHeld
<1>3. LabelInv
  BY DEF LabelInv, LabelOK, InsertOps
<1>4. CountInv
  BY DEF CountInv, CountTracksItems, Leaving, Entering
<1>5. QED
  BY <1>1, <1>2, <1>3, <1>4 DEF Inv

-----------------------------------------------------------------------------
(***************************************************************************)
(* Type correctness.                                                       *)
(***************************************************************************)

\* Under both locks nothing is on its way into or out of the list.
LEMMA SnapshotLemma ==
  ASSUME Inv, NEW t \in Threads, pc[t] = "fullBody"
  PROVE  count = Len(items)
  BY DEF Inv, TypeOK, LockInv, CountInv, CountTracksItems, Leaving, Entering,
         PutHeld, TakeHeld, FullHeld

\* The items that takeLock's owner counted are in the list.
LEMMA CountedLemma ==
  ASSUME Inv, NEW t \in Threads, pc[t] \in {"takeTest", "drain"}
  PROVE  n[t] <= Len(items)
  BY DEF Inv, TypeOK, LockInv, CountInv, CountTracksItems, Leaving, Entering,
         TakeHeld

LEMMA TypeStep ==
  ASSUME Inv, Next
  PROVE  TypeOK'
<1> USE DEF Inv, TypeOK, shared, locals
<1>1. ASSUME NEW t \in Threads, Begin(t) PROVE TypeOK'
  <2>1. PICK o \in Ops :
          /\ op' = [op EXCEPT ![t] = o]
          /\ Goto(t, FirstLabel(o))
          /\ IF o \in InsertOps \cup {"remove"}
             THEN \E e \in Elems : hand' = [hand EXCEPT ![t] = <<e>>]
             ELSE UNCHANGED hand
          /\ \/ UNCHANGED expired
             \/ o \in TimedOps /\ expired' = expired \cup {t}
    BY <1>1 DEF Begin
  <2>2. FirstLabel(o) \in Labels
    BY DEF FirstLabel, Labels
  <2>3. pc' \in [Threads -> Labels] /\ op' \in [Threads -> AllOps \cup {"none"}]
    BY <2>1, <2>2, OpsAssumption DEF Goto
  <2>4. hand' \in [Threads -> Seq(Elems)]
    <3>1. CASE UNCHANGED hand
      BY <3>1
    <3>2. CASE \E e \in Elems : hand' = [hand EXCEPT ![t] = <<e>>]
      BY <3>2
    <3>3. QED
      BY <2>1, <3>1, <3>2
  <2>7. expired' \subseteq Threads
    BY <2>1
  <2>5. UNCHANGED <<items, count, capacity, putLock, takeLock, c, n>>
    BY <1>1 DEF Begin
  <2>6. QED
    BY <2>3, <2>4, <2>5, <2>7
<1>2. ASSUME NEW t \in Threads, PutStep(t) PROVE TypeOK'
  <2>1. CASE OfferRead(t)
    BY <2>1 DEF OfferRead, Goto, Labels
  <2>9. CASE OfferTest(t)
    BY <2>9 DEF OfferTest, Goto, Labels
  <2>7. CASE PutLock(t)
    BY <2>7 DEF PutLock, Goto, Labels, PutHeld
  <2>8. CASE PutAwait(t) \/ PutRefuse(t)
    BY <2>8 DEF PutAwait, PutRefuse, Goto, Labels
  <2>2. CASE Enqueue(t)
    BY <2>2, ConcatProperties DEF Enqueue, Goto, Labels, PutHeld
  <2>3. CASE Increment(t)
    BY <2>3 DEF Increment, Goto, Labels, PutHeld
  <2>4. CASE SignalMore(t)
    BY <2>4 DEF SignalMore, SignalPutter, SignalAndGoto, Goto, Labels
  <2>5. CASE SignalNotEmpty(t)
    BY <2>5 DEF SignalNotEmpty, SignalTaker, SignalAndGoto, Goto, Labels
  <2>6. QED
    BY <1>2, <2>1, <2>2, <2>3, <2>4, <2>5, <2>7, <2>8, <2>9 DEF PutStep
<1>3. ASSUME NEW t \in Threads, TakeStep(t) PROVE TypeOK'
  <2>1. CASE PollTest(t) \/ TakeCompare(t)
    BY <2>1 DEF PollTest, TakeCompare, Goto, Labels
  <2>10. CASE TakeLock(t)
    BY <2>10 DEF TakeLock, Goto, Labels, TakeHeld
  <2>11. CASE TakeAwait(t) \/ TakeRefuse(t)
    BY <2>11 DEF TakeAwait, TakeRefuse, Goto, Labels
  <2>2. CASE Dequeue(t)
    <3>1. items # <<>>
      BY <2>2 DEF Dequeue, LockInv, CountInv, CountTracksItems, Leaving, Entering, TakeHeld
    <3>2. QED
      BY <2>2, <3>1, HeadTailProperties DEF Dequeue, Goto, Labels, TakeHeld
  <2>3. CASE Decrement(t)
    <3>1. pc[t] = "decrement" /\ count' = count - 1 /\ takeLock' = NoThread
      BY <2>3 DEF Decrement
    <3>2. Len(hand[t]) = 1 /\ Len(hand[t]) <= count
      BY <3>1 DEF LabelInv, LabelOK, CountInv, Leaving
    <3>3. count' \in Nat
      BY <3>1, <3>2
    <3>4. c' \in [Threads -> Int]
      BY <2>3 DEF Decrement
    <3>5. pc' \in [Threads -> Labels]
      BY <2>3 DEF Decrement, SignalTaker, SignalAndGoto, Goto, Labels
    <3>6. UNCHANGED <<items, capacity, putLock, op, hand, n, expired>>
      BY <2>3 DEF Decrement
    <3>7. QED
      BY <3>1, <3>3, <3>4, <3>5, <3>6
  <2>4. CASE SignalNotFull(t)
    BY <2>4 DEF SignalNotFull, SignalPutter, SignalAndGoto, Goto, Labels
  <2>5. CASE PeekRead(t)
    BY <2>5, HeadTailProperties DEF PeekRead, Goto, Labels
  <2>6. CASE Drain(t)
    <3>1. CASE UNCHANGED <<items, hand>>
      BY <2>6, <3>1 DEF Drain, Goto, Labels, TakeHeld
    <3>2. CASE ~ UNCHANGED <<items, hand>>
      <4>1. PICK i \in 1..n[t] :
              /\ hand' = [hand EXCEPT ![t] = SubSeq(items, 1, i)]
              /\ items' = SubSeq(items, i + 1, Len(items))
              /\ Goto(t, "drainCount")
              /\ UNCHANGED takeLock
        BY <2>6, <3>2 DEF Drain
      <4>2. i \in 1..Len(items)
        BY <2>6, CountedLemma DEF Drain
      <4>3. SubSeq(items, 1, i) \in Seq(Elems) /\ items' \in Seq(Elems)
        BY <4>1, <4>2, SubSeqProperties
      <4>4. QED
        BY <2>6, <4>1, <4>3 DEF Drain, Goto, Labels, TakeHeld
    <3>3. QED
      BY <3>1, <3>2
  <2>7. CASE DrainCount(t)
    <3>1. count - Len(hand[t]) \in Nat
      BY <2>7 DEF DrainCount, CountInv, Leaving
    <3>2. QED
      BY <2>7, <3>1 DEF DrainCount, Goto, Labels, TakeHeld
  <2>8. CASE DrainCompare(t)
    BY <2>8 DEF DrainCompare, Goto, Labels
  <2>9. QED
    BY <1>3, <2>1, <2>2, <2>3, <2>4, <2>5, <2>6, <2>7, <2>8, <2>10, <2>11 DEF TakeStep
<1>4. ASSUME NEW t \in Threads, FullStep(t) PROVE TypeOK'
  <2>1. CASE FullPutLock(t) \/ FullTakeLock(t) \/ FullRead(t)
    BY <2>1 DEF FullPutLock, FullTakeLock, FullRead, Goto, Labels, FullHeld
  <2>2. CASE RemoveItem(t)
    <3>1. count = Len(items)
      BY <2>2, SnapshotLemma DEF RemoveItem
    <3>2. PICK i \in DOMAIN items : items' = RemoveAt(items, i)
      BY <2>2 DEF RemoveItem
    <3>3. items' \in Seq(Elems) /\ count - 1 \in Nat
      BY <3>1, <3>2, RemoveAtProperties
    <3>4. QED
      BY <2>2, <3>3 DEF RemoveItem, Goto, Labels, FullHeld
  <2>3. CASE Clear(t)
    BY <2>3 DEF Clear, Goto, Labels, FullHeld
  <2>4. CASE FullCompare(t)
    BY <2>4 DEF FullCompare, SignalPutter, SignalAndGoto, Goto, Labels
  <2>5. QED
    BY <1>4, <2>1, <2>2, <2>3, <2>4 DEF FullStep
<1>5. ASSUME NEW t \in Threads, Return(t) \/ Interrupt(t) \/ TimedWaitEnds(t) PROVE TypeOK'
  <2>1. CASE Return(t) \/ Interrupt(t)
    <3>1. <<>> \in Seq(Elems) /\ -1 \in Int /\ 0 \in Int /\ "idle" \in Labels
      BY DEF Labels
    <3>2. Leave(t) /\ UNCHANGED shared
      BY <2>1 DEF Return, Interrupt
    <3>3. pc' \in [Threads -> Labels] /\ op' \in [Threads -> AllOps \cup {"none"}]
      BY <3>1, <3>2 DEF Leave, Goto
    <3>4. hand' \in [Threads -> Seq(Elems)]
      BY <3>1, <3>2 DEF Leave
    <3>5. c' \in [Threads -> Int] /\ n' \in [Threads -> Int] /\ expired' \subseteq Threads
      BY <3>1, <3>2 DEF Leave
    <3>6. QED
      BY <3>2, <3>3, <3>4, <3>5
  <2>2. CASE TimedWaitEnds(t)
    BY <2>2 DEF TimedWaitEnds, Goto, Labels
  <2>3. QED
    BY <1>5, <2>1, <2>2
<1>6. CASE SetCapacity
  BY <1>6 DEF SetCapacity
<1>7. QED
  BY <1>1, <1>2, <1>3, <1>4, <1>5, <1>6 DEF Next, Step

-----------------------------------------------------------------------------
(***************************************************************************)
(* A step of t leaves the local state of every other thread alone, except  *)
(* that it may wake one waiter.                                            *)
(***************************************************************************)

Others(t) ==
  \A x \in Threads \ {t} :
    /\ \/ pc'[x] = pc[x]
       \/ pc[x] = "putWait" /\ pc'[x] = "putRelock"
       \/ pc[x] = "takeWait" /\ pc'[x] = "takeRelock"
    /\ op'[x] = op[x] /\ hand'[x] = hand[x] /\ c'[x] = c[x] /\ n'[x] = n[x]

LEMMA OthersFrame ==
  ASSUME TypeOK, NEW t \in Threads,
         Begin(t) \/ Step(t) \/ Interrupt(t) \/ TimedWaitEnds(t)
  PROVE  Others(t)
<1> USE DEF Others, TypeOK, locals
<1>1. CASE Begin(t)
  BY <1>1 DEF Begin, Goto
<1>2. CASE PutStep(t)
  <2>1. CASE OfferRead(t)
    BY <2>1 DEF OfferRead, Goto
  <2>2. CASE OfferTest(t)
    BY <2>2 DEF OfferTest, Goto
  <2>3. CASE PutLock(t)
    BY <2>3 DEF PutLock, Goto
  <2>4. CASE Enqueue(t)
    BY <2>4 DEF Enqueue, Goto
  <2>5. CASE PutAwait(t)
    BY <2>5 DEF PutAwait, Goto
  <2>6. CASE PutRefuse(t)
    BY <2>6 DEF PutRefuse, Goto
  <2>7. CASE Increment(t)
    BY <2>7 DEF Increment, Goto
  <2>8. CASE SignalMore(t)
    BY <2>8 DEF SignalMore, SignalPutter, SignalAndGoto, Goto
  <2>9. CASE SignalNotEmpty(t)
    BY <2>9 DEF SignalNotEmpty, SignalTaker, SignalAndGoto, Goto
  <2>10. QED
    BY <1>2, <2>1, <2>2, <2>3, <2>4, <2>5, <2>6, <2>7, <2>8, <2>9 DEF PutStep
<1>3. CASE TakeStep(t)
  <2>1. CASE PollTest(t)
    BY <2>1 DEF PollTest, Goto
  <2>2. CASE TakeLock(t)
    BY <2>2 DEF TakeLock, Goto
  <2>3. CASE Dequeue(t)
    BY <2>3 DEF Dequeue, Goto
  <2>4. CASE TakeAwait(t)
    BY <2>4 DEF TakeAwait, Goto
  <2>5. CASE TakeRefuse(t)
    BY <2>5 DEF TakeRefuse, Goto
  <2>6. CASE Decrement(t)
    BY <2>6 DEF Decrement, SignalTaker, SignalAndGoto, Goto
  <2>7. CASE TakeCompare(t)
    BY <2>7 DEF TakeCompare, Goto
  <2>8. CASE SignalNotFull(t)
    BY <2>8 DEF SignalNotFull, SignalPutter, SignalAndGoto, Goto
  <2>9. CASE PeekRead(t)
    BY <2>9 DEF PeekRead, Goto
  <2>10. CASE Drain(t)
    BY <2>10 DEF Drain, Goto
  <2>11. CASE DrainCount(t)
    BY <2>11 DEF DrainCount, Goto
  <2>12. CASE DrainCompare(t)
    BY <2>12 DEF DrainCompare, Goto
  <2>13. QED
    BY <1>3, <2>1, <2>2, <2>3, <2>4, <2>5, <2>6, <2>7, <2>8, <2>9, <2>10, <2>11, <2>12 DEF TakeStep
<1>4. CASE FullStep(t)
  <2>1. CASE FullPutLock(t)
    BY <2>1 DEF FullPutLock, Goto
  <2>2. CASE FullTakeLock(t)
    BY <2>2 DEF FullTakeLock, Goto
  <2>3. CASE RemoveItem(t)
    BY <2>3 DEF RemoveItem, Goto
  <2>4. CASE FullRead(t)
    BY <2>4 DEF FullRead, Goto
  <2>5. CASE Clear(t)
    BY <2>5 DEF Clear, Goto
  <2>6. CASE FullCompare(t)
    BY <2>6 DEF FullCompare, SignalPutter, SignalAndGoto, Goto
  <2>7. QED
    BY <1>4, <2>1, <2>2, <2>3, <2>4, <2>5, <2>6 DEF FullStep
<1>5. CASE Return(t) \/ Interrupt(t) \/ TimedWaitEnds(t)
  BY <1>5 DEF Return, Interrupt, TimedWaitEnds, Leave, Goto
<1>6. QED
  BY <1>1, <1>2, <1>3, <1>4, <1>5 DEF Step

-----------------------------------------------------------------------------
(***************************************************************************)
(* The locks.                                                              *)
(***************************************************************************)

LEMMA LockStep ==
  ASSUME Inv, NEW t \in Threads,
         Begin(t) \/ Step(t) \/ Interrupt(t) \/ TimedWaitEnds(t)
  PROVE  LockInv'
<1> USE ThreadsAssumption DEF Inv, TypeOK, LockInv, Others, PutHeld, TakeHeld, FullHeld, shared
<1>0. Others(t)
  BY OthersFrame
<1>1. CASE Begin(t)
  BY <1>0, <1>1 DEF Begin, Goto, FirstLabel
<1>2. CASE PutStep(t)
  <2>1. CASE OfferRead(t)
    BY <2>1, <1>0 DEF OfferRead, Goto
  <2>2. CASE OfferTest(t)
    BY <2>2, <1>0 DEF OfferTest, Goto
  <2>3. CASE PutLock(t)
    BY <2>3, <1>0 DEF PutLock, Goto
  <2>4. CASE Enqueue(t)
    BY <2>4, <1>0 DEF Enqueue, Goto
  <2>5. CASE PutAwait(t)
    BY <2>5, <1>0 DEF PutAwait, Goto
  <2>6. CASE PutRefuse(t)
    BY <2>6, <1>0 DEF PutRefuse, Goto
  <2>7. CASE Increment(t)
    BY <2>7, <1>0 DEF Increment, Goto
  <2>8. CASE SignalMore(t)
    <3>1. /\ pc[t] = "signalMore" /\ pc'[t] \in {"signalNotEmpty", "return"}
          /\ putLock' = NoThread /\ takeLock' = takeLock
      BY <2>8 DEF SignalMore, SignalPutter, SignalAndGoto, Goto
    <3>2. QED
      BY <3>1, <1>0
  <2>9. CASE SignalNotEmpty(t)
    BY <2>9, <1>0 DEF SignalNotEmpty, SignalTaker, SignalAndGoto, Goto
  <2>10. QED
    BY <1>2, <2>1, <2>2, <2>3, <2>4, <2>5, <2>6, <2>7, <2>8, <2>9 DEF PutStep
<1>3. CASE TakeStep(t)
  <2>1. CASE PollTest(t)
    BY <2>1, <1>0 DEF PollTest, Goto
  <2>2. CASE TakeLock(t)
    BY <2>2, <1>0 DEF TakeLock, Goto
  <2>3. CASE Dequeue(t)
    BY <2>3, <1>0 DEF Dequeue, Goto
  <2>4. CASE TakeAwait(t)
    BY <2>4, <1>0 DEF TakeAwait, Goto
  <2>5. CASE TakeRefuse(t)
    BY <2>5, <1>0 DEF TakeRefuse, Goto
  <2>6. CASE Decrement(t)
    <3>1. /\ pc[t] = "decrement" /\ pc'[t] = "takeCompare"
          /\ putLock' = putLock /\ takeLock' = NoThread
      BY <2>6 DEF Decrement, SignalTaker, SignalAndGoto, Goto
    <3>2. QED
      BY <3>1, <1>0
  <2>7. CASE TakeCompare(t)
    BY <2>7, <1>0 DEF TakeCompare, Goto
  <2>8. CASE SignalNotFull(t)
    BY <2>8, <1>0 DEF SignalNotFull, SignalPutter, SignalAndGoto, Goto
  <2>9. CASE PeekRead(t)
    BY <2>9, <1>0 DEF PeekRead, Goto
  <2>10. CASE Drain(t)
    BY <2>10, <1>0 DEF Drain, Goto
  <2>11. CASE DrainCount(t)
    BY <2>11, <1>0 DEF DrainCount, Goto
  <2>12. CASE DrainCompare(t)
    BY <2>12, <1>0 DEF DrainCompare, Goto
  <2>13. QED
    BY <1>3, <2>1, <2>2, <2>3, <2>4, <2>5, <2>6, <2>7, <2>8, <2>9, <2>10, <2>11, <2>12 DEF TakeStep
<1>4. CASE FullStep(t)
  <2>1. CASE FullPutLock(t)
    BY <2>1, <1>0 DEF FullPutLock, Goto
  <2>2. CASE FullTakeLock(t)
    BY <2>2, <1>0 DEF FullTakeLock, Goto
  <2>3. CASE RemoveItem(t)
    BY <2>3, <1>0 DEF RemoveItem, Goto
  <2>4. CASE FullRead(t)
    BY <2>4, <1>0 DEF FullRead, Goto
  <2>5. CASE Clear(t)
    BY <2>5, <1>0 DEF Clear, Goto
  <2>6. CASE FullCompare(t)
    <3>1. /\ pc[t] = "fullCompare" /\ pc'[t] = "return"
          /\ putLock' = NoThread /\ takeLock' = NoThread
      BY <2>6 DEF FullCompare, SignalPutter, SignalAndGoto, Goto
    <3>2. QED
      BY <3>1, <1>0
  <2>7. QED
    BY <1>4, <2>1, <2>2, <2>3, <2>4, <2>5, <2>6 DEF FullStep
<1>5. CASE Return(t)
  BY <1>0, <1>5 DEF Return, Leave, Goto
<1>6. CASE Interrupt(t)
  BY <1>0, <1>6 DEF Interrupt, Interruptible, Leave, Goto
<1>7. CASE TimedWaitEnds(t)
  <2>1. /\ pc[t] \in {"putWait", "takeWait"} /\ pc'[t] \in {"putRelock", "takeRelock"}
        /\ putLock' = putLock /\ takeLock' = takeLock
    BY <1>7 DEF TimedWaitEnds, Goto
  <2>2. QED
    BY <2>1, <1>0
<1>8. QED
  BY <1>1, <1>2, <1>3, <1>4, <1>5, <1>6, <1>7 DEF Step

-----------------------------------------------------------------------------
(***************************************************************************)
(* Labels, operations and hands.                                           *)
(***************************************************************************)

LEMMA LabelStep ==
  ASSUME Inv, NEW t \in Threads,
         Begin(t) \/ Step(t) \/ Interrupt(t) \/ TimedWaitEnds(t)
  PROVE  LabelInv'
<1> USE DEF Inv, TypeOK, LabelOK, InsertOps, TakeOps, FullOps, locals
<1>0. LabelOK(t)
  BY DEF LabelInv
<1>a. ASSUME NEW x \in Threads, x # t PROVE LabelOK(x)'
  <2>1. LabelOK(x)
    BY DEF LabelInv
  <2>2. /\ op'[x] = op[x] /\ hand'[x] = hand[x]
        /\ \/ pc'[x] = pc[x]
           \/ pc[x] = "putWait" /\ pc'[x] = "putRelock"
           \/ pc[x] = "takeWait" /\ pc'[x] = "takeRelock"
    BY <1>a, OthersFrame DEF Others
  <2>3. QED
    BY <2>1, <2>2
<1>b. SUFFICES LabelOK(t)'
  BY <1>a DEF LabelInv
<1>1. CASE Begin(t)
  <2>1. PICK o \in Ops :
          /\ op' = [op EXCEPT ![t] = o]
          /\ pc' = [pc EXCEPT ![t] = FirstLabel(o)]
          /\ o \in InsertOps => \E e \in Elems : hand' = [hand EXCEPT ![t] = <<e>>]
    BY <1>1 DEF Begin, Goto
  <2>2. o \in InsertOps => Len(hand'[t]) = 1
    BY <2>1
  <2>3. QED
    BY <2>1, <2>2, OpsAssumption DEF FirstLabel, AllOps
<1>2. CASE PutStep(t)
  <2>1. CASE OfferRead(t)
    BY <2>1, <1>0 DEF OfferRead, Goto
  <2>2. CASE OfferTest(t)
    BY <2>2, <1>0 DEF OfferTest, Goto
  <2>3. CASE PutLock(t)
    BY <2>3, <1>0 DEF PutLock, Goto
  <2>4. CASE Enqueue(t)
    BY <2>4, <1>0 DEF Enqueue, Goto
  <2>5. CASE PutAwait(t)
    BY <2>5, <1>0 DEF PutAwait, Goto
  <2>6. CASE PutRefuse(t)
    BY <2>6, <1>0 DEF PutRefuse, Goto
  <2>7. CASE Increment(t)
    BY <2>7, <1>0 DEF Increment, Goto
  <2>8. CASE SignalMore(t)
    BY <2>8, <1>0 DEF SignalMore, SignalPutter, SignalAndGoto, Goto
  <2>9. CASE SignalNotEmpty(t)
    BY <2>9, <1>0 DEF SignalNotEmpty, SignalTaker, SignalAndGoto, Goto
  <2>10. QED
    BY <1>2, <2>1, <2>2, <2>3, <2>4, <2>5, <2>6, <2>7, <2>8, <2>9 DEF PutStep
<1>3. CASE TakeStep(t)
  <2>1. CASE PollTest(t)
    BY <2>1, <1>0 DEF PollTest, Goto
  <2>2. CASE TakeLock(t)
    BY <2>2, <1>0 DEF TakeLock, Goto
  <2>3. CASE Dequeue(t)
    BY <2>3, <1>0 DEF Dequeue, Goto
  <2>4. CASE TakeAwait(t)
    BY <2>4, <1>0 DEF TakeAwait, Goto
  <2>5. CASE TakeRefuse(t)
    BY <2>5, <1>0 DEF TakeRefuse, Goto
  <2>6. CASE Decrement(t)
    BY <2>6, <1>0 DEF Decrement, SignalTaker, SignalAndGoto, Goto
  <2>7. CASE TakeCompare(t)
    BY <2>7, <1>0 DEF TakeCompare, Goto
  <2>8. CASE SignalNotFull(t)
    BY <2>8, <1>0 DEF SignalNotFull, SignalPutter, SignalAndGoto, Goto
  <2>9. CASE PeekRead(t)
    BY <2>9, <1>0 DEF PeekRead, Goto
  <2>10. CASE Drain(t)
    BY <2>10, <1>0 DEF Drain, Goto
  <2>11. CASE DrainCount(t)
    BY <2>11, <1>0 DEF DrainCount, Goto
  <2>12. CASE DrainCompare(t)
    BY <2>12, <1>0 DEF DrainCompare, Goto
  <2>13. QED
    BY <1>3, <2>1, <2>2, <2>3, <2>4, <2>5, <2>6, <2>7, <2>8, <2>9, <2>10, <2>11, <2>12 DEF TakeStep
<1>4. CASE FullStep(t)
  <2>1. CASE FullPutLock(t)
    BY <2>1, <1>0 DEF FullPutLock, Goto
  <2>2. CASE FullTakeLock(t)
    BY <2>2, <1>0 DEF FullTakeLock, Goto
  <2>3. CASE RemoveItem(t)
    BY <2>3, <1>0 DEF RemoveItem, Goto
  <2>4. CASE FullRead(t)
    BY <2>4, <1>0 DEF FullRead, Goto
  <2>5. CASE Clear(t)
    BY <2>5, <1>0 DEF Clear, Goto
  <2>6. CASE FullCompare(t)
    BY <2>6, <1>0 DEF FullCompare, SignalPutter, SignalAndGoto, Goto
  <2>7. QED
    BY <1>4, <2>1, <2>2, <2>3, <2>4, <2>5, <2>6 DEF FullStep
<1>5. CASE Return(t) \/ Interrupt(t)
  BY <1>5 DEF Return, Interrupt, Leave, Goto
<1>6. CASE TimedWaitEnds(t)
  BY <1>0, <1>6 DEF TimedWaitEnds, Goto
<1>7. QED
  BY <1>1, <1>2, <1>3, <1>4, <1>5, <1>6 DEF Step

-----------------------------------------------------------------------------
(***************************************************************************)
(* The list and its count.                                                 *)
(***************************************************************************)

\* Where a thread has changed the list and not yet count.
Counting == {"increment", "decrement", "drainCount"}

\* A step that touches neither the list nor count.
LEMMA QuietStep ==
  ASSUME Inv, NEW t \in Threads, Others(t), items' = items, count' = count,
         pc[t] \notin Counting, pc'[t] \notin Counting,
         pc'[t] \in {"takeTest", "drain"} => n'[t] <= count
  PROVE  CountInv'
<1> USE DEF Counting, Others
<1>1. Entering' = Entering
  BY DEF Entering
<1>2. \A x \in Threads : Leaving(x)' = Leaving(x) /\ (Leaving(x) => hand'[x] = hand[x])
  BY DEF Leaving
<1>3. CountTracksItems'
  BY <1>1, <1>2 DEF Inv, CountInv, CountTracksItems
<1>4. \A x \in Threads : pc'[x] \in {"takeTest", "drain"} => n'[x] <= count'
  BY DEF Inv, CountInv
<1>5. QED
  BY <1>2, <1>3, <1>4 DEF Inv, CountInv

\* putLock's owner moves an element from its hand to the list, or counts it.
LEMMA ShiftStep ==
  ASSUME Inv, hand' = hand, NEW d \in Int, Len(items') = Len(items) + d,
         count' + Entering' = count + Entering + d,
         \A x \in Threads : pc'[x] \in {"decrement", "drainCount"}
                             <=> pc[x] \in {"decrement", "drainCount"}
  PROVE  CountTracksItems'
<1> USE DEF Leaving
<1>1. /\ Len(items) \in Int /\ count + Entering \in Int
      /\ \A x \in Threads : Len(hand[x]) \in Int
  BY DEF Inv, TypeOK, Entering
<1>2. CASE \A x \in Threads : ~Leaving(x)
  BY <1>1, <1>2 DEF Inv, CountInv, CountTracksItems
<1>3. CASE \E x \in Threads : Leaving(x)
  <2>1. PICK x \in Threads : Leaving(x) /\ Len(items) + Len(hand[x]) = count + Entering
    BY <1>3 DEF Inv, CountInv, CountTracksItems
  <2>2. Len(items') + Len(hand'[x]) = count' + Entering'
    <3>1. hand'[x] = hand[x] /\ Len(hand[x]) \in Int
      BY <1>1
    <3>2. Len(items) + Len(hand[x]) = count + Entering
      BY <2>1
    <3> HIDE DEF Leaving
    <3> DEFINE i == Len(items)
               h == Len(hand[x])
               k == count + Entering
    <3>3. i \in Int /\ h \in Int /\ k \in Int /\ i + h = k
      BY <1>1, <3>1, <3>2
    <3>4. Len(items') = i + d /\ Len(hand'[x]) = h /\ count' + Entering' = k + d
      BY <3>1
    <3> HIDE DEF i, h, k
    <3>5. (i + d) + h = k + d
      BY <3>3
    <3>6. QED
      BY <3>4, <3>5
  <2>3. QED
    BY <2>1, <2>2 DEF CountTracksItems
<1>4. QED
  BY <1>2, <1>3

\* takeLock's owner takes items off the list.
LEMMA UnlinkStep ==
  ASSUME Inv, NEW t \in Threads, Others(t),
         pc[t] \in {"takeTest", "drain"}, pc'[t] \in {"decrement", "drainCount"},
         count' = count, Len(items') + Len(hand'[t]) = Len(items),
         Len(hand'[t]) <= count
  PROVE  CountInv'
<1> USE DEF Others
<1>1. Entering' = Entering
  BY DEF Entering
<1>2. /\ \A x \in Threads : ~Leaving(x)
      /\ \A x \in Threads : Leaving(x)' => x = t
      /\ \A x \in Threads : pc'[x] \notin {"takeTest", "drain"}
  BY DEF Leaving, Inv, LockInv, TakeHeld
<1>3. Leaving(t)'
  BY DEF Leaving
<1>4. CountTracksItems'
  BY <1>1, <1>2, <1>3 DEF Inv, CountInv, CountTracksItems
<1>5. QED
  BY <1>2, <1>4 DEF CountInv

\* takeLock's owner subtracts what it took from count.
LEMMA CountOutStep ==
  ASSUME Inv, NEW t \in Threads, Others(t), Leaving(t),
         pc'[t] \in {"takeCompare", "drainCompare"},
         items' = items, count' = count - Len(hand[t])
  PROVE  CountInv'
<1> USE DEF Others
<1>1. Entering' = Entering
  BY DEF Entering, Leaving
<1>2. /\ \A x \in Threads : Leaving(x) => x = t
      /\ \A x \in Threads : ~Leaving(x)'
      /\ \A x \in Threads : pc'[x] \notin {"takeTest", "drain"}
  BY DEF Leaving, Inv, LockInv, TakeHeld
<1>3. Entering \in {0, 1} /\ Len(hand[t]) \in Nat /\ count \in Nat /\ Len(items) \in Nat
  BY DEF Entering, Inv, TypeOK
<1>4. Len(items) + Len(hand[t]) = count + Entering
  BY <1>2 DEF Inv, CountInv, CountTracksItems
<1>5. CountTracksItems'
  BY <1>1, <1>2, <1>3, <1>4 DEF CountTracksItems
<1>6. QED
  BY <1>2, <1>5 DEF CountInv

\* The owner of both locks updates the list and count together.
LEMMA FullUpdateStep ==
  ASSUME Inv, NEW t \in Threads, Others(t), pc[t] = "fullBody",
         pc'[t] = "fullCompare", count' = Len(items')
  PROVE  CountInv'
<1> USE DEF Others
<1>1. \A x \in Threads \ {t} : pc[x] \notin PutHeld \cup TakeHeld
  BY DEF Inv, LockInv, FullHeld
<1>2. \A x \in Threads : pc'[x] \notin Counting \cup {"takeTest", "drain"}
  BY <1>1 DEF Counting, PutHeld, TakeHeld
<1>3. Entering' = 0 /\ (\A x \in Threads : ~Leaving(x)')
  BY <1>2 DEF Entering, Leaving, Counting
<1>4. CountTracksItems'
  <2>1. Len(items') = count' + 0
    OBVIOUS
  <2>2. QED
    BY <1>3, <2>1 DEF CountTracksItems
<1>5. QED
  BY <1>2, <1>3, <1>4 DEF CountInv

LEMMA CountStep ==
  ASSUME Inv, NEW t \in Threads,
         Begin(t) \/ Step(t) \/ Interrupt(t) \/ TimedWaitEnds(t)
  PROVE  CountInv'
<1> USE DEF Inv, TypeOK
<1>0. Others(t)
  BY OthersFrame
<1>1. CASE Begin(t)
  <2>1. /\ items' = items /\ count' = count
        /\ pc[t] \notin Counting /\ pc'[t] \notin Counting \cup {"takeTest", "drain"}
    BY <1>1 DEF Begin, Goto, FirstLabel, Counting, shared
  <2>2. QED
    BY <2>1, <1>0, QuietStep
<1>2. CASE PutStep(t)
  <2>1. CASE OfferRead(t)
    <3>1. /\ items' = items /\ count' = count
          /\ pc[t] \notin Counting /\ pc'[t] \notin Counting \cup {"takeTest", "drain"}
      BY <2>1 DEF OfferRead, Goto, Counting, shared
    <3>2. QED
      BY <3>1, <1>0, QuietStep
  <2>2. CASE OfferTest(t)
    <3>1. /\ items' = items /\ count' = count
          /\ pc[t] \notin Counting /\ pc'[t] \notin Counting \cup {"takeTest", "drain"}
      BY <2>2 DEF OfferTest, Goto, Counting, shared
    <3>2. QED
      BY <3>1, <1>0, QuietStep
  <2>3. CASE PutLock(t)
    <3>1. /\ items' = items /\ count' = count
          /\ pc[t] \notin Counting /\ pc'[t] \notin Counting \cup {"takeTest", "drain"}
      BY <2>3 DEF PutLock, Goto, Counting, shared
    <3>2. QED
      BY <3>1, <1>0, QuietStep
  <2>4. CASE Enqueue(t)
    <3>1. /\ pc[t] = "putTest" /\ pc'[t] = "increment" /\ count' = count
          /\ items' = items \o hand[t] /\ hand' = hand /\ n' = n
      BY <2>4 DEF Enqueue, Goto, locals
    <3>2. Len(hand[t]) = 1
      BY <3>1 DEF LabelInv, LabelOK
    <3>3. Len(items') = Len(items) + 1
      <4>1. items \in Seq(Elems) /\ hand[t] \in Seq(Elems)
        OBVIOUS
      <4>2. Len(items \o hand[t]) = Len(items) + Len(hand[t])
        BY <4>1, ConcatProperties
      <4>3. QED
        BY <3>1, <3>2, <4>2
    <3>4. Entering = 0 /\ Entering' = 1
      BY <3>1, <1>0 DEF Entering, LockInv, PutHeld, Others
    <3>5. \A x \in Threads : pc'[x] \in {"decrement", "drainCount"}
                             <=> pc[x] \in {"decrement", "drainCount"}
      BY <3>1, <1>0 DEF Others
    <3>6. CountTracksItems'
      BY <3>1, <3>3, <3>4, <3>5, ShiftStep, 1 \in Int
    <3>7. \A x \in Threads : pc'[x] \in {"takeTest", "drain"} => n'[x] <= count'
      BY <3>1, <1>0 DEF CountInv, Others
    <3>8. QED
      BY <3>1, <3>5, <3>6, <3>7 DEF CountInv, Leaving
  <2>5. CASE PutAwait(t)
    <3>1. /\ items' = items /\ count' = count
          /\ pc[t] \notin Counting /\ pc'[t] \notin Counting \cup {"takeTest", "drain"}
      BY <2>5 DEF PutAwait, Goto, Counting, shared
    <3>2. QED
      BY <3>1, <1>0, QuietStep
  <2>6. CASE PutRefuse(t)
    <3>1. /\ items' = items /\ count' = count
          /\ pc[t] \notin Counting /\ pc'[t] \notin Counting \cup {"takeTest", "drain"}
      BY <2>6 DEF PutRefuse, Goto, Counting, shared
    <3>2. QED
      BY <3>1, <1>0, QuietStep
  <2>7. CASE Increment(t)
    <3>1. /\ pc[t] = "increment" /\ pc'[t] = "signalMore" /\ count' = count + 1
          /\ items' = items /\ hand' = hand /\ n' = n
      BY <2>7 DEF Increment, Goto
    <3>2. Entering = 1 /\ Entering' = 0
      BY <3>1, <1>0 DEF Entering, LockInv, PutHeld, Others
    <3>3. \A x \in Threads : pc'[x] \in {"decrement", "drainCount"}
                             <=> pc[x] \in {"decrement", "drainCount"}
      BY <3>1, <1>0 DEF Others
    <3>4. CountTracksItems'
      BY <3>1, <3>2, <3>3, ShiftStep, 0 \in Int
    <3>5. \A x \in Threads : pc'[x] \in {"takeTest", "drain"} => n'[x] <= count'
      <4>1. ASSUME NEW x \in Threads, pc'[x] \in {"takeTest", "drain"}
            PROVE  n[x] \in Int /\ n[x] <= count /\ n'[x] = n[x] /\ count \in Int
        <5>1. x # t
          BY <3>1, <4>1
        <5>2. pc[x] \in {"takeTest", "drain"} /\ n'[x] = n[x]
          BY <4>1, <5>1, <1>0 DEF Others
        <5>3. QED
          BY <5>2 DEF CountInv
      <4>2. QED
        BY <4>1, <3>1
    <3>6. \A x \in Threads : Leaving(x)' => Len(hand'[x]) <= count'
      BY <3>1, <3>3 DEF CountInv, Leaving
    <3>7. QED
      BY <3>4, <3>5, <3>6 DEF CountInv
  <2>8. CASE SignalMore(t)
    <3>1. /\ items' = items /\ count' = count
          /\ pc[t] \notin Counting /\ pc'[t] \notin Counting \cup {"takeTest", "drain"}
      BY <2>8 DEF SignalMore, SignalPutter, SignalAndGoto, Goto, Counting, shared
    <3>2. QED
      BY <3>1, <1>0, QuietStep
  <2>9. CASE SignalNotEmpty(t)
    <3>1. /\ items' = items /\ count' = count
          /\ pc[t] \notin Counting /\ pc'[t] \notin Counting \cup {"takeTest", "drain"}
      BY <2>9 DEF SignalNotEmpty, SignalTaker, SignalAndGoto, Goto, Counting, shared
    <3>2. QED
      BY <3>1, <1>0, QuietStep
  <2>10. QED
    BY <1>2, <2>1, <2>2, <2>3, <2>4, <2>5, <2>6, <2>7, <2>8, <2>9 DEF PutStep
<1>3. CASE TakeStep(t)
  <2>1. CASE PollTest(t)
    <3>1. /\ items' = items /\ count' = count
          /\ pc[t] \notin Counting /\ pc'[t] \notin Counting \cup {"takeTest", "drain"}
      BY <2>1 DEF PollTest, Goto, Counting, shared
    <3>2. QED
      BY <3>1, <1>0, QuietStep
  <2>2. CASE TakeLock(t)
    <3>1. /\ items' = items /\ count' = count
          /\ pc[t] \notin Counting /\ pc'[t] \notin Counting
          /\ pc'[t] \in {"takeTest", "drain"} => n'[t] <= count
      BY <2>2 DEF TakeLock, Goto, Counting
    <3>2. QED
      BY <3>1, <1>0, QuietStep
  <2>3. CASE Dequeue(t)
    <3>1. /\ pc[t] = "takeTest" /\ n[t] > 0 /\ pc'[t] = "decrement" /\ count' = count
          /\ hand'[t] = <<Head(items)>> /\ items' = Tail(items)
      BY <2>3 DEF Dequeue, Goto
    <3>2. items # <<>> /\ n[t] <= count
      BY <3>1, CountedLemma DEF CountInv
    <3>3. Len(items') = Len(items) - 1 /\ Len(hand'[t]) = 1
      BY <3>1, <3>2, HeadTailProperties
    <3>4. Len(items') + Len(hand'[t]) = Len(items) /\ Len(hand'[t]) <= count
      BY <3>1, <3>2, <3>3
    <3>5. QED
      BY <3>1, <3>4, <1>0, UnlinkStep
  <2>4. CASE TakeAwait(t)
    <3>1. /\ items' = items /\ count' = count
          /\ pc[t] \notin Counting /\ pc'[t] \notin Counting \cup {"takeTest", "drain"}
      BY <2>4 DEF TakeAwait, Goto, Counting, shared
    <3>2. QED
      BY <3>1, <1>0, QuietStep
  <2>5. CASE TakeRefuse(t)
    <3>1. /\ items' = items /\ count' = count
          /\ pc[t] \notin Counting /\ pc'[t] \notin Counting \cup {"takeTest", "drain"}
      BY <2>5 DEF TakeRefuse, Goto, Counting, shared
    <3>2. QED
      BY <3>1, <1>0, QuietStep
  <2>6. CASE Decrement(t)
    <3>1. /\ pc[t] = "decrement" /\ pc'[t] = "takeCompare" /\ count' = count - 1
          /\ items' = items
      BY <2>6 DEF Decrement, SignalTaker, SignalAndGoto, Goto
    <3>2. Len(hand[t]) = 1
      BY <3>1 DEF LabelInv, LabelOK
    <3>3. QED
      BY <3>1, <3>2, <1>0, CountOutStep DEF Leaving
  <2>7. CASE TakeCompare(t)
    <3>1. /\ items' = items /\ count' = count
          /\ pc[t] \notin Counting /\ pc'[t] \notin Counting \cup {"takeTest", "drain"}
      BY <2>7 DEF TakeCompare, Goto, Counting, shared
    <3>2. QED
      BY <3>1, <1>0, QuietStep
  <2>8. CASE SignalNotFull(t)
    <3>1. /\ items' = items /\ count' = count
          /\ pc[t] \notin Counting /\ pc'[t] \notin Counting \cup {"takeTest", "drain"}
      BY <2>8 DEF SignalNotFull, SignalPutter, SignalAndGoto, Goto, Counting, shared
    <3>2. QED
      BY <3>1, <1>0, QuietStep
  <2>9. CASE PeekRead(t)
    <3>1. /\ items' = items /\ count' = count
          /\ pc[t] \notin Counting /\ pc'[t] \notin Counting \cup {"takeTest", "drain"}
      BY <2>9 DEF PeekRead, Goto, Counting, shared
    <3>2. QED
      BY <3>1, <1>0, QuietStep
  <2>10. CASE Drain(t)
    <3>1. CASE Goto(t, "return")
      <4>1. /\ items' = items /\ count' = count
            /\ pc[t] \notin Counting /\ pc'[t] \notin Counting \cup {"takeTest", "drain"}
        BY <2>10, <3>1 DEF Drain, Goto, Counting
      <4>2. QED
        BY <4>1, <1>0, QuietStep
    <3>2. CASE ~Goto(t, "return")
      <4>1. PICK i \in 1..n[t] :
              /\ hand' = [hand EXCEPT ![t] = SubSeq(items, 1, i)]
              /\ items' = SubSeq(items, i + 1, Len(items))
              /\ Goto(t, "drainCount")
        BY <2>10, <3>2 DEF Drain
      <4>2. pc[t] = "drain" /\ pc'[t] = "drainCount" /\ count' = count
        BY <2>10, <4>1 DEF Drain, Goto
      <4>3. i \in 1..Len(items) /\ n[t] <= count
        BY <4>2, CountedLemma DEF CountInv
      <4>4. hand'[t] = SubSeq(items, 1, i)
        BY <4>1
      <4>5. Len(hand'[t]) = i /\ Len(items') = Len(items) - i
        BY <4>1, <4>3, <4>4, SubSeqProperties
      <4>6. Len(items') + Len(hand'[t]) = Len(items) /\ Len(hand'[t]) <= count
        BY <4>3, <4>5
      <4>7. QED
        BY <4>2, <4>6, <1>0, UnlinkStep
    <3>3. QED
      BY <3>1, <3>2
  <2>11. CASE DrainCount(t)
    <3>1. /\ pc[t] = "drainCount" /\ pc'[t] = "drainCompare" /\ items' = items
          /\ count' = count - Len(hand[t])
      BY <2>11 DEF DrainCount, Goto
    <3>2. QED
      BY <3>1, <1>0, CountOutStep DEF Leaving
  <2>12. CASE DrainCompare(t)
    <3>1. /\ items' = items /\ count' = count
          /\ pc[t] \notin Counting /\ pc'[t] \notin Counting \cup {"takeTest", "drain"}
      BY <2>12 DEF DrainCompare, Goto, Counting, shared
    <3>2. QED
      BY <3>1, <1>0, QuietStep
  <2>13. QED
    BY <1>3, <2>1, <2>2, <2>3, <2>4, <2>5, <2>6, <2>7, <2>8, <2>9, <2>10, <2>11, <2>12 DEF TakeStep
<1>4. CASE FullStep(t)
  <2>1. CASE FullPutLock(t)
    <3>1. /\ items' = items /\ count' = count
          /\ pc[t] \notin Counting /\ pc'[t] \notin Counting \cup {"takeTest", "drain"}
      BY <2>1 DEF FullPutLock, Goto, Counting, shared
    <3>2. QED
      BY <3>1, <1>0, QuietStep
  <2>2. CASE FullTakeLock(t)
    <3>1. /\ items' = items /\ count' = count
          /\ pc[t] \notin Counting /\ pc'[t] \notin Counting \cup {"takeTest", "drain"}
      BY <2>2 DEF FullTakeLock, Goto, Counting, shared
    <3>2. QED
      BY <3>1, <1>0, QuietStep
  <2>3. CASE RemoveItem(t)
    <3>1. /\ pc[t] = "fullBody" /\ pc'[t] = "fullCompare" /\ count' = count - 1
      BY <2>3 DEF RemoveItem, Goto
    <3>2. PICK i \in DOMAIN items : items' = RemoveAt(items, i)
      BY <2>3 DEF RemoveItem
    <3>3. Len(items') = Len(items) - 1
      BY <3>2, RemoveAtProperties
    <3>4. count' = Len(items')
      BY <3>1, <3>3, SnapshotLemma
    <3>5. QED
      BY <3>1, <3>4, <1>0, FullUpdateStep
  <2>4. CASE FullRead(t)
    <3>1. /\ items' = items /\ count' = count
          /\ pc[t] \notin Counting /\ pc'[t] \notin Counting \cup {"takeTest", "drain"}
      BY <2>4 DEF FullRead, Goto, Counting, shared
    <3>2. QED
      BY <3>1, <1>0, QuietStep
  <2>5. CASE Clear(t)
    <3>1. /\ pc[t] = "fullBody" /\ pc'[t] = "fullCompare" /\ count' = Len(items')
      BY <2>5 DEF Clear, Goto
    <3>2. QED
      BY <3>1, <1>0, FullUpdateStep
  <2>6. CASE FullCompare(t)
    <3>1. /\ items' = items /\ count' = count
          /\ pc[t] \notin Counting /\ pc'[t] \notin Counting \cup {"takeTest", "drain"}
      BY <2>6 DEF FullCompare, SignalPutter, SignalAndGoto, Goto, Counting, shared
    <3>2. QED
      BY <3>1, <1>0, QuietStep
  <2>7. QED
    BY <1>4, <2>1, <2>2, <2>3, <2>4, <2>5, <2>6 DEF FullStep
<1>5. CASE Return(t) \/ Interrupt(t)
  <2>1. /\ items' = items /\ count' = count
        /\ pc[t] \notin Counting /\ pc'[t] \notin Counting \cup {"takeTest", "drain"}
    BY <1>5 DEF Return, Interrupt, Interruptible, Leave, Goto, Counting, shared
  <2>2. QED
    BY <2>1, <1>0, QuietStep
<1>6. CASE TimedWaitEnds(t)
  <2>1. /\ items' = items /\ count' = count
        /\ pc[t] \notin Counting /\ pc'[t] \notin Counting \cup {"takeTest", "drain"}
    BY <1>6 DEF TimedWaitEnds, Goto, Counting, shared
  <2>2. QED
    BY <2>1, <1>0, QuietStep
<1>7. QED
  BY <1>1, <1>2, <1>3, <1>4, <1>5, <1>6 DEF Step

-----------------------------------------------------------------------------
(***************************************************************************)
(* The invariant holds, and what follows from it alone.                    *)
(***************************************************************************)

\* A step that changes no more than the capacity.
LEMMA StutterStep ==
  ASSUME Inv, UNCHANGED <<items, count, putLock, takeLock, pc, locals>>,
         capacity' \in Capacities
  PROVE  Inv'
<1> USE DEF locals
<1>1. TypeOK'
  BY DEF Inv, TypeOK
<1>2. LockInv'
  BY DEF Inv, LockInv
<1>3. LabelInv'
  BY DEF Inv, LabelInv, LabelOK
<1>4. CountInv'
  BY DEF Inv, CountInv, CountTracksItems, Leaving, Entering
<1>5. QED
  BY <1>1, <1>2, <1>3, <1>4 DEF Inv

LEMMA InvStep ==
  ASSUME Inv, [Next]_vars
  PROVE  Inv'
<1>1. CASE UNCHANGED vars
  BY <1>1, StutterStep DEF vars, shared, Inv, TypeOK
<1>2. CASE SetCapacity
  BY <1>2, StutterStep DEF SetCapacity
<1>3. ASSUME NEW t \in Threads,
             Begin(t) \/ Step(t) \/ Interrupt(t) \/ TimedWaitEnds(t)
      PROVE  Inv'
  <2>1. Next
    BY <1>3 DEF Next
  <2>2. QED
    BY <1>3, <2>1, TypeStep, LockStep, LabelStep, CountStep DEF Inv
<1>4. QED
  BY <1>1, <1>2, <1>3 DEF Next

THEOREM Invariance == Spec => []Inv
<1>1. Init => Inv
  BY InitInv
<1>2. Inv /\ [Next]_vars => Inv'
  BY InvStep
<1>3. QED
  BY <1>1, <1>2, PTL DEF Spec

\* Every variable keeps its type; in particular count never drops below 0.
THEOREM TypeCorrectness == Spec => []TypeOK
<1>1. Inv => TypeOK
  BY DEF Inv
<1>2. QED
  BY <1>1, Invariance, PTL

\* The critical sections of putLock and of takeLock have one owner each.
THEOREM MutualExclusion == Spec => []LockInv
<1>1. Inv => LockInv
  BY DEF Inv
<1>2. QED
  BY <1>1, Invariance, PTL

\* The counter and the list differ by the operations in progress, no more.
THEOREM CountIsExact == Spec => []CountTracksItems
<1>1. Inv => CountTracksItems
  BY DEF Inv, CountInv
<1>2. QED
  BY <1>1, Invariance, PTL

\* A thread that saw n items under takeLock finds n items: dequeue and drainTo
\* never run off the end of the list, whoever inserts meanwhile and however
\* the capacity moves.
THEOREM CountedItemsStay == Spec => []CountedItemsPresent
<1>1. Inv => CountedItemsPresent
  BY CountedLemma DEF CountedItemsPresent
<1>2. QED
  BY <1>1, Invariance, PTL

\* Under both locks the counter is the length of the list.
THEOREM SnapshotsAreExact == Spec => []SnapshotConsistent
<1>1. Inv => SnapshotConsistent
  BY SnapshotLemma DEF SnapshotConsistent
<1>2. QED
  BY <1>1, Invariance, PTL

\* The two locks never deadlock.
THEOREM LocksDoNotDeadlock == Spec => []SomeoneCanRun
<1>1. ASSUME Inv, NEW t \in Threads, Running(t)
      PROVE  \E u \in Threads : Running(u) /\ ~Blocked(u)
  <2> USE <1>1 DEF Inv, TypeOK, LockInv, Running, Blocked
  <2>1. CASE takeLock # NoThread
    <3>1. takeLock \in Threads /\ pc[takeLock] \in TakeHeld \cup FullHeld
      BY <2>1
    <3>2. Running(takeLock) /\ ~Blocked(takeLock)
      BY <3>1 DEF TakeHeld, FullHeld
    <3>3. QED
      BY <3>1, <3>2
  <2>2. CASE takeLock = NoThread /\ putLock # NoThread
    <3>1. putLock \in Threads /\ pc[putLock] \in PutHeld \cup FullHeld \cup {"fullTakeLock"}
      BY <2>2
    <3>2. Running(putLock) /\ ~Blocked(putLock)
      BY <2>2, <3>1 DEF PutHeld, FullHeld
    <3>3. QED
      BY <3>1, <3>2
  <2>3. CASE takeLock = NoThread /\ putLock = NoThread
    BY <2>3
  <2>4. QED
    BY <2>1, <2>2, <2>3
<1>2. Inv => SomeoneCanRun
  BY <1>1 DEF SomeoneCanRun
<1>3. QED
  BY <1>2, Invariance, PTL

-----------------------------------------------------------------------------
(***************************************************************************)
(* No lost wake-up on notEmpty.  NoStrandedTaker is inductive relative to  *)
(* Inv: the duty to wake a taker passes from the insertion that found the  *)
(* queue empty to the taker it wakes, and from each taker to the next.     *)
(***************************************************************************)

\* A thread without the duty takes a step that makes nobody else stall.
LEMMA TakerQuiet ==
  ASSUME Inv, NoStrandedTaker, NEW t \in Threads, Others(t), ~TakeDuty(t),
         TakerStalls(t)' => TakerStalls(t), count' > 0 => count > 0
  PROVE  NoStrandedTaker'
<1> SUFFICES ASSUME count' > 0, NEW s \in Threads, TakerStalls(s)'
             PROVE  \E u \in Threads : TakeDuty(u)'
  BY DEF NoStrandedTaker
<1>1. TakerStalls(s)
  BY DEF TakerStalls, Others
<1>2. PICK u \in Threads : TakeDuty(u)
  BY <1>1 DEF NoStrandedTaker
<1>3. TakeDuty(u)'
  BY <1>2 DEF TakeDuty, Others
<1>4. QED
  BY <1>3

\* A signal reaches a waiting taker if there is one.
LEMMA SignalledTaker ==
  ASSUME Inv, NEW t \in Threads, NEW label, SignalTaker(t, label),
         pc[t] # "takeWait", Others(t), label # "takeWait",
         \A x \in Threads : pc'[x] # "takeTest"
  PROVE  NoStrandedTaker'
<1>1. CASE \E w \in Threads : pc[w] = "takeWait"
  <2>1. PICK w \in Threads : pc[w] = "takeWait" /\ pc' = [pc EXCEPT ![w] = "takeRelock", ![t] = label]
    BY <1>1 DEF SignalTaker, SignalAndGoto
  <2>2. pc'[w] = "takeRelock"
    BY <2>1 DEF Inv, TypeOK
  <2>3. QED
    BY <2>2 DEF NoStrandedTaker, TakeDuty
<1>2. CASE \A w \in Threads : pc[w] # "takeWait"
  <2>1. \A w \in Threads : pc'[w] # "takeWait"
    BY <1>2 DEF SignalTaker, SignalAndGoto, Goto, Inv, TypeOK
  <2>2. QED
    BY <2>1 DEF NoStrandedTaker, TakerStalls
<1>3. QED
  BY <1>1, <1>2

LEMMA TakerStep ==
  ASSUME Inv, NoStrandedTaker, NEW t \in Threads,
         Begin(t) \/ Step(t) \/ Interrupt(t) \/ TimedWaitEnds(t)
  PROVE  NoStrandedTaker'
<1> USE DEF Inv, TypeOK
<1>0. Others(t)
  BY OthersFrame
<1>1. CASE Begin(t)
  <2>1. ~TakeDuty(t) /\ ~TakerStalls(t)' /\ count' = count
    BY <1>1 DEF Begin, Goto, FirstLabel, TakeDuty, TakerStalls, shared
  <2>2. QED
    BY <2>1, <1>0, TakerQuiet
<1>2. CASE PutStep(t)
  <2>1. CASE OfferRead(t)
    <3>1. /\ ~TakeDuty(t) /\ ~TakerStalls(t)'
          /\ count' > 0 => count > 0
      BY <2>1 DEF OfferRead, Goto, TakeDuty, TakerStalls, shared
    <3>2. QED
      BY <3>1, <1>0, TakerQuiet
  <2>2. CASE OfferTest(t)
    <3>1. /\ ~TakeDuty(t) /\ ~TakerStalls(t)'
          /\ count' > 0 => count > 0
      BY <2>2 DEF OfferTest, Goto, TakeDuty, TakerStalls, shared
    <3>2. QED
      BY <3>1, <1>0, TakerQuiet
  <2>3. CASE PutLock(t)
    <3>1. /\ ~TakeDuty(t) /\ ~TakerStalls(t)'
          /\ count' > 0 => count > 0
      BY <2>3 DEF PutLock, Goto, TakeDuty, TakerStalls, shared
    <3>2. QED
      BY <3>1, <1>0, TakerQuiet
  <2>4. CASE Enqueue(t)
    <3>1. /\ ~TakeDuty(t) /\ ~TakerStalls(t)'
          /\ count' > 0 => count > 0
      BY <2>4 DEF Enqueue, Goto, TakeDuty, TakerStalls, shared
    <3>2. QED
      BY <3>1, <1>0, TakerQuiet
  <2>5. CASE PutAwait(t)
    <3>1. /\ ~TakeDuty(t) /\ ~TakerStalls(t)'
          /\ count' > 0 => count > 0
      BY <2>5 DEF PutAwait, Goto, TakeDuty, TakerStalls, shared
    <3>2. QED
      BY <3>1, <1>0, TakerQuiet
  <2>6. CASE PutRefuse(t)
    <3>1. /\ ~TakeDuty(t) /\ ~TakerStalls(t)'
          /\ count' > 0 => count > 0
      BY <2>6 DEF PutRefuse, Goto, TakeDuty, TakerStalls, shared
    <3>2. QED
      BY <3>1, <1>0, TakerQuiet
  <2>7. CASE Increment(t)
    <3>1. /\ pc[t] = "increment" /\ pc'[t] = "signalMore" /\ c'[t] = count
          /\ count' = count + 1
      BY <2>7 DEF Increment, Goto
    <3>2. CASE count = 0
      BY <3>1, <3>2 DEF NoStrandedTaker, TakeDuty
    <3>3. CASE count > 0
      <4>1. ~TakeDuty(t) /\ ~TakerStalls(t)'
        BY <3>1 DEF TakeDuty, TakerStalls
      <4>2. QED
        BY <3>3, <4>1, <1>0, TakerQuiet
    <3>4. QED
      BY <3>2, <3>3
  <2>8. CASE SignalMore(t)
    <3>1. CASE c[t] = 0
      <4>1. TakeDuty(t)'
        BY <2>8, <3>1 DEF SignalMore, SignalPutter, SignalAndGoto, Goto, TakeDuty, WasEmpty
      <4>2. QED
        BY <4>1 DEF NoStrandedTaker
    <3>2. CASE c[t] # 0
      <4>1. ~TakeDuty(t) /\ ~TakerStalls(t)' /\ count' = count
        BY <2>8, <3>2 DEF SignalMore, SignalPutter, SignalAndGoto, Goto, TakeDuty, TakerStalls, WasEmpty
      <4>2. QED
        BY <4>1, <1>0, TakerQuiet
    <3>3. QED
      BY <3>1, <3>2
  <2>9. CASE SignalNotEmpty(t)
    <3>1. /\ takeLock = NoThread /\ pc[t] = "signalNotEmpty" /\ pc'[t] = "return"
          /\ SignalTaker(t, "return")
      BY <2>9 DEF SignalNotEmpty, SignalTaker, SignalAndGoto, Goto
    <3>2. \A x \in Threads : pc'[x] # "takeTest"
      BY <3>1, <1>0, ThreadsAssumption DEF LockInv, TakeHeld, Others
    <3>3. QED
      BY <3>1, <3>2, <1>0, SignalledTaker
  <2>10. QED
    BY <1>2, <2>1, <2>2, <2>3, <2>4, <2>5, <2>6, <2>7, <2>8, <2>9 DEF PutStep
<1>3. CASE TakeStep(t)
  <2>1. CASE PollTest(t)
    <3>1. /\ ~TakeDuty(t) /\ ~TakerStalls(t)'
          /\ count' > 0 => count > 0
      BY <2>1 DEF PollTest, Goto, TakeDuty, TakerStalls, shared
    <3>2. QED
      BY <3>1, <1>0, TakerQuiet
  <2>2. CASE TakeLock(t)
    <3>1. CASE pc[t] = "takeRelock" /\ count > 0
      <4>1. op[t] \in {"take", "pollTimed", "poll"}
        BY <3>1 DEF LabelInv, LabelOK, TakeOps
      <4>2. n'[t] = count /\ n'[t] # 0
        BY <2>2, <3>1, <4>1 DEF TakeLock
      <4>3. pc'[t] = "takeTest"
        BY <2>2, <4>1 DEF TakeLock, Goto
      <4>4. QED
        BY <4>2, <4>3 DEF NoStrandedTaker, TakeDuty
    <3>2. CASE count = 0
      BY <2>2, <3>2 DEF TakeLock, NoStrandedTaker
    <3>3. CASE pc[t] = "takeLock" /\ count > 0
      <4>1. ~TakeDuty(t) /\ ~TakerStalls(t)' /\ count' = count
        BY <2>2, <3>3 DEF TakeLock, Goto, TakeDuty, TakerStalls
      <4>2. QED
        BY <4>1, <1>0, TakerQuiet
    <3>4. QED
      BY <2>2, <3>1, <3>2, <3>3 DEF TakeLock
  <2>3. CASE Dequeue(t)
    <3>1. TakeDuty(t)'
      BY <2>3 DEF Dequeue, Goto, TakeDuty, shared
    <3>2. QED
      BY <3>1 DEF NoStrandedTaker
  <2>4. CASE TakeAwait(t)
    <3>1. ~TakeDuty(t) /\ TakerStalls(t) /\ count' = count
      BY <2>4 DEF TakeAwait, TakeDuty, TakerStalls
    <3>2. QED
      BY <3>1, <1>0, TakerQuiet
  <2>5. CASE TakeRefuse(t)
    <3>1. /\ ~TakeDuty(t) /\ ~TakerStalls(t)'
          /\ count' > 0 => count > 0
      BY <2>5 DEF TakeRefuse, Goto, TakeDuty, TakerStalls, shared
    <3>2. QED
      BY <3>1, <1>0, TakerQuiet
  <2>6. CASE Decrement(t)
    <3>1. /\ pc[t] = "decrement" /\ pc'[t] = "takeCompare" /\ count' = count - 1
          /\ count > 1 => SignalTaker(t, "takeCompare")
      BY <2>6 DEF Decrement, SignalTaker, SignalAndGoto, Goto, ItemsLeft
    <3>2. \A x \in Threads : pc'[x] # "takeTest"
      BY <3>1, <1>0 DEF LockInv, TakeHeld, Others
    <3>3. CASE count > 1
      BY <3>1, <3>2, <3>3, <1>0, SignalledTaker
    <3>4. CASE ~(count > 1)
      BY <3>1, <3>4 DEF NoStrandedTaker
    <3>5. QED
      BY <3>3, <3>4
  <2>7. CASE TakeCompare(t)
    <3>1. /\ ~TakeDuty(t) /\ ~TakerStalls(t)'
          /\ count' > 0 => count > 0
      BY <2>7 DEF TakeCompare, Goto, TakeDuty, TakerStalls, shared
    <3>2. QED
      BY <3>1, <1>0, TakerQuiet
  <2>8. CASE SignalNotFull(t)
    <3>1. /\ ~TakeDuty(t) /\ ~TakerStalls(t)'
          /\ count' > 0 => count > 0
      BY <2>8 DEF SignalNotFull, SignalPutter, SignalAndGoto, Goto, TakeDuty, TakerStalls, shared
    <3>2. QED
      BY <3>1, <1>0, TakerQuiet
  <2>9. CASE PeekRead(t)
    <3>1. /\ ~TakeDuty(t) /\ ~TakerStalls(t)'
          /\ count' > 0 => count > 0
      BY <2>9 DEF PeekRead, Goto, TakeDuty, TakerStalls, shared
    <3>2. QED
      BY <3>1, <1>0, TakerQuiet
  <2>10. CASE Drain(t)
    <3>1. /\ ~TakeDuty(t) /\ ~TakerStalls(t)'
          /\ count' > 0 => count > 0
      BY <2>10 DEF Drain, Goto, TakeDuty, TakerStalls, shared
    <3>2. QED
      BY <3>1, <1>0, TakerQuiet
  <2>11. CASE DrainCount(t)
    <3>1. ~TakeDuty(t) /\ ~TakerStalls(t)' /\ count' = count - Len(hand[t])
      BY <2>11 DEF DrainCount, Goto, TakeDuty, TakerStalls
    <3>2. count' > 0 => count > 0
      BY <3>1
    <3>3. QED
      BY <3>1, <3>2, <1>0, TakerQuiet
  <2>12. CASE DrainCompare(t)
    <3>1. /\ ~TakeDuty(t) /\ ~TakerStalls(t)'
          /\ count' > 0 => count > 0
      BY <2>12 DEF DrainCompare, Goto, TakeDuty, TakerStalls, shared
    <3>2. QED
      BY <3>1, <1>0, TakerQuiet
  <2>13. QED
    BY <1>3, <2>1, <2>2, <2>3, <2>4, <2>5, <2>6, <2>7, <2>8, <2>9, <2>10, <2>11, <2>12 DEF TakeStep
<1>4. CASE FullStep(t)
  <2>1. CASE FullPutLock(t)
    <3>1. /\ ~TakeDuty(t) /\ ~TakerStalls(t)'
          /\ count' > 0 => count > 0
      BY <2>1 DEF FullPutLock, Goto, TakeDuty, TakerStalls, shared
    <3>2. QED
      BY <3>1, <1>0, TakerQuiet
  <2>2. CASE FullTakeLock(t)
    <3>1. /\ ~TakeDuty(t) /\ ~TakerStalls(t)'
          /\ count' > 0 => count > 0
      BY <2>2 DEF FullTakeLock, Goto, TakeDuty, TakerStalls, shared
    <3>2. QED
      BY <3>1, <1>0, TakerQuiet
  <2>3. CASE RemoveItem(t)
    <3>1. /\ ~TakeDuty(t) /\ ~TakerStalls(t)'
          /\ count' > 0 => count > 0
      BY <2>3 DEF RemoveItem, Goto, TakeDuty, TakerStalls, shared
    <3>2. QED
      BY <3>1, <1>0, TakerQuiet
  <2>4. CASE FullRead(t)
    <3>1. /\ ~TakeDuty(t) /\ ~TakerStalls(t)'
          /\ count' > 0 => count > 0
      BY <2>4 DEF FullRead, Goto, TakeDuty, TakerStalls, shared
    <3>2. QED
      BY <3>1, <1>0, TakerQuiet
  <2>5. CASE Clear(t)
    <3>1. /\ ~TakeDuty(t) /\ ~TakerStalls(t)'
          /\ count' > 0 => count > 0
      BY <2>5 DEF Clear, Goto, TakeDuty, TakerStalls, shared
    <3>2. QED
      BY <3>1, <1>0, TakerQuiet
  <2>6. CASE FullCompare(t)
    <3>1. /\ ~TakeDuty(t) /\ ~TakerStalls(t)'
          /\ count' > 0 => count > 0
      BY <2>6 DEF FullCompare, SignalPutter, SignalAndGoto, Goto, TakeDuty, TakerStalls, shared
    <3>2. QED
      BY <3>1, <1>0, TakerQuiet
  <2>7. QED
    BY <1>4, <2>1, <2>2, <2>3, <2>4, <2>5, <2>6 DEF FullStep
<1>5. CASE Return(t) \/ Interrupt(t)
  <2>1. ~TakeDuty(t) /\ ~TakerStalls(t)' /\ count' = count
    BY <1>5 DEF Return, Interrupt, Interruptible, Leave, Goto, TakeDuty, TakerStalls, shared
  <2>2. QED
    BY <2>1, <1>0, TakerQuiet
<1>6. CASE TimedWaitEnds(t)
  <2>1. CASE pc[t] = "takeWait"
    <3>1. TakeDuty(t)'
      BY <1>6, <2>1 DEF TimedWaitEnds, Goto, TakeDuty
    <3>2. QED
      BY <3>1 DEF NoStrandedTaker
  <2>2. CASE pc[t] = "putWait"
    <3>1. ~TakeDuty(t) /\ ~TakerStalls(t)' /\ count' = count
      BY <1>6, <2>2 DEF TimedWaitEnds, Goto, TakeDuty, TakerStalls, shared
    <3>2. QED
      BY <3>1, <1>0, TakerQuiet
  <2>3. QED
    BY <1>6, <2>1, <2>2 DEF TimedWaitEnds
<1>7. QED
  BY <1>1, <1>2, <1>3, <1>4, <1>5, <1>6 DEF Step

\* No wake-up of a taker is ever lost: not by interleaving insertions,
\* removals, timeouts or interrupts, and not by resizing.
THEOREM TakersAreNotStranded == Spec => []NoStrandedTaker
<1>1. Init => NoStrandedTaker
  BY DEF Init, NoStrandedTaker
<1>2. Inv /\ NoStrandedTaker /\ [Next]_vars => NoStrandedTaker'
  <2>1. ASSUME Inv, NoStrandedTaker, UNCHANGED vars \/ SetCapacity PROVE NoStrandedTaker'
    BY <2>1 DEF vars, shared, locals, SetCapacity, NoStrandedTaker, TakerStalls, TakeDuty
  <2>2. QED
    BY <2>1, TakerStep DEF Next
<1>3. QED
  BY <1>1, <1>2, Invariance, PTL DEF Spec
=============================================================================
