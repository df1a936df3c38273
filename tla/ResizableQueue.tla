--------------------------- MODULE ResizableQueue ---------------------------
(***************************************************************************)
(* ResizableCapacityLinkedBlockingQueue: the two-lock blocking queue that  *)
(* backs every dynamic thread pool, with a capacity that setCapacity       *)
(* changes under no lock.                                                  *)
(*                                                                         *)
(* A step is a maximal run of statements with at most one access to a      *)
(* variable that the locks held do not protect: a read of count or of      *)
(* capacity, an update of count, the acquisition of a lock.  Acquiring a   *)
(* lock is grouped with what follows it, releasing one with what precedes. *)
(* pc[t] says where thread t is in the one call it is executing.  The      *)
(* linked list is the sequence items (head.next first).  The wait set of a *)
(* Condition is the set of threads at its wait label; signal() moves an    *)
(* arbitrary one of them (AQS moves the longest waiting one) to the        *)
(* queue for the lock.                                                     *)
(***************************************************************************)
EXTENDS Integers, SequencesExt

CONSTANTS Threads,     \* threads that call the queue
          Elems,       \* the elements they insert and remove
          Capacities,  \* the values given to the constructor and setCapacity
          Ops,         \* the operations the threads call
          MaxItems,    \* bound: no insertion starts with this many items queued
          NoThread     \* a lock's owner when it is free

InsertOps == {"put", "offerTimed", "offer"}
TakeOps   == {"take", "pollTimed", "poll"}
TimedOps  == {"offerTimed", "pollTimed"}
FullOps   == {"remove", "clear", "toArray"}
AllOps    == InsertOps \cup TakeOps \cup FullOps \cup {"peek", "drainTo"}

ASSUME CapacitiesAssumption ==
  Capacities \subseteq Int /\ \E k \in Capacities : k > 0

ASSUME OpsAssumption == Ops \subseteq AllOps

ASSUME ThreadsAssumption == NoThread \notin Threads

VARIABLES
  items,     \* the nodes from head.next to last, in order
  count,     \* the AtomicInteger count
  capacity,  \* the volatile field capacity
  putLock,   \* owner of putLock, or NoThread
  takeLock,  \* owner of takeLock, or NoThread
  pc,        \* where each thread is
  op,        \* the operation each thread is executing
  hand,      \* elements a thread is to insert or remove, or has taken out
  c,         \* local c: count before this call's update, negative if none
  n,         \* the value of count last read by a guard
  expired    \* threads in a timed call whose nanos has dropped to 0 or below

shared == <<items, count, capacity, putLock, takeLock>>
locals == <<op, hand, c, n, expired>>
vars   == <<shared, pc, locals>>

PutHeld  == {"putTest", "increment", "signalMore"}
FullHeld == {"fullBody", "fullCompare"}
TakeHeld == {"takeTest", "decrement", "peekRead", "drain", "drainCount",
             "drainCompare"}
Labels == PutHeld \cup TakeHeld \cup FullHeld \cup
  {"idle", "offerRead", "offerTest", "pollTest", "putLock", "putWait",
   "putRelock", "signalNotEmpty", "takeLock", "takeWait", "takeRelock",
   "takeCompare", "signalNotFull", "fullPutLock", "fullTakeLock", "return"}

FirstLabel(o) ==
  CASE o = "offer"               -> "offerRead"
    [] o \in {"poll", "peek"}    -> "pollTest"
    [] o \in {"put", "offerTimed"} -> "putLock"
    [] o \in {"take", "pollTimed", "drainTo"} -> "takeLock"
    [] OTHER                     -> "fullPutLock"

(***************************************************************************)
(* The guards on which the algorithm turns, named after what they decide.  *)
(***************************************************************************)

\* Mutated forms of a definition, each with one plausible mistake, precede it:
\* a property that matters tells them from the original.

\* Mutants: the comparison is off by one; offer uses the guard of put.
MayInsertAtCapacity(o, size, cap) == IF o = "offer" THEN size <= cap ELSE size # cap
MayInsertUnlessEqual(o, size, cap) == size # cap

\* offer inserts below the capacity; put and the timed offer whenever the
\* count they read differs from it.
MayInsert(o, size, cap) == IF o = "offer" THEN size < cap ELSE size # cap

\* Mutant: off by one.
RoomForTwo(before, cap) == before + 2 < cap

\* After an insertion that found `before` items there is still room.
RoomLeft(before, cap) == before + 1 < cap

\* Mutant: the count after the insertion is taken for the one before.
WasOne(before) == before = 1

\* The insertion that found the queue empty wakes a taker.
WasEmpty(before) == before = 0

\* Mutant: off by one.
TwoItemsLeft(before) == before > 2

\* A removal that found `before` items leaves some for the next taker.
ItemsLeft(before) == before > 1

\* Mutant: a strict comparison.
WasOverfull(before, cap) == before > cap

\* The removal that found the queue full wakes a putter.
WasFull(before, cap) == before = cap

\* The labels at which a waiting thread can be interrupted.
Interruptible(t) ==
  \/ pc[t] \in {"putWait", "takeWait"}
  \/ pc[t] = "putLock" /\ op[t] \in {"put", "offerTimed"}
  \/ pc[t] = "takeLock" /\ op[t] \in {"take", "pollTimed"}

-----------------------------------------------------------------------------

Init ==
  /\ items = <<>>
  /\ count = 0
  /\ capacity \in {k \in Capacities : k > 0}
  /\ putLock = NoThread
  /\ takeLock = NoThread
  /\ pc = [t \in Threads |-> "idle"]
  /\ op = [t \in Threads |-> "none"]
  /\ hand = [t \in Threads |-> <<>>]
  /\ c = [t \in Threads |-> -1]
  /\ n = [t \in Threads |-> 0]
  /\ expired = {}

Goto(t, label) == pc' = [pc EXCEPT ![t] = label]

\* Condition.signal() by t, which then goes to label: one waiter, if there is
\* one, moves on to reacquire the lock.
SignalAndGoto(t, waiting, relock, label) ==
  \/ \E u \in Threads :
       /\ pc[u] = waiting
       /\ pc' = [pc EXCEPT ![u] = relock, ![t] = label]
  \/ /\ \A u \in Threads : pc[u] # waiting
     /\ Goto(t, label)

SignalPutter(t, label) == SignalAndGoto(t, "putWait", "putRelock", label)
SignalTaker(t, label)  == SignalAndGoto(t, "takeWait", "takeRelock", label)

\* The call is over: its local variables are gone.
Leave(t) ==
  /\ Goto(t, "idle")
  /\ op' = [op EXCEPT ![t] = "none"]
  /\ hand' = [hand EXCEPT ![t] = <<>>]
  /\ c' = [c EXCEPT ![t] = -1]
  /\ n' = [n EXCEPT ![t] = 0]
  /\ expired' = expired \ {t}

\* A thread calls an operation; a timed call may start with nanos <= 0.
Begin(t) ==
  /\ pc[t] = "idle"
  /\ \E o \in Ops :
       /\ o \in InsertOps => Len(items) < MaxItems
       /\ op' = [op EXCEPT ![t] = o]
       /\ Goto(t, FirstLabel(o))
       /\ IF o \in InsertOps \cup {"remove"}
          THEN \E e \in Elems : hand' = [hand EXCEPT ![t] = <<e>>]
          ELSE UNCHANGED hand
       /\ \/ UNCHANGED expired
          \/ o \in TimedOps /\ expired' = expired \cup {t}
  /\ UNCHANGED <<shared, c, n>>

Return(t) ==
  /\ pc[t] = "return"
  /\ Leave(t)
  /\ UNCHANGED shared

-----------------------------------------------------------------------------
(***************************************************************************)
(* put, offer(e, timeout, unit) and offer.                                 *)
(***************************************************************************)

\* offer reads count, then capacity, before it takes the lock ...
OfferRead(t) ==
  /\ pc[t] = "offerRead"
  /\ n' = [n EXCEPT ![t] = count]
  /\ Goto(t, "offerTest")
  /\ UNCHANGED <<shared, op, hand, c, expired>>

\* ... and gives up at once if they are equal.
OfferTest(t) ==
  /\ pc[t] = "offerTest"
  /\ Goto(t, IF n[t] = capacity THEN "return" ELSE "putLock")
  /\ UNCHANGED <<shared, locals>>

\* Acquire putLock, for the first time or on the way out of await, and read
\* count for the guard.  awaitNanos may return a spent timeout.
PutLock(t) ==
  /\ pc[t] \in {"putLock", "putRelock"}
  /\ putLock = NoThread
  /\ putLock' = t
  /\ n' = [n EXCEPT ![t] = count]
  /\ Goto(t, "putTest")
  /\ \/ UNCHANGED expired
     \/ /\ pc[t] = "putRelock" /\ op[t] = "offerTimed"
        /\ expired' = expired \cup {t}
  /\ UNCHANGED <<items, count, capacity, takeLock, op, hand, c>>

\* There is room: enqueue the node.
Enqueue(t) ==
  /\ pc[t] = "putTest"
  /\ MayInsert(op[t], n[t], capacity)
  /\ items' = items \o hand[t]
  /\ Goto(t, "increment")
  /\ UNCHANGED <<count, capacity, putLock, takeLock, locals>>

\* No room: await releases the lock.
PutAwait(t) ==
  /\ pc[t] = "putTest"
  /\ ~MayInsert(op[t], n[t], capacity)
  /\ op[t] # "offer" /\ t \notin expired
  /\ putLock' = NoThread
  /\ Goto(t, "putWait")
  /\ UNCHANGED <<items, count, capacity, takeLock, locals>>

\* No room, and no (more) time to wait: return false.
PutRefuse(t) ==
  /\ pc[t] = "putTest"
  /\ ~MayInsert(op[t], n[t], capacity)
  /\ op[t] = "offer" \/ t \in expired
  /\ putLock' = NoThread
  /\ Goto(t, "return")
  /\ UNCHANGED <<items, count, capacity, takeLock, locals>>

\* c = count.getAndIncrement().
Increment(t) ==
  /\ pc[t] = "increment"
  /\ c' = [c EXCEPT ![t] = count]
  /\ count' = count + 1
  /\ Goto(t, "signalMore")
  /\ UNCHANGED <<items, capacity, putLock, takeLock, op, hand, n, expired>>

\* Pass the signal on while there is room, release putLock, and go on to
\* wake a taker if the queue was empty.
SignalMore(t) ==
  LET next == IF WasEmpty(c[t]) THEN "signalNotEmpty" ELSE "return"
  IN /\ pc[t] = "signalMore"
     /\ IF RoomLeft(c[t], capacity)
        THEN SignalPutter(t, next)
        ELSE Goto(t, next)
     /\ putLock' = NoThread
     /\ UNCHANGED <<items, count, capacity, takeLock, locals>>

\* signalNotEmpty(): lock takeLock, signal, unlock.
SignalNotEmpty(t) ==
  /\ pc[t] = "signalNotEmpty"
  /\ takeLock = NoThread
  /\ SignalTaker(t, "return")
  /\ UNCHANGED <<shared, locals>>

-----------------------------------------------------------------------------
(***************************************************************************)
(* take, poll(timeout, unit), poll, peek and drainTo.                      *)
(***************************************************************************)

\* poll and peek return null at once if they read a count of 0.
PollTest(t) ==
  /\ pc[t] = "pollTest"
  /\ Goto(t, IF count = 0 THEN "return" ELSE "takeLock")
  /\ UNCHANGED <<shared, locals>>

\* Acquire takeLock, for the first time or on the way out of await; all but
\* peek, which does not look at it again, read count.
TakeLock(t) ==
  /\ pc[t] \in {"takeLock", "takeRelock"}
  /\ takeLock = NoThread
  /\ takeLock' = t
  /\ n' = [n EXCEPT ![t] = IF op[t] = "peek" THEN n[t] ELSE count]
  /\ Goto(t, CASE op[t] = "drainTo" -> "drain"
               [] op[t] = "peek"    -> "peekRead"
               [] OTHER             -> "takeTest")
  /\ \/ UNCHANGED expired
     \/ /\ pc[t] = "takeRelock" /\ op[t] = "pollTimed"
        /\ expired' = expired \cup {t}
  /\ UNCHANGED <<items, count, capacity, putLock, op, hand, c>>

\* There is an item: dequeue it.
Dequeue(t) ==
  /\ pc[t] = "takeTest"
  /\ n[t] > 0
  /\ hand' = [hand EXCEPT ![t] = <<Head(items)>>]
  /\ items' = Tail(items)
  /\ Goto(t, "decrement")
  /\ UNCHANGED <<count, capacity, putLock, takeLock, op, c, n, expired>>

\* No item: await releases the lock.
TakeAwait(t) ==
  /\ pc[t] = "takeTest"
  /\ n[t] = 0
  /\ op[t] # "poll" /\ t \notin expired
  /\ takeLock' = NoThread
  /\ Goto(t, "takeWait")
  /\ UNCHANGED <<items, count, capacity, putLock, locals>>

\* Mutant: the early return leaves takeLock locked.
TakeRefuseLocked(t) ==
  /\ pc[t] = "takeTest"
  /\ n[t] = 0
  /\ op[t] = "poll" \/ t \in expired
  /\ Goto(t, "return")
  /\ UNCHANGED <<shared, locals>>

\* No item, and no (more) time to wait: return null.
TakeRefuse(t) ==
  /\ pc[t] = "takeTest"
  /\ n[t] = 0
  /\ op[t] = "poll" \/ t \in expired
  /\ takeLock' = NoThread
  /\ Goto(t, "return")
  /\ UNCHANGED <<items, count, capacity, putLock, locals>>

\* c = count.getAndDecrement(); pass the signal on while items are left, and
\* release takeLock.
Decrement(t) ==
  /\ pc[t] = "decrement"
  /\ c' = [c EXCEPT ![t] = count]
  /\ count' = count - 1
  /\ IF ItemsLeft(count)
     THEN SignalTaker(t, "takeCompare")
     ELSE Goto(t, "takeCompare")
  /\ takeLock' = NoThread
  /\ UNCHANGED <<items, capacity, putLock, op, hand, n, expired>>

\* After the unlock: c == capacity?
TakeCompare(t) ==
  /\ pc[t] = "takeCompare"
  /\ Goto(t, IF WasFull(c[t], capacity) THEN "signalNotFull" ELSE "return")
  /\ UNCHANGED <<shared, locals>>

\* signalNotFull(): lock putLock, signal, unlock.
SignalNotFull(t) ==
  /\ pc[t] = "signalNotFull"
  /\ putLock = NoThread
  /\ SignalPutter(t, "return")
  /\ UNCHANGED <<shared, locals>>

\* peek looks at head.next whatever count says now.
PeekRead(t) ==
  /\ pc[t] = "peekRead"
  /\ hand' = [hand EXCEPT ![t] = IF items = <<>> THEN <<>> ELSE <<Head(items)>>]
  /\ takeLock' = NoThread
  /\ Goto(t, "return")
  /\ UNCHANGED <<items, count, capacity, putLock, op, c, n, expired>>

\* Mutant: the head is left at the last node that was drained.
DrainKeepsLast(t) ==
  /\ pc[t] = "drain"
  /\ \/ /\ takeLock' = NoThread
        /\ Goto(t, "return")
        /\ UNCHANGED <<items, hand>>
     \/ \E i \in 1..n[t] :
          /\ hand' = [hand EXCEPT ![t] = SubSeq(items, 1, i)]
          /\ items' = SubSeq(items, i, Len(items))
          /\ Goto(t, "drainCount")
          /\ UNCHANGED takeLock
  /\ UNCHANGED <<count, capacity, putLock, op, c, n, expired>>

\* drainTo moves i of the n items it counted: all of them, as many as it was
\* asked for, or those before c.add threw.
Drain(t) ==
  /\ pc[t] = "drain"
  /\ \/ /\ takeLock' = NoThread
        /\ Goto(t, "return")
        /\ UNCHANGED <<items, hand>>
     \/ \E i \in 1..n[t] :
          /\ hand' = [hand EXCEPT ![t] = SubSeq(items, 1, i)]
          /\ items' = SubSeq(items, i + 1, Len(items))
          /\ Goto(t, "drainCount")
          /\ UNCHANGED takeLock
  /\ UNCHANGED <<count, capacity, putLock, op, c, n, expired>>

\* Mutant: the count is only decremented.
DrainCountsOne(t) ==
  /\ pc[t] = "drainCount"
  /\ c' = [c EXCEPT ![t] = count]
  /\ count' = count - 1
  /\ Goto(t, "drainCompare")
  /\ UNCHANGED <<items, capacity, putLock, takeLock, op, hand, n, expired>>

\* count.getAndAdd(-i).
DrainCount(t) ==
  /\ pc[t] = "drainCount"
  /\ c' = [c EXCEPT ![t] = count]
  /\ count' = count - Len(hand[t])
  /\ Goto(t, "drainCompare")
  /\ UNCHANGED <<items, capacity, putLock, takeLock, op, hand, n, expired>>

\* The comparison with capacity is made under takeLock, the signal after it.
DrainCompare(t) ==
  /\ pc[t] = "drainCompare"
  /\ Goto(t, IF WasFull(c[t], capacity) THEN "signalNotFull" ELSE "return")
  /\ takeLock' = NoThread
  /\ UNCHANGED <<items, count, capacity, putLock, locals>>

-----------------------------------------------------------------------------
(***************************************************************************)
(* remove(Object), clear and toArray, under both locks.                    *)
(***************************************************************************)

\* Mutants: fullyLock takes only one of the locks.
FullPutLockSkipped(t) ==
  /\ pc[t] = "fullPutLock"
  /\ Goto(t, "fullTakeLock")
  /\ UNCHANGED <<shared, locals>>

FullTakeLockSkipped(t) ==
  /\ pc[t] = "fullTakeLock"
  /\ Goto(t, "fullBody")
  /\ UNCHANGED <<shared, locals>>

FullPutLock(t) ==
  /\ pc[t] = "fullPutLock"
  /\ putLock = NoThread
  /\ putLock' = t
  /\ Goto(t, "fullTakeLock")
  /\ UNCHANGED <<items, count, capacity, takeLock, locals>>

FullTakeLock(t) ==
  /\ pc[t] = "fullTakeLock"
  /\ takeLock = NoThread
  /\ takeLock' = t
  /\ Goto(t, "fullBody")
  /\ UNCHANGED <<items, count, capacity, putLock, locals>>

\* Mutants: the count drops although nothing was unlinked; the first node is
\* unlinked instead of the one that was found.
RemoveItemAlways(t) ==
  /\ pc[t] = "fullBody" /\ op[t] = "remove"
  /\ items' = RemoveFirst(items, hand[t][1])
  /\ c' = [c EXCEPT ![t] = count]
  /\ count' = count - 1
  /\ Goto(t, "fullCompare")
  /\ UNCHANGED <<capacity, putLock, takeLock, op, hand, n, expired>>

RemoveItemHead(t) ==
  /\ pc[t] = "fullBody" /\ op[t] = "remove"
  /\ Contains(items, hand[t][1])
  /\ items' = Tail(items)
  /\ c' = [c EXCEPT ![t] = count]
  /\ count' = count - 1
  /\ Goto(t, "fullCompare")
  /\ UNCHANGED <<capacity, putLock, takeLock, op, hand, n, expired>>

\* remove finds the element, at its first occurrence: unlink it and update
\* count.
RemoveItem(t) ==
  /\ pc[t] = "fullBody" /\ op[t] = "remove"
  /\ \E i \in DOMAIN items :
       /\ items[i] = hand[t][1]
       /\ \A j \in 1..(i - 1) : items[j] # hand[t][1]
       /\ items' = RemoveAt(items, i)
  /\ c' = [c EXCEPT ![t] = count]
  /\ count' = count - 1
  /\ Goto(t, "fullCompare")
  /\ UNCHANGED <<capacity, putLock, takeLock, op, hand, n, expired>>

\* remove does not find it, or toArray copies the items.
FullRead(t) ==
  /\ pc[t] = "fullBody"
  /\ \/ /\ op[t] = "remove" /\ ~Contains(items, hand[t][1])
        /\ UNCHANGED hand
     \/ /\ op[t] = "toArray"
        /\ hand' = [hand EXCEPT ![t] = items]
  /\ putLock' = NoThread
  /\ takeLock' = NoThread
  /\ Goto(t, "return")
  /\ UNCHANGED <<items, count, capacity, op, c, n, expired>>

Clear(t) ==
  /\ pc[t] = "fullBody" /\ op[t] = "clear"
  /\ items' = <<>>
  /\ c' = [c EXCEPT ![t] = count]
  /\ count' = 0
  /\ Goto(t, "fullCompare")
  /\ UNCHANGED <<capacity, putLock, takeLock, op, hand, n, expired>>

\* Mutant: fullyUnlock forgets putLock.
FullCompareKeepsPutLock(t) ==
  /\ pc[t] = "fullCompare"
  /\ IF WasFull(c[t], capacity)
     THEN SignalPutter(t, "return")
     ELSE Goto(t, "return")
  /\ takeLock' = NoThread
  /\ UNCHANGED <<items, count, capacity, putLock, locals>>

\* Signal a putter if the queue was full, and release both locks.
FullCompare(t) ==
  /\ pc[t] = "fullCompare"
  /\ IF WasFull(c[t], capacity)
     THEN SignalPutter(t, "return")
     ELSE Goto(t, "return")
  /\ putLock' = NoThread
  /\ takeLock' = NoThread
  /\ UNCHANGED <<items, count, capacity, locals>>

-----------------------------------------------------------------------------

\* The volatile write of setCapacity: no lock, no signal, no validation.
SetCapacity ==
  /\ \E k \in Capacities : capacity' = k
  /\ UNCHANGED <<items, count, putLock, takeLock, pc, locals>>

\* InterruptedException out of await or lockInterruptibly.
Interrupt(t) ==
  /\ Interruptible(t)
  /\ Leave(t)
  /\ UNCHANGED shared

\* awaitNanos times out.
TimedWaitEnds(t) ==
  /\ op[t] \in TimedOps
  /\ \/ pc[t] = "putWait" /\ Goto(t, "putRelock")
     \/ pc[t] = "takeWait" /\ Goto(t, "takeRelock")
  /\ expired' = expired \cup {t}
  /\ UNCHANGED <<shared, op, hand, c, n>>

PutStep(t) ==
  \/ OfferRead(t) \/ OfferTest(t) \/ PutLock(t) \/ Enqueue(t) \/ PutAwait(t)
  \/ PutRefuse(t) \/ Increment(t) \/ SignalMore(t) \/ SignalNotEmpty(t)

TakeStep(t) ==
  \/ PollTest(t) \/ TakeLock(t) \/ Dequeue(t) \/ TakeAwait(t) \/ TakeRefuse(t)
  \/ Decrement(t) \/ TakeCompare(t) \/ SignalNotFull(t) \/ PeekRead(t)
  \/ Drain(t) \/ DrainCount(t) \/ DrainCompare(t)

FullStep(t) ==
  \/ FullPutLock(t) \/ FullTakeLock(t) \/ RemoveItem(t) \/ FullRead(t)
  \/ Clear(t) \/ FullCompare(t)

\* What a thread does by itself once it has called an operation.
Step(t) == PutStep(t) \/ TakeStep(t) \/ FullStep(t) \/ Return(t)

Next ==
  \/ \E t \in Threads : Begin(t) \/ Step(t) \/ Interrupt(t) \/ TimedWaitEnds(t)
  \/ SetCapacity

Spec == Init /\ [][Next]_vars

\* A thread inside a call keeps running; nothing makes threads call, waits
\* time out or be interrupted, or anyone resize the queue.
FairSpec == Spec /\ \A t \in Threads : WF_vars(Step(t))

-----------------------------------------------------------------------------
(***************************************************************************)
(* Properties.                                                             *)
(***************************************************************************)

\* Type invariant: every variable of the queue and of its callers keeps its
\* type; the integers are those of the algorithm, the queue holds Elems only.
TypeOK ==
  /\ items \in Seq(Elems)
  /\ count \in Nat
  /\ capacity \in Capacities
  /\ putLock \in Threads \cup {NoThread}
  /\ takeLock \in Threads \cup {NoThread}
  /\ pc \in [Threads -> Labels]
  /\ op \in [Threads -> AllOps \cup {"none"}]
  /\ hand \in [Threads -> Seq(Elems)]
  /\ c \in [Threads -> Int]
  /\ n \in [Threads -> Int]
  /\ expired \subseteq Threads

\* A lock belongs to the one thread that is inside its critical section.
LockInv ==
  \A t \in Threads :
    /\ putLock = t <=> pc[t] \in PutHeld \cup FullHeld \cup {"fullTakeLock"}
    /\ takeLock = t <=> pc[t] \in TakeHeld \cup FullHeld

\* Threads that are between the update of the list and the update of count.
Entering == IF \E t \in Threads : pc[t] = "increment" THEN 1 ELSE 0
Leaving(t) == pc[t] \in {"decrement", "drainCount"}

\* count lags the linked list by exactly the insertion and the removal that
\* are in progress: the two counters of the two-lock algorithm never drift.
CountTracksItems ==
  \/ /\ \A t \in Threads : ~Leaving(t)
     /\ Len(items) = count + Entering
  \/ \E t \in Threads : Leaving(t) /\ Len(items) + Len(hand[t]) = count + Entering

\* "acquiring the takeLock, and then reading n = count.get() gives visibility
\* to the first n items": the n items that take, poll and drainTo go on to
\* remove are in the list, so dequeue never meets a null first node.
CountedItemsPresent ==
  \A t \in Threads : pc[t] \in {"takeTest", "drain"} => n[t] <= Len(items)

\* Under both locks count is the number of nodes: toArray's array of
\* count.get() cells holds exactly the items, and remove and clear bring both
\* down together.
SnapshotConsistent ==
  \A t \in Threads : pc[t] = "fullBody" => count = Len(items)

\* The queue never holds more than some capacity it was given allows: however
\* the guards of concurrent insertions interleave, one read of count that was
\* below the bound admits one element.
WithinCapacity == \E k \in Capacities : count <= k

\* A taker is about to wait or waits, and u is on its way to wake it or to
\* take what it would take: cascading notifies never lose the last wake-up.
TakerStalls(t) == pc[t] = "takeWait" \/ (pc[t] = "takeTest" /\ n[t] = 0)
TakeDuty(u) ==
  \/ pc[u] = "takeRelock"
  \/ pc[u] = "takeTest" /\ n[u] # 0
  \/ pc[u] = "decrement"
  \/ pc[u] = "signalMore" /\ c[u] = 0
  \/ pc[u] = "signalNotEmpty"

\* No taker sleeps on a non-empty queue unless some thread still has to take
\* an item or to signal: no lost wake-up on notEmpty, whatever setCapacity does.
NoStrandedTaker ==
  (count > 0 /\ \E t \in Threads : TakerStalls(t)) => \E u \in Threads : TakeDuty(u)

PutterStalls(t) ==
  \/ pc[t] = "putWait"
  \/ pc[t] = "putTest" /\ n[t] = capacity
PutDuty(u) ==
  \/ pc[u] \in {"putRelock", "increment", "signalNotFull"}
  \/ pc[u] = "putTest" /\ n[u] # capacity
  \/ pc[u] = "signalMore" /\ c[u] + 1 < capacity
  \/ pc[u] \in {"takeCompare", "drainCompare", "fullCompare"} /\ c[u] = capacity

\* No putter sleeps on a queue with room unless some thread still has to
\* insert or to signal: "we are signalled if count ever changes from capacity".
NoStrandedPutter ==
  (count < capacity /\ \E t \in Threads : PutterStalls(t))
     => \E u \in Threads : PutDuty(u)

\* t cannot move before another thread releases a lock.
Blocked(t) ==
  \/ putLock # NoThread /\ pc[t] \in {"putLock", "putRelock", "signalNotFull", "fullPutLock"}
  \/ takeLock # NoThread /\ pc[t] \in {"takeLock", "takeRelock", "signalNotEmpty", "fullTakeLock"}
Running(t) == pc[t] \notin {"idle", "putWait", "takeWait"}

\* The two locks never deadlock: if any thread is running, one of those
\* running is not blocked on a lock (putLock before takeLock, everywhere).
SomeoneCanRun ==
  (\E t \in Threads : Running(t)) => \E t \in Threads : Running(t) /\ ~Blocked(t)

\* A taker that waits while the queue stays non-empty is woken.
TakersServed ==
  \A t \in Threads :
    (pc[t] = "takeWait" /\ count > 0) ~> (pc[t] # "takeWait" \/ count = 0)

\* A putter that waits while the queue stays below its capacity is woken.
PuttersServed ==
  \A t \in Threads :
    (pc[t] = "putWait" /\ count < capacity)
       ~> (pc[t] # "putWait" \/ count >= capacity)
=============================================================================
