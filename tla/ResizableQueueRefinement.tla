---------------------- MODULE ResizableQueueRefinement ----------------------
(***************************************************************************)
(* ResizableQueue, with a capacity that is never changed and without peek, *)
(* implements BoundedQueue.  An insertion takes effect when count is       *)
(* incremented, a removal when it is decremented, a refusal when the value *)
(* of count on which it is based is read.                                  *)
(***************************************************************************)
EXTENDS ResizableQueue

ASSUME FixedCapacity == \E k \in Capacities : Capacities = {k}
ASSUME NoPeek == "peek" \notin Ops

TheCapacity == CHOOSE k \in Capacities : TRUE

\* The elements taken off the list but not yet counted out come first; the
\* one appended but not yet counted in is left out.
CountedBuffer ==
  LET out     == {t \in Threads : Leaving(t)}
      removed == IF out = {} THEN <<>> ELSE hand[CHOOSE t \in out : TRUE]
  IN removed \o SubSeq(items, 1, Len(items) - Entering)

\* The call has taken effect, or its refusal is decided.
Decided(t) ==
  \/ pc[t] \in {"signalMore", "signalNotEmpty", "takeCompare", "signalNotFull",
                "drainCompare", "fullCompare", "return"}
  \/ pc[t] = "offerTest" /\ n[t] = capacity
  \/ pc[t] = "putTest" /\ n[t] = capacity /\ (op[t] = "offer" \/ t \in expired)
  \/ pc[t] = "takeTest" /\ n[t] = 0 /\ (op[t] = "poll" \/ t \in expired)

Argument(t) == IF op[t] \in InsertOps \cup {"remove"} THEN hand[t] ELSE <<>>

\* What the method returns: c >= 0 for the insertions and for remove, the
\* elements themselves for the others.
Result(t) == IF op[t] \in InsertOps \cup {"remove"} /\ c[t] < 0 THEN <<>> ELSE hand[t]

CallOf(t) ==
  [state |-> IF pc[t] = "idle" THEN "idle" ELSE IF Decided(t) THEN "done" ELSE "pending",
   op    |-> op[t],
   val   |-> IF Decided(t) THEN Result(t) ELSE Argument(t)]

Abstract == INSTANCE BoundedQueue
  WITH Capacity <- TheCapacity,
       buffer   <- CountedBuffer,
       call     <- [t \in Threads |-> CallOf(t)]

\* Linearizability: every behaviour of the two-lock queue is one of the
\* atomic bounded FIFO queue, results included.
Linearizable == Abstract!Spec
=============================================================================
