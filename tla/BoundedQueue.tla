---------------------------- MODULE BoundedQueue ----------------------------
(***************************************************************************)
(* What a bounded blocking queue promises its callers: every call takes    *)
(* effect at one instant between its invocation and its return, on one     *)
(* FIFO buffer that holds at most Capacity elements.  A call that gives up *)
(* does so because the buffer was full, or empty, at that instant.         *)
(*                                                                         *)
(* ResizableQueue implements this while its capacity is left alone (module *)
(* ResizableQueueRefinement).                                              *)
(***************************************************************************)
EXTENDS Integers, SequencesExt

CONSTANTS Threads,  \* the callers
          Elems,    \* what the buffer holds
          Capacity  \* how many of them, a positive number

VARIABLES
  buffer,  \* the queue's contents, head first
  call     \* what each thread has asked for, and what it got

vars == <<buffer, call>>

Inserting == {"put", "offerTimed", "offer"}
Taking    == {"take", "pollTimed", "poll"}
\* Calls that wait may be interrupted; all but put and take may give up.
Waiting   == {"put", "offerTimed", "take", "pollTimed"}
Impatient == {"offerTimed", "offer", "pollTimed", "poll"}
Others    == {"drainTo", "remove", "clear", "toArray"}

\* val: the elements passed in while pending, the elements that were moved
\* (or, for toArray, seen) once done.
NoCall == [state |-> "idle", op |-> "none", val |-> <<>>]
Pending(o, arg) == [state |-> "pending", op |-> o, val |-> arg]
Done(o, res)    == [state |-> "done", op |-> o, val |-> res]

Asks(t, ops) == call[t].state = "pending" /\ call[t].op \in ops
Answer(t, res) == call' = [call EXCEPT ![t] = Done(call[t].op, res)]

Init == buffer = <<>> /\ call = [t \in Threads |-> NoCall]

Invoke(t) ==
  /\ call[t] = NoCall
  /\ \/ \E o \in Inserting \cup {"remove"}, e \in Elems :
          call' = [call EXCEPT ![t] = Pending(o, <<e>>)]
     \/ \E o \in Taking \cup (Others \ {"remove"}) :
          call' = [call EXCEPT ![t] = Pending(o, <<>>)]
  /\ UNCHANGED buffer

Insert(t) ==
  /\ Asks(t, Inserting)
  /\ Len(buffer) < Capacity
  /\ buffer' = buffer \o call[t].val
  /\ Answer(t, call[t].val)

Take(t) ==
  /\ Asks(t, Taking)
  /\ buffer # <<>>
  /\ buffer' = Tail(buffer)
  /\ Answer(t, <<Head(buffer)>>)

GiveUp(t) ==
  /\ Asks(t, Impatient)
  /\ IF call[t].op \in Inserting THEN Len(buffer) = Capacity ELSE buffer = <<>>
  /\ Answer(t, <<>>)
  /\ UNCHANGED buffer

DrainSome(t) ==
  /\ Asks(t, {"drainTo"})
  /\ \E i \in 0..Len(buffer) :
       /\ Answer(t, SubSeq(buffer, 1, i))
       /\ buffer' = SubSeq(buffer, i + 1, Len(buffer))

RemoveOne(t) ==
  /\ Asks(t, {"remove"})
  /\ buffer' = RemoveFirst(buffer, call[t].val[1])
  /\ Answer(t, IF Contains(buffer, call[t].val[1]) THEN call[t].val ELSE <<>>)

Empty(t) ==
  /\ Asks(t, {"clear"})
  /\ buffer' = <<>>
  /\ Answer(t, <<>>)

Copy(t) ==
  /\ Asks(t, {"toArray"})
  /\ Answer(t, buffer)
  /\ UNCHANGED buffer

\* InterruptedException: the call had no effect.
Withdraw(t) ==
  /\ Asks(t, Waiting)
  /\ call' = [call EXCEPT ![t] = NoCall]
  /\ UNCHANGED buffer

Respond(t) ==
  /\ call[t].state = "done"
  /\ call' = [call EXCEPT ![t] = NoCall]
  /\ UNCHANGED buffer

Next ==
  \E t \in Threads :
    \/ Invoke(t) \/ Insert(t) \/ Take(t) \/ GiveUp(t) \/ DrainSome(t)
    \/ RemoveOne(t) \/ Empty(t) \/ Copy(t) \/ Withdraw(t) \/ Respond(t)

Spec == Init /\ [][Next]_vars
=============================================================================
