----------------------------- MODULE RejectAlarm -----------------------------
(***************************************************************************)
(* The rejection counters of ThreadPoolIndicator, the threads that         *)
(* increment them from the rejection policies, and the AlarmDaemonThread   *)
(* that looks at every pool once per interval, alarms the notifiers, and   *)
(* clears the counter it has reported.                                     *)
(*                                                                         *)
(* A counter is an AtomicLong that the map holds from the first rejection  *)
(* until it is cleared: count[p] is its value, 0 while there is none.  A   *)
(* thread between putIfAbsent and incrementAndGet holds such an AtomicLong; *)
(* once the daemon has removed it from the map it is an orphan.            *)
(*                                                                         *)
(* What the daemon reads of the JDK executor, active threads and queued    *)
(* tasks, is any value of ActiveCounts and QueueSizes.                     *)
(***************************************************************************)
EXTENDS Integers, Sequences, Functions

CONSTANTS Pools,          \* the pools that exist
          PoolList,       \* those that are configured, in order
          Config,         \* their properties
          Submitters,     \* threads whose tasks are rejected
          Last,           \* the notifiers are 1..Last: listeners, database, default
          Failing,        \* those whose alarmNotify may throw
          ActiveCounts, QueueSizes,
          MaxRejections,  \* bound: rejections of all the pools
          MaxFailures     \* bound: exceptions thrown by notifiers

Notifiers == 1..Last

\* The notifiers that are told of a rejection once: none after them can throw.
\* The default one, which is the last and handles its own failures, is settled.
Settled == {k \in Notifiers : \A j \in (k + 1)..Last : j \notin Failing}

ASSUME ListsAssumption ==
  /\ PoolList \in Seq(Pools)
  /\ Last \in Nat \ {0} /\ Failing \subseteq Notifiers

\* A maximum of 0 is one that a refresh read and the executor refused.
ASSUME ConfigAssumption ==
  Config \in [Pools -> [alarmEnable : BOOLEAN, maximumPoolSize : Nat,
                        activeRateCapacityThreshold : Int,
                        queueCapacityThreshold : Int]]

ASSUME BoundsAssumption ==
  /\ ActiveCounts \subseteq Nat /\ QueueSizes \subseteq Nat
  /\ MaxRejections \in Nat /\ MaxFailures \in Nat

VARIABLES
  count,     \* THREAD_POOL_EXECUTOR_REJECT_COUNT_MAP
  held,      \* the AtomicLong each rejecting thread is about to increment
  pc, at,    \* where the daemon is, and at which pool
  taskCount, \* its local taskCount
  active,    \* the active count it last compared with the threshold
  alarm,     \* the message it is composing or sending
  next,      \* the notifier it calls next
  failures,  \* exceptions that notifiers have thrown
  \* history: what happened to the rejections of each pool
  rejected,  \* rejections counted so far
  raced,     \* those counted while the daemon was reporting, or on an orphan
  reported   \* per settled notifier, the sum of the rejections it was told of

counters == <<count, held>>
locals   == <<at, taskCount, active, alarm, next>>
history  == <<rejected, raced, reported>>
vars     == <<counters, pc, locals, failures, history>>

NoAlarm == [kind |-> "NONE", value |-> 0, shown |-> 0]
Nothing == [state |-> "none"]
Holding(p, s) == [state |-> s, pool |-> p]

Pool == PoolList[at]

\* The daemon has read the counter of p and has not yet cleared it.
Reporting(p) ==
  /\ pc \in {"compose", "notify", "clear"} /\ Pool = p
  /\ alarm.kind = "REJECT"

Init ==
  /\ count = [p \in Pools |-> 0]
  /\ held = [s \in Submitters |-> Nothing]
  /\ pc = "sleep" /\ at = 1
  /\ taskCount = 0 /\ active = 0 /\ alarm = NoAlarm /\ next = 1
  /\ failures = 0
  /\ rejected = [p \in Pools |-> 0]
  /\ raced = [p \in Pools |-> 0]
  /\ reported = [k \in Settled |-> [p \in Pools |-> 0]]

-----------------------------------------------------------------------------
(***************************************************************************)
(* incrRejectCount, called by the abort, discard and discard-oldest        *)
(* policies.                                                               *)
(***************************************************************************)

Counted(p, late) ==
  /\ rejected' = [rejected EXCEPT ![p] = @ + 1]
  /\ raced' = [raced EXCEPT ![p] = IF late \/ Reporting(p) THEN @ + 1 ELSE @]
  /\ UNCHANGED reported

AllRejections == FoldFunction(+, 0, rejected)

\* putIfAbsent puts an AtomicLong of 1, or returns the one that is there.
PutIfAbsent(s) ==
  /\ held[s] = Nothing
  /\ AllRejections < MaxRejections
  /\ \E p \in Pools :
       IF count[p] = 0
       THEN /\ count' = [count EXCEPT ![p] = 1]
            /\ Counted(p, FALSE)
            /\ UNCHANGED held
       ELSE /\ held' = [held EXCEPT ![s] = Holding(p, "live")]
            /\ UNCHANGED <<count, history>>
  /\ UNCHANGED <<pc, locals, failures>>

\* incrementAndGet on the AtomicLong, whether or not the map still has it.
IncrementAndGet(s) ==
  /\ held[s] # Nothing
  /\ LET p == held[s].pool
         orphan == held[s].state = "orphan"
     IN /\ count' = [count EXCEPT ![p] = IF orphan THEN @ ELSE @ + 1]
        /\ Counted(p, orphan)
  /\ held' = [held EXCEPT ![s] = Nothing]
  /\ UNCHANGED <<pc, locals, failures>>

-----------------------------------------------------------------------------
(***************************************************************************)
(* AlarmDaemonThread.run.                                                  *)
(***************************************************************************)

\* Mutant: one pool too many.
NextPoolPastEnd ==
  /\ IF at <= Len(PoolList) THEN at' = at + 1 /\ pc' = "size"
                            ELSE at' = 1 /\ pc' = "sleep"
  /\ taskCount' = 0 /\ active' = 0 /\ alarm' = NoAlarm /\ next' = 1

\* On to the next pool, or to sleep; what ends the work on a pool early,
\* a return or an exception caught inside the loop, does no more than this.
NextPool ==
  /\ IF at < Len(PoolList) THEN at' = at + 1 /\ pc' = "size"
                             ELSE at' = 1 /\ pc' = "sleep"
  /\ taskCount' = 0 /\ active' = 0 /\ alarm' = NoAlarm /\ next' = 1

\* Mutant: the exception leaves the loop over the pools.
ThrowEndsPass ==
  /\ at' = 1 /\ pc' = "sleep"
  /\ taskCount' = 0 /\ active' = 0 /\ alarm' = NoAlarm /\ next' = 1

Throw == NextPool

Wake ==
  /\ pc = "sleep"
  /\ PoolList # <<>>
  /\ pc' = "size"
  /\ UNCHANGED <<counters, locals, failures, history>>

ReadQueueSize ==
  /\ pc = "size"
  /\ IF Config[Pool].alarmEnable
     THEN /\ taskCount' \in QueueSizes
          /\ pc' = "active"
          /\ UNCHANGED <<at, active, alarm, next>>
     ELSE NextPool
  /\ UNCHANGED <<counters, failures, history>>

\* The integer quotient is taken before it is made a percentage.
ActiveRate(a, max) == (a \div max) * 100

\* A threshold of -1 stands for none, and the active count is not read.
CheckActive ==
  LET max == Config[Pool].maximumPoolSize
      threshold == Config[Pool].activeRateCapacityThreshold
  IN /\ pc = "active"
     /\ \/ /\ threshold = -1
           /\ pc' = "queue"
           /\ UNCHANGED locals
        \/ /\ threshold # -1 /\ max = 0
           /\ Throw
        \/ /\ threshold # -1 /\ max # 0
           /\ active' \in ActiveCounts
           /\ pc' = IF ActiveRate(active', max) > threshold THEN "sendActive" ELSE "queue"
           /\ UNCHANGED <<at, taskCount, alarm, next>>
     /\ UNCHANGED <<counters, failures, history>>

Compose(kind, value) ==
  /\ alarm' = [kind |-> kind, value |-> value, shown |-> count[Pool]]
  /\ pc' = "notify"
  /\ UNCHANGED <<at, taskCount, active, next>>

\* The active count in the message is read anew.
SendActive ==
  /\ pc = "sendActive"
  /\ \E a \in ActiveCounts : Compose("ACTIVE", ActiveRate(a, Config[Pool].maximumPoolSize))
  /\ UNCHANGED <<counters, failures, history>>

CheckQueue ==
  LET threshold == Config[Pool].queueCapacityThreshold
  IN /\ pc = "queue"
     /\ IF threshold # -1 /\ taskCount > threshold
        THEN Compose("QUEUE_CAPACITY", taskCount)
        ELSE pc' = "reject" /\ UNCHANGED locals
     /\ UNCHANGED <<counters, failures, history>>

\* The AtomicLong of p leaves the map; threads that hold it keep it.
ClearRejectCount(p) ==
  /\ count' = [count EXCEPT ![p] = 0]
  /\ held' = [s \in Submitters |-> IF held[s] = Holding(p, "live")
                                   THEN Holding(p, "orphan") ELSE held[s]]

\* Mutant: the counter is cleared when it is read.
ReadRejectClearing ==
  /\ pc = "reject"
  /\ IF count[Pool] > 0
     THEN /\ alarm' = [kind |-> "REJECT", value |-> count[Pool], shown |-> 0]
          /\ pc' = "compose"
          /\ ClearRejectCount(Pool)
          /\ UNCHANGED <<at, taskCount, active, next>>
     ELSE NextPool /\ UNCHANGED counters
  /\ UNCHANGED <<failures, history>>

\* getRejectCount.
ReadReject ==
  /\ pc = "reject"
  /\ IF count[Pool] > 0
     THEN /\ alarm' = [kind |-> "REJECT", value |-> count[Pool], shown |-> 0]
          /\ pc' = "compose"
          /\ UNCHANGED <<at, taskCount, active, next>>
     ELSE NextPool
  /\ UNCHANGED <<counters, failures, history>>

\* sendRejectAlarmMessage: the pool's indicator, which the message also
\* shows, reads the counter a second time.
SendReject ==
  /\ pc = "compose"
  /\ Compose("REJECT", alarm.value)
  /\ UNCHANGED <<counters, failures, history>>

\* The message is out: what run() does after the three kinds of alarm.
AfterAlarm(kind) ==
  CASE kind = "ACTIVE"         -> "queue"
    [] kind = "QUEUE_CAPACITY" -> "reject"
    [] kind = "REJECT"         -> "clear"

Notify ==
  /\ pc = "notify"
  /\ reported' = IF alarm.kind = "REJECT" /\ next \in Settled
                 THEN [reported EXCEPT ![next][Pool] = @ + alarm.value]
                 ELSE reported
  /\ IF next < Last
     THEN next' = next + 1 /\ UNCHANGED <<pc, alarm>>
     ELSE /\ next' = 1
          /\ pc' = AfterAlarm(alarm.kind)
          /\ alarm' = IF alarm.kind = "REJECT" THEN alarm ELSE NoAlarm
  /\ UNCHANGED <<counters, at, taskCount, active, failures, rejected, raced>>

\* Mutant: the counter is cleared in a finally block.
NotifyThrowsClearing ==
  /\ pc = "notify"
  /\ next \in Failing /\ failures < MaxFailures
  /\ failures' = failures + 1
  /\ Throw
  /\ IF alarm.kind = "REJECT" THEN ClearRejectCount(Pool) ELSE UNCHANGED counters
  /\ UNCHANGED history

NotifyThrows ==
  /\ pc = "notify"
  /\ next \in Failing /\ failures < MaxFailures
  /\ failures' = failures + 1
  /\ Throw
  /\ UNCHANGED <<counters, history>>

\* Mutant: the counter is not cleared.
ClearForgotten ==
  /\ pc = "clear"
  /\ NextPool
  /\ UNCHANGED <<counters, failures, history>>

Clear ==
  /\ pc = "clear"
  /\ ClearRejectCount(Pool)
  /\ NextPool
  /\ UNCHANGED <<failures, history>>

AlarmDaemon ==
  \/ Wake \/ ReadQueueSize \/ CheckActive \/ SendActive \/ CheckQueue
  \/ ReadReject \/ SendReject \/ Notify \/ NotifyThrows \/ Clear

Next ==
  \/ \E s \in Submitters : PutIfAbsent(s) \/ IncrementAndGet(s)
  \/ AlarmDaemon

Spec == Init /\ [][Next]_vars

\* The daemon's thread is scheduled and its sleep ends.
FairSpec == Spec /\ WF_vars(AlarmDaemon)

-----------------------------------------------------------------------------
(***************************************************************************)
(* Properties.                                                             *)
(***************************************************************************)

\* Type invariant of the counters, of the daemon's locals and of the history.
TypeOK ==
  /\ count \in [Pools -> Nat]
  /\ held \in [Submitters -> {Nothing} \cup
               [state : {"live", "orphan"}, pool : Pools]]
  /\ pc \in {"sleep", "size", "active", "sendActive", "queue", "reject",
             "compose", "notify", "clear"}
  /\ pc # "sleep" => at \in DOMAIN PoolList
  /\ at \in Nat /\ taskCount \in Nat /\ active \in Nat
  /\ alarm \in [kind : {"NONE", "ACTIVE", "QUEUE_CAPACITY", "REJECT"},
                value : Nat, shown : Nat]
  /\ next \in Notifiers /\ failures \in Nat
  /\ rejected \in [Pools -> Nat] /\ raced \in [Pools -> Nat]
  /\ reported \in [Settled -> [Pools -> Nat]]

\* No rejection is reported twice to a settled notifier, the default one
\* among them: the counter is cleared after every report that reached them all.
NeverOvercounts == \A k \in Settled, p \in Pools : reported[k][p] <= rejected[p]

\* The rejections that are due for a report, to the last notifier.
Outstanding(p) ==
  count[p] - (IF pc = "clear" /\ Pool = p THEN alarm.value ELSE 0)

\* What the alarm forgets is no more than what raced with it: a rejection
\* counted at any other time is still in the counter or was reported, also
\* when a notifier throws.
ForgetsOnlyRaces ==
  \A p \in Pools :
    rejected[p] <= reported[Last][p] + Outstanding(p) + raced[p]

\* The indicator shown in a rejection alarm is read after its headline and
\* before the counter is cleared, so it never shows fewer rejections.
HeadlineWithinIndicator ==
  pc = "notify" /\ alarm.kind = "REJECT" => alarm.value <= alarm.shown

\* A configured pool whose active check does not divide by zero.
Healthy(p) ==
  /\ \E i \in DOMAIN PoolList : PoolList[i] = p
  /\ Config[p].alarmEnable
  /\ Config[p].activeRateCapacityThreshold # -1 => Config[p].maximumPoolSize # 0

\* Once the notifiers have stopped throwing, the rejections of every pool that
\* is watched are reported and cleared, although another pool's check may
\* throw in every pass.
RejectionsReported ==
  \A p \in Pools : Healthy(p) => (count[p] > 0 ~> count[p] = 0)

\* activeRateCapacityThreshold is documented as a threshold on
\* activeCount/maximumPoolSize in percent: above it, there is an alarm.
ActivityAlarmed ==
  [][LET threshold == Config[Pool].activeRateCapacityThreshold
     IN pc = "active" /\ pc' = "queue" /\ threshold # -1
          => active' * 100 <= threshold * Config[Pool].maximumPoolSize]_vars
==============================================================================
