-------------------------- MODULE RejectAlarmProofs --------------------------
(***************************************************************************)
(* Proofs about RejectAlarm, for any pools, thresholds, rejecting threads  *)
(* and notifiers, whichever of these may throw.                            *)
(***************************************************************************)
EXTENDS RejectAlarm, TLAPS

\* What the daemon's place says of its locals.
DaemonInv ==
  /\ pc = "sleep" => at = 1
  /\ pc # "notify" => next = 1
  /\ pc = "sendActive" => Config[Pool].maximumPoolSize # 0
  /\ pc \in {"compose", "clear"} => alarm.kind = "REJECT"
  /\ pc = "notify" => alarm.kind # "NONE"

\* Rejecting threads only add to the counter that the daemon has read.
CounterInv == \A p \in Pools : Reporting(p) => alarm.value <= count[p]

\* Notifier k has been told of the rejections that are not cleared yet.
Told(k, p) == Reporting(p) /\ (pc = "clear" \/ (pc = "notify" /\ k < next))

\* What k was told and what it is still due are at most what was rejected.
TellInv ==
  \A k \in Settled, p \in Pools :
    reported[k][p] + (IF Told(k, p) THEN count[p] - alarm.value ELSE count[p])
      <= rejected[p]

\* What was rejected was reported, raced, or is in the value that is about to
\* be reported, or in the counter when no report is under way.
LossInv ==
  \A p \in Pools :
    rejected[p] <= reported[Last][p] + raced[p]
                     + (IF Reporting(p)
                        THEN IF pc = "clear" THEN 0 ELSE alarm.value
                        ELSE count[p])

\* The inductive invariant.
Inv == TypeOK /\ DaemonInv /\ CounterInv /\ TellInv /\ LossInv /\ HeadlineWithinIndicator

-----------------------------------------------------------------------------

LEMMA PoolType ==
  ASSUME TypeOK, pc # "sleep"
  PROVE  Pool \in Pools
BY ListsAssumption DEF TypeOK, Pool

\* The last notifier is settled, and no notifier after a settled one throws.
LEMMA SettledProperties ==
  /\ Last \in Settled /\ Settled \subseteq Notifiers
  /\ \A k \in Settled, j \in Failing : j <= k
BY ListsAssumption DEF Settled, Notifiers

LEMMA NextPoolEffect ==
  ASSUME TypeOK, pc # "sleep", NextPool
  PROVE  /\ pc' \in {"size", "sleep"} /\ (pc' # "sleep" => at' \in DOMAIN PoolList)
         /\ (pc' = "sleep" => at' = 1)
         /\ at' \in Nat /\ taskCount' = 0 /\ active' = 0
         /\ alarm' = NoAlarm /\ next' = 1
         /\ NoAlarm \in [kind : {"NONE", "ACTIVE", "QUEUE_CAPACITY", "REJECT"},
                         value : Nat, shown : Nat]
         /\ 1 \in Notifiers
<1>1. at \in Nat /\ at \in 1..Len(PoolList) /\ DOMAIN PoolList = 1..Len(PoolList)
      /\ Len(PoolList) \in Nat
  BY ListsAssumption DEF TypeOK
<1>2. taskCount' = 0 /\ active' = 0 /\ alarm' = NoAlarm /\ next' = 1
  BY DEF NextPool
<1>3. /\ NoAlarm \in [kind : {"NONE", "ACTIVE", "QUEUE_CAPACITY", "REJECT"},
                      value : Nat, shown : Nat]
      /\ 1 \in Notifiers
  BY ListsAssumption DEF NoAlarm, Notifiers
<1>4. CASE at < Len(PoolList)
  <2>1. at' = at + 1 /\ pc' = "size"
    BY <1>4 DEF NextPool
  <2>2. at' \in Nat /\ at' \in DOMAIN PoolList
    BY <1>1, <1>4, <2>1
  <2>3. QED
    BY <2>1, <2>2, <1>2, <1>3
<1>5. CASE ~(at < Len(PoolList))
  <2>1. at' = 1 /\ pc' = "sleep"
    BY <1>5 DEF NextPool
  <2>2. QED
    BY <2>1, <1>2, <1>3
<1>6. QED
  BY <1>4, <1>5

LEMMA ComposeEffect ==
  ASSUME TypeOK, pc # "sleep", NEW kind \in {"ACTIVE", "QUEUE_CAPACITY", "REJECT"},
         NEW value \in Nat, Compose(kind, value)
  PROVE  /\ pc' = "notify" /\ UNCHANGED <<at, taskCount, active, next>>
         /\ alarm' = [kind |-> kind, value |-> value, shown |-> count[Pool]]
         /\ alarm' \in [kind : {"NONE", "ACTIVE", "QUEUE_CAPACITY", "REJECT"},
                        value : Nat, shown : Nat]
<1>1. count[Pool] \in Nat
  BY PoolType DEF TypeOK
<1>2. QED
  BY <1>1 DEF Compose

\* The rate is a number unless the maximum is 0.
LEMMA RateType ==
  ASSUME NEW a \in Nat, NEW max \in Nat, max # 0
  PROVE  ActiveRate(a, max) \in Nat
<1>1. a \div max \in Nat
  OBVIOUS
<1>2. QED
  BY <1>1 DEF ActiveRate

LEMMA InitInv == Init => Inv
<1> SUFFICES ASSUME Init PROVE Inv
  OBVIOUS
<1> USE DEF Init
<1>1. TypeOK
  BY ListsAssumption DEF TypeOK, Nothing, NoAlarm, Notifiers
<1>2. DaemonInv
  BY DEF DaemonInv
<1>3. CounterInv
  BY DEF CounterInv, Reporting
<1>4. TellInv
  BY DEF TellInv, Told, Reporting
<1>5. LossInv
  BY SettledProperties DEF LossInv, Reporting
<1>6. HeadlineWithinIndicator
  BY DEF HeadlineWithinIndicator
<1>7. QED
  BY <1>1, <1>2, <1>3, <1>4, <1>5, <1>6 DEF Inv

-----------------------------------------------------------------------------
(***************************************************************************)
(* The rejecting threads.                                                  *)
(***************************************************************************)

\* The daemon has not moved.
LEMMA DaemonStands ==
  ASSUME Inv, UNCHANGED <<pc, locals>>
  PROVE  /\ \A p \in Pools : Reporting(p)' <=> Reporting(p)
         /\ \A p \in Pools, k \in Settled : Told(k, p)' <=> Told(k, p)
         /\ DaemonInv' /\ HeadlineWithinIndicator'
<1>1. Pool' = Pool
  BY DEF Pool, locals
<1>2. \A p \in Pools : Reporting(p)' <=> Reporting(p)
  BY <1>1 DEF Reporting, locals
<1>3. \A p \in Pools, k \in Settled : Told(k, p)' <=> Told(k, p)
  BY <1>2 DEF Told, locals
<1>4. DaemonInv' /\ HeadlineWithinIndicator'
  BY <1>1 DEF Inv, DaemonInv, HeadlineWithinIndicator, locals
<1>5. QED
  BY <1>2, <1>3, <1>4

\* One more rejection of p, in the map's AtomicLong or on an orphan.
LEMMA CountedStep ==
  ASSUME Inv, UNCHANGED <<pc, locals, failures>>, held' \in [Submitters -> {Nothing} \cup
               [state : {"live", "orphan"}, pool : Pools]],
         NEW p \in Pools, NEW late \in BOOLEAN, Counted(p, late),
         count' = [count EXCEPT ![p] = IF late THEN @ ELSE @ + 1]
  PROVE  Inv'
<1> USE DEF Counted
<1>1. TypeOK'
  BY DEF Inv, TypeOK, locals
<1>2. CounterInv'
  <2> SUFFICES ASSUME NEW q \in Pools, Reporting(q)'
               PROVE  alarm'.value <= count'[q]
    BY DEF CounterInv
  <2>1. alarm.value <= count[q] /\ count[q] \in Nat /\ alarm.value \in Nat
    BY DaemonStands DEF Inv, TypeOK, CounterInv
  <2>2. count'[q] \in {count[q], count[q] + 1}
    BY DEF Inv, TypeOK
  <2>3. QED
    BY <2>1, <2>2 DEF locals
<1>3. TellInv'
  <2> SUFFICES ASSUME NEW k \in Settled, NEW q \in Pools
               PROVE  reported'[k][q] + (IF Told(k, q)' THEN count'[q] - alarm'.value
                                                        ELSE count'[q]) <= rejected'[q]
    BY DEF TellInv
  <2>1. /\ reported[k][q] \in Nat /\ count[q] \in Nat /\ alarm.value \in Nat
        /\ rejected[q] \in Nat
    BY DEF Inv, TypeOK
  <2>2. reported[k][q] + (IF Told(k, q) THEN count[q] - alarm.value ELSE count[q])
          <= rejected[q]
    BY DEF Inv, TellInv
  <2>3. \/ count'[q] = count[q] /\ rejected'[q] \in {rejected[q], rejected[q] + 1}
        \/ count'[q] = count[q] + 1 /\ rejected'[q] = rejected[q] + 1
    BY DEF Inv, TypeOK
  <2>4. QED
    BY <2>1, <2>2, <2>3, DaemonStands DEF locals
<1>4. LossInv'
  <2> SUFFICES ASSUME NEW q \in Pools
               PROVE  rejected'[q] <= reported'[Last][q] + raced'[q]
                        + (IF Reporting(q)'
                           THEN IF pc' = "clear" THEN 0 ELSE alarm'.value
                           ELSE count'[q])
    BY DEF LossInv
  <2>1. /\ reported[Last][q] \in Nat /\ count[q] \in Nat /\ alarm.value \in Nat
        /\ rejected[q] \in Nat /\ raced[q] \in Nat
    BY SettledProperties DEF Inv, TypeOK
  <2>2. rejected[q] <= reported[Last][q] + raced[q]
                        + (IF Reporting(q)
                           THEN IF pc = "clear" THEN 0 ELSE alarm.value
                           ELSE count[q])
    BY DEF Inv, LossInv
  <2>3. \/ rejected'[q] = rejected[q] /\ raced'[q] = raced[q] /\ count'[q] = count[q]
        \/ /\ rejected'[q] = rejected[q] + 1
           /\ \/ raced'[q] = raced[q] + 1 /\ count'[q] >= count[q]
              \/ ~Reporting(q) /\ count'[q] = count[q] + 1 /\ raced'[q] = raced[q]
    BY <2>1 DEF Inv, TypeOK
  <2>4. count'[q] \in Nat
    BY <1>1 DEF TypeOK
  <2>5. QED
    BY <2>1, <2>2, <2>3, <2>4, DaemonStands DEF locals
<1>5. QED
  BY <1>1, <1>2, <1>3, <1>4, DaemonStands DEF Inv

LEMMA PutIfAbsentStep ==
  ASSUME Inv, NEW s \in Submitters, PutIfAbsent(s)
  PROVE  Inv'
<1>1. PICK p \in Pools :
        IF count[p] = 0
        THEN /\ count' = [count EXCEPT ![p] = 1]
             /\ Counted(p, FALSE)
             /\ UNCHANGED held
        ELSE /\ held' = [held EXCEPT ![s] = Holding(p, "live")]
             /\ UNCHANGED <<count, history>>
  BY DEF PutIfAbsent
<1>2. UNCHANGED <<pc, locals, failures>>
  BY DEF PutIfAbsent
<1>3. CASE count[p] = 0
  <2>1. count' = [count EXCEPT ![p] = IF FALSE THEN @ ELSE @ + 1]
    BY <1>1, <1>3
  <2>2. held' \in [Submitters -> {Nothing} \cup
               [state : {"live", "orphan"}, pool : Pools]]
    BY <1>1, <1>3 DEF Inv, TypeOK
  <2>3. QED
    BY <1>1, <1>2, <1>3, <2>1, <2>2, CountedStep
<1>4. CASE count[p] # 0
  <2>1. TypeOK'
    BY <1>1, <1>2, <1>4 DEF Inv, TypeOK, Holding, locals, history
  <2>2. CounterInv' /\ TellInv' /\ LossInv'
    BY <1>1, <1>2, <1>4, DaemonStands
      DEF Inv, CounterInv, TellInv, LossInv, locals, history
  <2>3. QED
    BY <1>2, <2>1, <2>2, DaemonStands DEF Inv
<1>5. QED
  BY <1>3, <1>4

LEMMA IncrementAndGetStep ==
  ASSUME Inv, NEW s \in Submitters, IncrementAndGet(s)
  PROVE  Inv'
<1> DEFINE p == held[s].pool
           orphan == held[s].state = "orphan"
<1>1. p \in Pools /\ orphan \in BOOLEAN
  BY DEF IncrementAndGet, Inv, TypeOK
<1>2. /\ count' = [count EXCEPT ![p] = IF orphan THEN @ ELSE @ + 1]
      /\ Counted(p, orphan)
      /\ UNCHANGED <<pc, locals, failures>>
  BY DEF IncrementAndGet
<1>3. held' \in [Submitters -> {Nothing} \cup
               [state : {"live", "orphan"}, pool : Pools]]
  BY DEF IncrementAndGet, Inv, TypeOK
<1> HIDE DEF p, orphan
<1>4. QED
  BY <1>1, <1>2, <1>3, CountedStep

-----------------------------------------------------------------------------
(***************************************************************************)
(* The daemon.                                                             *)
(***************************************************************************)

\* Before and after the step no report of rejections is under way.
LEMMA QuietStep ==
  ASSUME Inv, TypeOK', DaemonInv', UNCHANGED <<count, history>>,
         pc \in {"compose", "notify", "clear"} => alarm.kind # "REJECT",
         pc' \in {"compose", "notify", "clear"} => alarm'.kind # "REJECT"
  PROVE  Inv'
<1>1. \A p \in Pools : ~Reporting(p) /\ ~Reporting(p)'
  BY DEF Reporting
<1>2. CounterInv'
  BY <1>1 DEF CounterInv
<1>3. TellInv'
  BY <1>1 DEF Inv, TellInv, Told, history
<1>4. LossInv'
  BY <1>1 DEF Inv, LossInv, history
<1>5. HeadlineWithinIndicator'
  BY DEF HeadlineWithinIndicator
<1>6. QED
  BY <1>2, <1>3, <1>4, <1>5 DEF Inv

\* Nothing that is counted or told changes when the daemon leaves a pool
\* whose rejections it has not reported to a settled notifier.
LEMMA LeavePoolStep ==
  ASSUME Inv, pc # "sleep", NextPool, UNCHANGED <<counters, history>>,
         failures' \in Nat, \A k \in Settled, p \in Pools : ~Told(k, p), pc # "clear"
  PROVE  Inv'
<1>1. /\ pc' \in {"size", "sleep"} /\ (pc' # "sleep" => at' \in DOMAIN PoolList)
      /\ (pc' = "sleep" => at' = 1)
      /\ at' \in Nat /\ taskCount' = 0 /\ active' = 0
      /\ alarm' = NoAlarm /\ next' = 1
      /\ NoAlarm \in [kind : {"NONE", "ACTIVE", "QUEUE_CAPACITY", "REJECT"},
                      value : Nat, shown : Nat]
      /\ 1 \in Notifiers
  BY NextPoolEffect DEF Inv
<1>2. TypeOK'
  BY <1>1 DEF Inv, TypeOK, counters, history
<1>3. DaemonInv' /\ HeadlineWithinIndicator'
  BY <1>1 DEF DaemonInv, HeadlineWithinIndicator
<1>4. \A p \in Pools : ~Reporting(p)'
  BY <1>1 DEF Reporting
<1>5. CounterInv'
  BY <1>4 DEF CounterInv
<1>6. TellInv'
  BY <1>4 DEF Inv, TellInv, Told, counters, history
<1>7. LossInv'
  <2> SUFFICES ASSUME NEW p \in Pools
               PROVE  rejected[p] <= reported[Last][p] + raced[p] + count[p]
    BY <1>4 DEF LossInv, counters, history
  <2>1. /\ reported[Last][p] \in Nat /\ count[p] \in Nat /\ alarm.value \in Nat
        /\ rejected[p] \in Nat /\ raced[p] \in Nat
    BY SettledProperties DEF Inv, TypeOK
  <2>2. rejected[p] <= reported[Last][p] + raced[p]
                        + (IF Reporting(p) THEN alarm.value ELSE count[p])
    BY DEF Inv, LossInv
  <2>3. Reporting(p) => alarm.value <= count[p]
    BY DEF Inv, CounterInv
  <2>4. QED
    BY <2>1, <2>2, <2>3
<1>8. QED
  BY <1>2, <1>3, <1>5, <1>6, <1>7 DEF Inv

LEMMA WakeStep == ASSUME Inv, Wake PROVE Inv'
<1>1. TypeOK'
  BY ListsAssumption DEF Inv, TypeOK, DaemonInv, Wake, counters, locals, history
<1>2. DaemonInv'
  BY DEF Inv, DaemonInv, Wake, locals
<1>3. QED
  BY <1>1, <1>2, QuietStep DEF Wake, counters

LEMMA ReadQueueSizeStep == ASSUME Inv, ReadQueueSize PROVE Inv'
<1> USE DEF ReadQueueSize
<1>1. CASE Config[Pool].alarmEnable
  <2>1. TypeOK'
    BY <1>1, BoundsAssumption DEF Inv, TypeOK, counters, history
  <2>2. DaemonInv'
    BY <1>1 DEF Inv, DaemonInv
  <2>3. QED
    BY <1>1, <2>1, <2>2, QuietStep DEF counters
<1>2. CASE ~Config[Pool].alarmEnable
  <2>1. \A k \in Settled, p \in Pools : ~Told(k, p)
    BY DEF Told
  <2>2. QED
    BY <1>2, <2>1, LeavePoolStep DEF Inv, TypeOK
<1>3. QED
  BY <1>1, <1>2

LEMMA CheckActiveStep == ASSUME Inv, CheckActive PROVE Inv'
<1> DEFINE max == Config[Pool].maximumPoolSize
           threshold == Config[Pool].activeRateCapacityThreshold
<1>1. pc = "active" /\ UNCHANGED <<counters, failures, history>>
  BY DEF CheckActive
<1>2. CASE threshold = -1 /\ pc' = "queue" /\ UNCHANGED locals
  <2>1. TypeOK'
    BY <1>1, <1>2 DEF Inv, TypeOK, counters, locals, history
  <2>2. DaemonInv'
    BY <1>1, <1>2 DEF Inv, DaemonInv, locals
  <2>3. QED
    BY <1>1, <1>2, <2>1, <2>2, QuietStep DEF counters
<1>3. CASE threshold # -1 /\ max = 0 /\ Throw
  <2>1. \A k \in Settled, p \in Pools : ~Told(k, p)
    BY <1>1 DEF Told
  <2>2. QED
    BY <1>1, <1>3, <2>1, LeavePoolStep DEF Inv, TypeOK, Throw
<1>4. CASE /\ threshold # -1 /\ max # 0
           /\ active' \in ActiveCounts
           /\ pc' = IF ActiveRate(active', max) > threshold THEN "sendActive" ELSE "queue"
           /\ UNCHANGED <<at, taskCount, alarm, next>>
  <2>1. TypeOK'
    BY <1>1, <1>4, BoundsAssumption DEF Inv, TypeOK, counters, history
  <2>2. Pool' = Pool
    BY <1>4 DEF Pool
  <2>3. DaemonInv'
    BY <1>1, <1>4, <2>2 DEF Inv, DaemonInv
  <2>4. QED
    BY <1>1, <1>4, <2>1, <2>3, QuietStep DEF counters
<1>5. QED
  BY <1>2, <1>3, <1>4 DEF CheckActive

\* An alarm that is not about rejections.
LEMMA OtherAlarmStep ==
  ASSUME Inv, pc \notin {"sleep", "compose", "notify", "clear"},
         UNCHANGED <<counters, failures, history>>,
         NEW kind \in {"ACTIVE", "QUEUE_CAPACITY"}, NEW value \in Nat, Compose(kind, value)
  PROVE  Inv'
<1>1. /\ pc' = "notify" /\ UNCHANGED <<at, taskCount, active, next>>
      /\ alarm' = [kind |-> kind, value |-> value, shown |-> count[Pool]]
      /\ alarm' \in [kind : {"NONE", "ACTIVE", "QUEUE_CAPACITY", "REJECT"},
                     value : Nat, shown : Nat]
  BY ComposeEffect DEF Inv
<1>2. TypeOK'
  BY <1>1 DEF Inv, TypeOK, counters, history
<1>3. DaemonInv'
  BY <1>1 DEF DaemonInv
<1>4. QED
  BY <1>1, <1>2, <1>3, QuietStep DEF counters

LEMMA SendActiveStep == ASSUME Inv, SendActive PROVE Inv'
<1>1. PICK a \in ActiveCounts : Compose("ACTIVE", ActiveRate(a, Config[Pool].maximumPoolSize))
  BY DEF SendActive
<1>2. /\ pc = "sendActive" /\ UNCHANGED <<counters, failures, history>>
      /\ Config[Pool].maximumPoolSize # 0
  BY DEF SendActive, Inv, DaemonInv
<1>3. a \in Nat /\ Config[Pool].maximumPoolSize \in Nat
  BY <1>2, PoolType, BoundsAssumption, ConfigAssumption DEF Inv
<1>4. ActiveRate(a, Config[Pool].maximumPoolSize) \in Nat
  BY <1>2, <1>3, RateType
<1>5. QED
  BY <1>1, <1>2, <1>4, OtherAlarmStep

LEMMA CheckQueueStep == ASSUME Inv, CheckQueue PROVE Inv'
<1>1. pc = "queue" /\ UNCHANGED <<counters, failures, history>>
  BY DEF CheckQueue
<1>2. CASE Compose("QUEUE_CAPACITY", taskCount)
  <2>1. taskCount \in Nat
    BY DEF Inv, TypeOK
  <2>2. QED
    BY <1>1, <1>2, <2>1, OtherAlarmStep
<1>3. CASE pc' = "reject" /\ UNCHANGED locals
  <2>1. TypeOK'
    BY <1>1, <1>3 DEF Inv, TypeOK, counters, locals, history
  <2>2. DaemonInv'
    BY <1>1, <1>3 DEF Inv, DaemonInv, locals
  <2>3. QED
    BY <1>1, <1>3, <2>1, <2>2, QuietStep DEF counters
<1>4. QED
  BY <1>2, <1>3 DEF CheckQueue

LEMMA ReadRejectStep == ASSUME Inv, ReadReject PROVE Inv'
<1>1. pc = "reject" /\ UNCHANGED <<counters, failures, history>>
  BY DEF ReadReject
<1>2. CASE ~(count[Pool] > 0)
  <2>1. \A k \in Settled, p \in Pools : ~Told(k, p)
    BY <1>1 DEF Told
  <2>2. QED
    BY <1>1, <1>2, <2>1, LeavePoolStep DEF ReadReject, Inv, TypeOK
<1>3. CASE count[Pool] > 0
  <2>1. /\ alarm' = [kind |-> "REJECT", value |-> count[Pool], shown |-> 0]
        /\ pc' = "compose" /\ UNCHANGED <<at, taskCount, active, next>>
    BY <1>3 DEF ReadReject
  <2>2. count[Pool] \in Nat
    BY <1>1, PoolType DEF Inv, TypeOK
  <2>3. TypeOK'
    BY <1>1, <2>1, <2>2 DEF Inv, TypeOK, counters, history
  <2>4. DaemonInv' /\ HeadlineWithinIndicator'
    BY <1>1, <2>1 DEF Inv, DaemonInv, HeadlineWithinIndicator
  <2>5. \A p \in Pools : ~Reporting(p) /\ (Reporting(p)' <=> p = Pool)
    BY <1>1, <2>1 DEF Reporting, Pool
  <2>6. CounterInv'
    BY <1>1, <2>1, <2>2, <2>5 DEF CounterInv, counters
  <2>7. TellInv'
    BY <1>1, <2>1, <2>5 DEF Inv, TellInv, Told, counters, history
  <2>8. LossInv'
    BY <1>1, <2>1, <2>5 DEF Inv, LossInv, counters, history
  <2>9. QED
    BY <2>3, <2>4, <2>6, <2>7, <2>8 DEF Inv
<1>4. QED
  BY <1>2, <1>3

LEMMA SendRejectStep == ASSUME Inv, SendReject PROVE Inv'
<1>1. /\ pc = "compose" /\ alarm.kind = "REJECT" /\ alarm.value \in Nat
      /\ UNCHANGED <<counters, failures, history>>
  BY DEF SendReject, Inv, TypeOK, DaemonInv
<1>2. /\ pc' = "notify" /\ UNCHANGED <<at, taskCount, active, next>>
      /\ alarm' = [kind |-> "REJECT", value |-> alarm.value, shown |-> count[Pool]]
      /\ alarm' \in [kind : {"NONE", "ACTIVE", "QUEUE_CAPACITY", "REJECT"},
                     value : Nat, shown : Nat]
  BY <1>1, ComposeEffect DEF Inv, SendReject
<1>3. Pool' = Pool
  BY <1>2 DEF Pool
<1>4. \A p \in Pools : Reporting(p)' <=> Reporting(p)
  BY <1>1, <1>2, <1>3 DEF Reporting
<1>5. \A p \in Pools, k \in Settled : ~Told(k, p) /\ ~Told(k, p)'
  BY <1>1, <1>2, SettledProperties DEF Inv, DaemonInv, Told, Notifiers
<1>6. TypeOK'
  BY <1>1, <1>2 DEF Inv, TypeOK, counters, history
<1>7. DaemonInv'
  BY <1>2 DEF DaemonInv
<1>8. CounterInv'
  BY <1>1, <1>2, <1>4 DEF Inv, CounterInv, counters
<1>9. TellInv'
  BY <1>1, <1>5 DEF Inv, TellInv, counters, history
<1>10. LossInv'
  BY <1>1, <1>2, <1>4 DEF Inv, LossInv, counters, history
<1>11. HeadlineWithinIndicator'
  <2>1. Reporting(Pool) /\ Pool \in Pools
    BY <1>1, PoolType DEF Inv, Reporting
  <2>2. alarm.value <= count[Pool]
    BY <2>1 DEF Inv, CounterInv
  <2>3. QED
    BY <1>2, <2>2 DEF HeadlineWithinIndicator
<1>12. QED
  BY <1>6, <1>7, <1>8, <1>9, <1>10, <1>11 DEF Inv

LEMMA NotifyThrowsStep == ASSUME Inv, NotifyThrows PROVE Inv'
<1>1. /\ pc = "notify" /\ next \in Failing /\ failures' \in Nat
      /\ NextPool /\ UNCHANGED <<counters, history>>
  BY DEF NotifyThrows, Throw, Inv, TypeOK
<1>2. \A k \in Settled, p \in Pools : ~Told(k, p)
  <2> SUFFICES ASSUME NEW k \in Settled PROVE ~(k < next)
    BY <1>1 DEF Told
  <2>1. next <= k /\ next \in Int /\ k \in Int
    BY <1>1, SettledProperties, ListsAssumption DEF Inv, TypeOK, Notifiers
  <2>2. QED
    BY <2>1
<1>3. QED
  BY <1>1, <1>2, LeavePoolStep

LEMMA ClearStep == ASSUME Inv, Clear PROVE Inv'
<1>1. /\ pc = "clear" /\ alarm.kind = "REJECT" /\ Pool \in Pools
      /\ count' = [count EXCEPT ![Pool] = 0]
      /\ UNCHANGED <<failures, history>>
  BY PoolType DEF Clear, ClearRejectCount, Inv, DaemonInv
<1>2. /\ pc' \in {"size", "sleep"} /\ (pc' # "sleep" => at' \in DOMAIN PoolList)
      /\ (pc' = "sleep" => at' = 1)
      /\ at' \in Nat /\ taskCount' = 0 /\ active' = 0
      /\ alarm' = NoAlarm /\ next' = 1
      /\ NoAlarm \in [kind : {"NONE", "ACTIVE", "QUEUE_CAPACITY", "REJECT"},
                      value : Nat, shown : Nat]
      /\ 1 \in Notifiers
  BY <1>1, NextPoolEffect DEF Inv, Clear
<1>3. held' \in [Submitters -> {Nothing} \cup
                [state : {"live", "orphan"}, pool : Pools]]
  BY <1>1 DEF Clear, ClearRejectCount, Holding, Inv, TypeOK
<1>4. TypeOK'
  BY <1>1, <1>2, <1>3 DEF Inv, TypeOK, history
<1>5. DaemonInv' /\ HeadlineWithinIndicator'
  BY <1>2 DEF DaemonInv, HeadlineWithinIndicator, NoAlarm
<1>6. \A p \in Pools : ~Reporting(p)' /\ (Reporting(p) <=> p = Pool)
  BY <1>1, <1>2 DEF Reporting
<1>7. CounterInv'
  BY <1>6 DEF CounterInv
<1>8. TellInv'
  <2> SUFFICES ASSUME NEW k \in Settled, NEW p \in Pools
               PROVE  reported[k][p] + count'[p] <= rejected[p]
    BY <1>1, <1>6 DEF TellInv, Told, history
  <2>1. /\ reported[k][p] \in Nat /\ count[p] \in Nat /\ alarm.value \in Nat
        /\ rejected[p] \in Nat
    BY DEF Inv, TypeOK
  <2>2. reported[k][p] + (IF p = Pool THEN count[p] - alarm.value ELSE count[p])
          <= rejected[p]
    BY <1>1, <1>6 DEF Inv, TellInv, Told
  <2>3. p = Pool => alarm.value <= count[p]
    BY <1>6 DEF Inv, CounterInv
  <2>4. count'[p] = IF p = Pool THEN 0 ELSE count[p]
    BY <1>1 DEF Inv, TypeOK
  <2>5. QED
    BY <2>1, <2>2, <2>3, <2>4
<1>9. LossInv'
  <2> SUFFICES ASSUME NEW p \in Pools
               PROVE  rejected[p] <= reported[Last][p] + raced[p] + count'[p]
    BY <1>1, <1>6 DEF LossInv, history
  <2>1. rejected[p] <= reported[Last][p] + raced[p]
                         + (IF p = Pool THEN 0 ELSE count[p])
    BY <1>1, <1>6 DEF Inv, LossInv
  <2>2. count'[p] = IF p = Pool THEN 0 ELSE count[p]
    BY <1>1 DEF Inv, TypeOK
  <2>3. QED
    BY <2>1, <2>2
<1>10. QED
  BY <1>4, <1>5, <1>7, <1>8, <1>9 DEF Inv

\* A notifier is told of an alarm that is not about rejections.
LEMMA NotifyOtherStep == ASSUME Inv, Notify, alarm.kind # "REJECT" PROVE Inv'
<1>1. /\ pc = "notify" /\ alarm.kind \in {"ACTIVE", "QUEUE_CAPACITY"}
      /\ reported' = reported
      /\ UNCHANGED <<counters, at, taskCount, active, failures, rejected, raced>>
  BY DEF Notify, Inv, TypeOK, DaemonInv
<1>2. CASE next < Last
  <2>1. next' = next + 1 /\ UNCHANGED <<pc, alarm>>
    BY <1>2 DEF Notify
  <2>2. next' \in Notifiers
    BY <1>2, <2>1, ListsAssumption DEF Inv, TypeOK, Notifiers
  <2>3. TypeOK'
    BY <1>1, <2>1, <2>2 DEF Inv, TypeOK, counters
  <2>4. DaemonInv'
    BY <1>1, <2>1 DEF Inv, DaemonInv
  <2>5. QED
    BY <1>1, <2>1, <2>3, <2>4, QuietStep DEF counters, history
<1>3. CASE ~(next < Last)
  <2>1. next' = 1 /\ pc' \in {"queue", "reject"} /\ alarm' = NoAlarm
    BY <1>1, <1>3 DEF Notify, AfterAlarm
  <2>2. /\ NoAlarm \in [kind : {"NONE", "ACTIVE", "QUEUE_CAPACITY", "REJECT"},
                        value : Nat, shown : Nat]
        /\ 1 \in Notifiers
    BY ListsAssumption DEF NoAlarm, Notifiers
  <2>3. TypeOK'
    BY <1>1, <2>1, <2>2 DEF Inv, TypeOK, counters
  <2>4. DaemonInv'
    BY <2>1 DEF DaemonInv
  <2>5. QED
    BY <1>1, <2>1, <2>3, <2>4, QuietStep DEF counters, history
<1>4. QED
  BY <1>2, <1>3

\* A notifier is told of the rejections of a pool.
LEMMA NotifyRejectStep == ASSUME Inv, Notify, alarm.kind = "REJECT" PROVE Inv'
<1>1. /\ pc = "notify" /\ Pool \in Pools /\ next \in Notifiers /\ alarm.value \in Nat
      /\ reported' = IF next \in Settled
                     THEN [reported EXCEPT ![next][Pool] = @ + alarm.value]
                     ELSE reported
      /\ UNCHANGED <<counters, at, taskCount, active, failures, rejected, raced>>
  BY PoolType DEF Notify, Inv, TypeOK
<1>2. /\ alarm' = alarm /\ next' \in Notifiers
      /\ \/ next < Last /\ pc' = "notify" /\ next' = next + 1
         \/ next = Last /\ pc' = "clear" /\ next' = 1
  <2>1. next \in 1..Last /\ Last \in Nat /\ Last # 0
    BY <1>1, ListsAssumption DEF Notifiers
  <2>2. CASE next < Last
    BY <1>1, <2>1, <2>2 DEF Notify, Notifiers
  <2>3. CASE ~(next < Last)
    <3>1. next = Last
      BY <2>1, <2>3
    <3>2. next' = 1 /\ pc' = "clear" /\ alarm' = alarm
      BY <2>3 DEF Notify, AfterAlarm
    <3>3. QED
      BY <2>1, <3>1, <3>2 DEF Notifiers
  <2>4. QED
    BY <2>2, <2>3
<1>3. /\ reported' \in [Settled -> [Pools -> Nat]]
      /\ \A k \in Settled, p \in Pools :
           reported'[k][p] = reported[k][p] + (IF k = next /\ p = Pool THEN alarm.value ELSE 0)
  <2>1. reported \in [Settled -> [Pools -> Nat]]
    BY DEF Inv, TypeOK
  <2>2. CASE next \in Settled
    BY <1>1, <2>1, <2>2
  <2>3. CASE next \notin Settled
    BY <1>1, <2>1, <2>3
  <2>4. QED
    BY <2>2, <2>3
<1>4. TypeOK'
  BY <1>1, <1>2, <1>3 DEF Inv, TypeOK, counters
<1>5. DaemonInv' /\ HeadlineWithinIndicator'
  BY <1>1, <1>2 DEF Inv, DaemonInv, HeadlineWithinIndicator
<1>6. \A p \in Pools : /\ Reporting(p) <=> p = Pool
                       /\ Reporting(p)' <=> p = Pool
  BY <1>1, <1>2 DEF Reporting, Pool
<1>7. CounterInv'
  BY <1>1, <1>2, <1>6 DEF Inv, CounterInv, counters
<1>8. TellInv'
  <2> SUFFICES ASSUME NEW k \in Settled, NEW p \in Pools
               PROVE  reported'[k][p] + (IF Told(k, p)' THEN count[p] - alarm.value
                                                        ELSE count[p]) <= rejected[p]
    BY <1>1, <1>2 DEF TellInv, counters
  <2>1. /\ reported[k][p] \in Nat /\ count[p] \in Nat /\ alarm.value \in Nat
        /\ rejected[p] \in Nat
    BY DEF Inv, TypeOK
  <2>2. reported[k][p] + (IF Told(k, p) THEN count[p] - alarm.value ELSE count[p])
          <= rejected[p]
    BY DEF Inv, TellInv
  <2>3. k \in 1..Last /\ next \in 1..Last /\ Last \in Nat
    BY <1>1, SettledProperties, ListsAssumption DEF Notifiers
  <2>4. Told(k, p)' <=> p = Pool /\ (k < next \/ k = next)
    BY <1>2, <1>6, <2>3 DEF Told
  <2>5. Told(k, p) <=> p = Pool /\ k < next
    BY <1>1, <1>6 DEF Told
  <2>6. QED
    BY <1>3, <2>1, <2>2, <2>3, <2>4, <2>5
<1>9. LossInv'
  <2> SUFFICES ASSUME NEW p \in Pools
               PROVE  rejected[p] <= reported'[Last][p] + raced[p]
                        + (IF p = Pool THEN IF pc' = "clear" THEN 0 ELSE alarm.value
                                       ELSE count[p])
    BY <1>1, <1>2, <1>6 DEF LossInv, counters
  <2>1. /\ reported[Last][p] \in Nat /\ count[p] \in Nat /\ alarm.value \in Nat
        /\ rejected[p] \in Nat /\ raced[p] \in Nat
    BY SettledProperties DEF Inv, TypeOK
  <2>2. rejected[p] <= reported[Last][p] + raced[p]
                         + (IF p = Pool THEN alarm.value ELSE count[p])
    BY <1>1, <1>6 DEF Inv, LossInv
  <2>3. reported'[Last][p] = reported[Last][p]
                              + (IF pc' = "clear" /\ p = Pool THEN alarm.value ELSE 0)
    <3>1. reported'[Last][p] = reported[Last][p]
                                + (IF Last = next /\ p = Pool THEN alarm.value ELSE 0)
      BY <1>3, SettledProperties
    <3>2. Last = next <=> pc' = "clear"
      BY <1>1, <1>2, ListsAssumption DEF Notifiers
    <3>3. QED
      BY <3>1, <3>2
  <2>4. QED
    BY <2>1, <2>2, <2>3
<1>10. QED
  BY <1>4, <1>5, <1>7, <1>8, <1>9 DEF Inv

-----------------------------------------------------------------------------

LEMMA NextInv == Inv /\ [Next]_vars => Inv'
<1> SUFFICES ASSUME Inv, [Next]_vars PROVE Inv'
  OBVIOUS
<1>1. ASSUME NEW s \in Submitters, PutIfAbsent(s) \/ IncrementAndGet(s) PROVE Inv'
  BY <1>1, PutIfAbsentStep, IncrementAndGetStep
<1>2. CASE Notify
  BY <1>2, NotifyOtherStep, NotifyRejectStep
<1>3. CASE AlarmDaemon
  BY <1>2, <1>3, WakeStep, ReadQueueSizeStep, CheckActiveStep, SendActiveStep,
     CheckQueueStep, ReadRejectStep, SendRejectStep, NotifyThrowsStep, ClearStep
     DEF AlarmDaemon
<1>4. CASE UNCHANGED vars
  <2>1. UNCHANGED <<count, held, pc, at, taskCount, active, alarm, next, failures,
                    rejected, raced, reported>>
    BY <1>4 DEF vars, counters, locals, history
  <2>2. TypeOK' /\ CounterInv' /\ TellInv' /\ LossInv'
    BY <2>1, DaemonStands
      DEF Inv, TypeOK, CounterInv, TellInv, LossInv, locals
  <2>3. QED
    BY <2>1, <2>2, DaemonStands DEF Inv, locals
<1>5. QED
  BY <1>1, <1>3, <1>4 DEF Next

LEMMA Invariance == Spec => []Inv
BY InitInv, NextInv, PTL DEF Spec

\* Every variable of the alarm keeps its type: no counter becomes negative, the
\* daemon never runs past its lists, and the rate it sends is a number.
THEOREM TypeCorrectness == Spec => []TypeOK
<1>1. Inv => TypeOK
  BY DEF Inv
<1>2. QED
  BY Invariance, <1>1, PTL

\* No rejection is reported twice to a notifier after which none can throw.
THEOREM RejectionsAreReportedOnce == Spec => []NeverOvercounts
<1>1. Inv => NeverOvercounts
  <2> SUFFICES ASSUME Inv, NEW k \in Settled, NEW p \in Pools
               PROVE  reported[k][p] <= rejected[p]
    BY DEF NeverOvercounts
  <2>1. /\ reported[k][p] \in Nat /\ count[p] \in Nat /\ alarm.value \in Nat
        /\ rejected[p] \in Nat
    BY DEF Inv, TypeOK
  <2>2. Told(k, p) => alarm.value <= count[p]
    BY DEF Inv, CounterInv, Told
  <2>3. reported[k][p] + (IF Told(k, p) THEN count[p] - alarm.value ELSE count[p])
          <= rejected[p]
    BY DEF Inv, TellInv
  <2>4. QED
    BY <2>1, <2>2, <2>3
<1>2. QED
  BY Invariance, <1>1, PTL

\* A rejection that did not race with a report of its pool is in the counter
\* or was reported to the last notifier, whichever notifiers throw and when.
THEOREM OnlyRacesAreForgotten == Spec => []ForgetsOnlyRaces
<1>1. Inv => ForgetsOnlyRaces
  <2> SUFFICES ASSUME Inv, NEW p \in Pools
               PROVE  rejected[p] <= reported[Last][p] + Outstanding(p) + raced[p]
    BY DEF ForgetsOnlyRaces
  <2>1. /\ reported[Last][p] \in Nat /\ count[p] \in Nat /\ alarm.value \in Nat
        /\ rejected[p] \in Nat /\ raced[p] \in Nat
    BY SettledProperties DEF Inv, TypeOK
  <2>2. Reporting(p) => alarm.value <= count[p]
    BY DEF Inv, CounterInv
  <2>3. rejected[p] <= reported[Last][p] + raced[p]
                        + (IF Reporting(p)
                           THEN IF pc = "clear" THEN 0 ELSE alarm.value
                           ELSE count[p])
    BY DEF Inv, LossInv
  <2>4. pc = "clear" => (Reporting(p) <=> Pool = p)
    BY DEF Inv, DaemonInv, Reporting
  <2>5. CASE pc = "clear"
    BY <2>1, <2>2, <2>3, <2>4, <2>5 DEF Outstanding
  <2>6. CASE pc # "clear"
    BY <2>1, <2>2, <2>3, <2>6 DEF Outstanding
  <2>7. QED
    BY <2>5, <2>6
<1>2. QED
  BY Invariance, <1>1, PTL

\* The indicator in a rejection alarm is never behind the alarm's headline.
THEOREM HeadlinesAreWithinIndicators == Spec => []HeadlineWithinIndicator
<1>1. Inv => HeadlineWithinIndicator
  BY DEF Inv
<1>2. QED
  BY Invariance, <1>1, PTL
=============================================================================
