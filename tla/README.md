# A verification project for dynamic-thread-pool

dynamic-thread-pool wraps `java.util.concurrent.ThreadPoolExecutor` in a Spring
Boot starter: pools are declared in a Nacos configuration, resized while they
run when that configuration changes, watched by an alarm daemon, registered in a
database, and edited from a management console.  This directory holds TLA+
models of its concurrent parts, the TLC configurations that check them, and
TLAPS proofs.  Paths below are relative to `src/`; class names are enough to
find a file.

## 1. The system

| Component | State | Operations | Talks to |
|---|---|---|---|
| `ResizableCapacityLinkedBlockingQueue` | linked nodes, `count`, volatile `capacity`, `putLock`, `takeLock` | put, offer (timed or not), take, poll (timed or not), peek, drainTo, remove, contains, toArray, clear, iterators, `setCapacity` | submitters and workers of a pool; the configuration listener |
| `DynamicThreadPoolManager` | `THREAD_POOL_EXECUTOR_MAP` (concurrent), `THREAD_POOL_PROPERTIES_MAP` (plain `HashMap`), `appInstanceId` | `init`, `refreshThreadPoolExecutor`, lookups, `handle(Signal)` | executors, database service, indicator thread |
| `NacosConfigChangeListener`, `DynamicThreadPoolProperties` | the bound properties, its executor list refilled in place | `receiveConfigInfo` = `refreshYaml`, sleep, `refreshThreadPoolExecutor` | Nacos, manager; the daemon reads the list |
| `ThreadPoolIndicator`, `core/rejected/*` | one `AtomicLong` per pool in a concurrent map | increment, read, clear | rejecting threads, alarm daemon, indicator thread |
| `DynamicThreadPoolAlarm` | list of notifiers; a daemon thread | one pass over the pools per interval; send to each notifier | counters, executors, notifiers |
| `DynamicThreadPoolExecutor`, `LruHashMap` | a JDK pool; task names by class in an access-ordered map without a lock | execute, submit | queue, rejection policies |
| `PoolIndicatorNotifyThread` | none | every 5 s hand a snapshot of every pool to the listeners | manager, database |
| `DynamicThreadPoolMySqlServiceImpl`, `...MongoServiceImpl` | rows: application, instance, pool, alarm | register, `shutDown`, indicators, alarm records | registration thread, signal handler, console |
| `DynamicThreadPoolManageServiceImpl`, `NacosConfigServiceFactory` | cache of Nacos clients | `updateDynamicThreadPoolInfo`: read the instance row, publish YAML, write the pool row | Nacos, database |

What is hard: the queue synchronises with two locks, an atomic counter and a
capacity that changes under neither; the alarm daemon reads, sends and clears a
counter others increment; a configuration change rewrites a list that daemons
iterate over and reconfigures pools one setter at a time, any of which may
throw; registration, signals and restarts meet in the database; the console
publishes from a snapshot it never refreshes.

What makes each correct: the queue is a bounded FIFO queue that loses no wake-up
and never deadlocks; a rejection is reported once and not forgotten; after a
refresh every pool runs with the configuration that was read; the database says
RUNNING of what runs; an edit from the console keeps the others.

## 2. Plan

In this order, the most important behaviour first:

1. `ResizableQueue` and its proofs (done), then the theorems that need a
   capacity (done, `ResizableQueueBoundProofs`).
2. `BoundedQueue` and `ResizableQueueRefinement` (done), and the proof of the
   refinement (done, `ResizableQueueRefinementProofs`).
3. `RejectAlarm` and its proofs (done): counters, rejecting threads, daemon,
   failing notifiers, the threshold arithmetic.
4. `ConfigRefresh` (done): listener, bind in place, pools reconfigured setter by
   setter, the daemon iterating meanwhile, crash and restart; `AtomicRefresh`,
   what it implements.
5. `ThreadPool` (done): submitters, workers and rejection policies over the
   queue, with the JDK executor as an external part.
6. `Management` (done): registration, indicators, signals, crash and restart in
   the database, and the console's edits.
7. `ConfigRefreshProofs` (done): what a completed call of the listener leaves, and
   that it is one step of `AtomicRefresh`.
8. `ManagementProofs` (done): what the database says of the processes.
9. `ThreadPoolProofs` (done): where tasks are, who runs them, what is counted.
10. Left: the queue's linked nodes and its iterator.

## 3. Modules

### ResizableQueue

The variables are the fields: `items` is the list from `head.next` to `last`,
`count`, `capacity`, and the owners of the two locks.  Each thread executes one
call at a time, `pc[t]` says where it is in it, and `c`, `n` and `hand` are the
method's local variables (`expired` collects the timed calls whose `nanos` has
run out).

**Granularity.** A step contains at most one access to something the locks held
do not protect: reading `count` or `capacity` or updating `count`, and taking a
lock.  Acquiring a lock moves right over what follows it and releasing one moves
left, so grouping them with their neighbours hides no behaviour.  The guard of a
wait loop is thus two steps (`PutLock` reads `count`, then `Enqueue`, `PutAwait`
or `PutRefuse` read `capacity`), as are the comparisons after an unlock.

**Conditions.** The wait set of `notEmpty` (`notFull`) is the set of threads at
`takeWait` (`putWait`); `signal()` moves one of them, whichever, to the label
where it reacquires the lock.  AQS moves the one that waited longest, so
this has more behaviours than the code, and what holds of it holds of the code.
Timeouts (`TimedWaitEnds`) and interrupts (`Interrupt`) can strike any waiting
thread.

**setCapacity** is one write, at any moment, of any value of `Capacities`: it
takes no lock, wakes no one and validates nothing.

Code to actions: put and the two offers are `OfferRead`, `OfferTest`, `PutLock`,
`Enqueue`/`PutAwait`/`PutRefuse`, `Increment`, `SignalMore`, `SignalNotEmpty`;
take and the two polls `PollTest`, `TakeLock`, `Dequeue`/`TakeAwait`/
`TakeRefuse`, `Decrement`, `TakeCompare`, `SignalNotFull`; peek ends in
`PeekRead`; drainTo is `TakeLock`, `Drain`, `DrainCount`, `DrainCompare`; remove,
contains/toArray and clear are `FullPutLock`, `FullTakeLock`, then `RemoveItem`,
`FullRead` or `Clear`, then `FullCompare`.

The definitions whose comment begins "Mutant" are the faulty variants used to
show that a property notices a mistake.  They take no part in the specification.

### BoundedQueue, ResizableQueueRefinement

`BoundedQueue` is what a caller is promised: a FIFO buffer of fixed capacity
on which every call acts at one instant between its invocation and its return.
`ResizableQueueRefinement` maps the code to it: the buffer is the counted part
of the list, an insertion acts when `count` is incremented, a removal when it is
decremented, and a refusal when the value of `count` that leads to it is read.
`Linearizable` is the abstract specification under that mapping.  `peek` is left
out: it does not read `count` under `takeLock`, so it may return an element that
is linked and not counted yet, which is harmless and not in the abstract buffer.
The capacity is fixed, because the abstract queue has no counterpart of an
insertion above the capacity.

### ResizableQueueProofs, ResizableQueueBoundProofs, ResizableQueueRefinementProofs

The theorems; see section 5.  `NumbersAndLists` has the lemmas about sets of
numbers, finite sets and sequences that the proofs of several components cite.

### RejectAlarm, RejectAlarmProofs

The counters of `ThreadPoolIndicator`, the threads that increment them in the
rejection policies, and `AlarmDaemonThread`, which every interval looks at each
configured pool: at its active threads, at its queue, and at its rejections,
which it reports to every notifier and then clears.

| Code | Model |
|---|---|
| `THREAD_POOL_EXECUTOR_REJECT_COUNT_MAP` | `count`; an absent `AtomicLong` is 0 |
| `incrRejectCount`: `putIfAbsent`, then `incrementAndGet` | `PutIfAbsent(s)`, `IncrementAndGet(s)` |
| the `AtomicLong` a thread got from `putIfAbsent` | `held[s]`, which becomes an orphan when `clearRejectCount` removes it from the map |
| `run`, per pool | `ReadQueueSize`, `CheckActive`, `CheckQueue`, `ReadReject`, `Clear`; `NextPool` ends the work on a pool |
| `sendActiveThresholdMessage`, `sendRejectAlarmMessage` | `SendActive`, `SendReject` |
| `alarmNotify` over the notifiers | one `Notify` or `NotifyThrows` per notifier |
| `catch (Exception)` inside the loop | `Throw`, which goes on to the next pool |

`rejected`, `raced` and `reported` are history variables: what was counted, what
was counted while the daemon reported on that pool or on an orphan, and what each
notifier was told.  A notifier after which none can throw is *settled*: only
such a one is told of every rejection once, since the daemon starts again from
the first notifier after an exception.  The default notifier, the last, catches
its own failures, so "reported" means that it was told, not that a message was
delivered.  The active threads and the queued tasks belong to the JDK executor
and are any of a set of values each time they are read.  The list of pools does
not change here; what a configuration change does to the daemon's iteration is
in `ConfigRefresh`.

### PoolSettings, AtomicRefresh, ConfigRefresh, ConfigRefreshProofs

`PoolSettings` says what a configuration is and which settings the constructors
and the setters of an executor accept (`ConstructorRefuses`, `SetterRefuses`,
`SetterApplies`): the JDK's checks, as Java 8 makes them.  `ConfigRefresh` is the
way of a published configuration to the pools.

| Code | Model |
|---|---|
| `dynamic.threadpools.executors`, bound to `DynamicThreadPoolProperties` | `executors` |
| `THREAD_POOL_EXECUTOR_MAP`, `THREAD_POOL_PROPERTIES_MAP` | `pools`, `props` |
| `init`, then the registration of the listener | `Start`; which content the client takes to be known is either |
| the Nacos client calls the listener | `Deliver`, when the published content is not the one it last returned from |
| `refreshYaml`: the binder clears the bean's list, fills it, sets a copy | `ClearList`, `AddAll`, `SetExecutors` |
| `refreshThreadPoolExecutor(true)`, per entry | `BeginEntry` (the properties map first), `SetterReturns` or `SetterThrows` for each setter in order, `NextEntry` |
| normal return; an exception, which the client logs | `Return`; `Abort` |
| `AlarmDaemonThread.run`'s `forEach` over the bean's list | `BeginPass`, `Look`, `EndPass`, `ModificationNoticed` |

The Nacos client and Spring's binder are external: that a content published
during a call is delivered after it, that a call that throws is repeated while
the content stays published, and that a content equal to the last one a call
returned from is not delivered, is how they behave towards this code.
`settled` and `outcome` are history: the pools when no call is under way, and how
the last call ended.  `AtomicRefresh` is the promise, one step per content:
`Reached` says which entries are looked at, `Giving` which of them give a setting of a
pool a value, and the latest of these values stays.  `RefreshIsAtomic` says that
`ConfigRefresh` implements it with `settled` for its pools, the partial effect of
a refused content included.

### ThreadPool, ThreadPoolProofs

`execute`, the workers and the setters are inherited from
`java.util.concurrent.ThreadPoolExecutor`, which is external and modelled one
access to `ctl`, the queue or a setting at a time, because the repository's own
code runs in between: the policies in `core/rejected/*`, one of which calls
`execute` again, and `refreshThreadPoolExecutor`, which changes four settings one
after the other.

| Code | Model |
|---|---|
| `execute` | `Submit`, `AddCoreWorker` or `CoreFull`, `Offer`, `Recheck`, `AddWorker` |
| `CxmAbortPolicy`, `CxmDiscardPolicy`, `CxmDiscardOldestPolicy`, the JDK's `CallerRunsPolicy` | `Abort`, `Discard`, `DiscardOldest` and `CountAndReturn`, `CallerRuns` and `Run` |
| the recursion of `CxmDiscardOldestPolicy` | `depth`, the number of its calls a thread is in |
| `runWorker`, `getTask`, `processWorkerExit` | `Take`, `Finish`, `Decide`, `Leave`, `LeaveAtShutdown`, `Exit` |
| `setCorePoolSize`, `setMaximumPoolSize`, `setRejectedExecutionHandler`, `setCapacity` | `SetCore` and `Prestart`, `SetMax`, `SetPolicy`, `SetCapacity` |

Workers are alike, so they are numbers, except that a running task is known.  The
queue is one atomic queue with a capacity; that
`ResizableCapacityLinkedBlockingQueue` is one is what `queue_linear` and
`queue_resize` show.  A rejected task goes to the handler that is in force by then.

### Management, ManagementProofs

The life of the processes of one application in MySQL, with the console.

| Code | Model |
|---|---|
| `application_instance_info`, `dynamic_thread_pool_info` | `instance` (one row per host), `rows` (a row's identifier is its place) |
| `PersistThreadPoolThread.run`, `insertInstanceInfo`, `insertThreadPoolByBatch` | `RegisterBegin`, `SelectInstance`, `UpdateInstance` or `InsertInstance`, `SelectRows`, `InsertRow`, `UpdateRows`; `SelectRowsThrows` when `Collectors.toMap` throws, `RegisterFails` when a statement does |
| the JSON made at line 292, the entities made at line 306 | `copy` |
| `dynamicThreadPoolInfoMap`, `resultMap` | `found`, the pools whose rows were selected, and `ids`, the identifiers of rows found or inserted |
| the loop over `dynamicThreadPoolInfoList` | `todo`, the entries still to be inserted: those of pools that are not in `found` |
| `appInstanceId`, `threadPoolId` | `instanceId`, `poolIds` |
| `handle(Signal)` and `shutDown` | `Signal`, `ShutDownInstance`, `ShutDownRows`, `Exit`; `ShutDownFails` |
| `indicatorNotify` | `Indicate` |
| `updateDynamicThreadPoolInfo` | `EditBegin`, `EditPublish` or `EditNotPublished`, `EditRow` or `EditRowFails` |

`PoolList` is the list of entries by the names of their pools, any list: entries
without a name share the default one (`ThreadPoolProperties.java:20`), so a list may
name a pool twice.  `init` creates such a pool from its first entry (`First`); the
registration inserts a row for each of its entries and the executor gets the identifier
of the last (`Final`).  The selected map is not updated while rows are inserted, which is
why `todo` does not shrink by the other entries of a pool that has just got its row.
`told` is history: whether a process was registered, or knew the identifier of its
instance, when its last signal came.  A handler whose statement fails leaves the
process running (`term` is `failed`); another signal makes it run again.

A row has its status and one number for the settings.  An update of an entity in
which only the status or the indicator was set writes the zeros of the primitive
fields too, since MyBatis-Plus leaves out nulls only: `WithStatus` and
`Indicate` therefore reset the number, and a form filled from such a row may
publish 0, with which no process starts.

## 4. What TLC checks

| Run | Instance | Shows |
|---|---|---|
| `queue_fixed` | 3 threads, every operation, capacity 2, symmetric threads | type, locks, counter and list, capacity bound, no lost wake-up on either condition, no deadlock on the locks |
| `queue_resize` | 3 threads, the operations an executor uses, capacity moving among 0, 1 and 2 | the largest capacity bounds the queue, no taker is stranded |
| `queue_linear` | 2 threads, all operations but peek, capacity 2, 2 elements, weak fairness of each thread's steps | refinement of `BoundedQueue`; takers and putters that could be served are |
| `alarm` | 2 rejecting threads, 4 pools, 3 notifiers of which 2 may throw | no rejection is reported twice, only those that raced with an alarm are forgotten, the headline never exceeds the indicator, and the rejections of every healthy pool are eventually reported |
| `refresh` | 6 configurations, 2 publications, 1 crash, the daemon iterating | a completed call leaves every pool with its settings, a taken configuration can be restarted with and restarting with it changes nothing, a call has the effect of one step, a published configuration comes into force and is read by the daemon |
| `pool` | 2 submitters, 3 tasks, 1 refresh to any of 6 configurations, shutdown at any moment | no task is lost or run after it was dropped, drops are counted, a queued task has a worker, the recursion of a policy is bounded, every task ends and excess workers go |
| `management` | three entries of which two are of one pool; a host that crashes or is told to stop twice, next to one that runs on; a failed statement, the indicators and an edit | a registered process and its rows are RUNNING whatever failed before, a stopped one has recorded what it knew, no more rows than entries, identifiers of the right rows, registration and shutdown complete |
| `alarm_rate` | a pool of 10 threads, threshold 80 | **violated**: 9 active threads raise no alarm |
| `refresh_rollback` | 3 configurations, one refused | **violated**: the previous configuration, published again after a refused one, is not applied |
| `refresh_daemon` | the same | **violated**: the alarm daemon dies of the listener's change to the list it iterates over |
| `management_again` | two entries of one pool, one crash or signal | **violated**: an application that registered once cannot register again |
| `management_lost` | one process, 2 edits of two pools | **violated**: the second edit takes the first one back |

**Bounds.** `MaxItems` stops new insertions once the list is that long; it is
above the capacity, so that a queue over its capacity can be seen.  Three
threads give every pair of opposing operations with a third one that waits or
signals; capacities 1 and 2 make empty, full and in-between states distinct, 0
is what a configuration may set.  One element suffices where identity does not
matter; the refinement uses two so that order shows, and two threads, one on each
side of the queue or both on one.  Liveness is checked on these two threads too, with
every operation that can free a place or fill one; that a wake-up is passed on among
several waiting threads is what `NoStrandedTaker` and `NoStrandedPutter` say, with three
threads in `queue_fixed` and for any number in the theorems.

In `RejectAlarm`, `MaxRejections` bounds the rejections of all pools together: three make one that
is reported, one that arrives during the report and one on an orphan.
`MaxFailures` bounds the exceptions of notifiers: two let each throwing
notifier fail, or one fail twice.  The four pools are one whose maximum was
configured as 0, so that its check divides by zero in every pass, one that is not
watched, one with every alarm and one with the rejection alarm only; the faulty
one comes first.

In `ConfigRefresh` the six configurations change values and the order of the pools, name a pool
twice, have a maximum below the core size, have a negative keep-alive time, and
name a pool that does not exist.  Two publications (`MaxPublishes`) after the
first content give a refused one between two good ones, and the same one again;
one crash (`MaxCrashes`) meets any step.

In `ThreadPool` three tasks (`MaxTasks`) fill a queue of 2 with a worker running
one, or let a policy that dropped one be overtaken; the configurations cover
every policy, core size and maximum raised and lowered, a new core size above the
old maximum, a maximum that is refused and a capacity below what is queued.
Capacities are positive there: with 0, which `setCapacity` accepts,
`CxmDiscardOldestPolicy` recurses without end once the pool is at its maximum.
One refresh (`MaxRefreshes`) meets every state; its first setting is one of small
workers and a long queue, from which every other configuration is a change.

In `Management` two stops (`MaxStops`) are a crash while registering and another
one, or a signal, while registering again; one failed call (`MaxFailures`), one
edit (`MaxEdits`) and one positive setting (`MaxValue`) suffice for the
properties of the run, which compare statuses and identifiers; `management_lost`
has two of each that it is about.  The list of the run names one of two pools twice,
with the other in between, so that a registration can be cut short before, between and
after the two rows of one pool.

**Fairness.** `FairSpec` lets each thread that is inside a call take its next
step if it stays possible (weak fairness of `Step(t)`): threads are
scheduled, and critical sections end.  Nothing obliges a thread to call,
a wait to time out, or anyone to resize the queue.  `ReentrantLock` is
unfair, so liveness is stated for a condition that persists, not for a fixed
waiter against a stream of overtakers.  In `RejectAlarm` the daemon is scheduled
and its sleep ends (weak fairness of `AlarmDaemon`).  No rejection is obliged to
happen; that notifiers stop throwing follows from `MaxFailures` and is the
hypothesis under which the code can report anything.
In `ConfigRefresh` the client's threads and the daemon are scheduled (weak fairness of
`Listener` and of `Daemon`); nobody is obliged to publish, to crash or to start.
In `ThreadPool` fairness is that of `System` as a whole: some thread that
can go on does, which no scheduler can do without; calls and tasks end because there is
nothing left to do, not because a thread is favoured.  In `Management` the
registration thread and the signal handler of each process are scheduled; the
indicators, refreshes, failures and users are not obliged to anything.

**Deadlock** is checked for the queue and the alarm.  The other systems may stop: bounds end
publications and edits, and a pool at rest does nothing.

**Findings.** Each is a violated run.

- `alarm_rate`: the active rate is an integer quotient taken before it is
  multiplied by 100, so it is 0 below the maximum and the threshold has no effect.
- `refresh_rollback`: a refused content leaves its first settings in force; the
  content published before it is the one the client remembers, so
  publishing that one again calls nobody.
- `refresh_daemon`: `forEach` throws `ConcurrentModificationException` outside the
  loop's `try`, and the alarm thread ends for good.
- `management_again`: `insertThreadPoolByBatch` does not notice that an earlier entry of
  the list has just inserted the row of the same pool, and `Collectors.toMap` does
  not take two rows of one name: a list that names a pool twice, such as one with two
  entries without a name, registers once and then never again.
- `management_lost`: the console publishes the list that was stored when the
  instance first registered, with one entry replaced.

Limits that the models show and the properties allow for: `put` and the timed
`offer` test `count.get() == capacity`, so that after `setCapacity` shrinks below
the size they insert without waiting (a `ThreadPoolExecutor` uses only the untimed
`offer`, which tests `<`: `queue_resize` and the theorem
`CapacityBoundsTheQueue`); `setCapacity` signals nobody when it raises the
capacity, so that a waiting `put` stays asleep until something else signals; and
the alarm daemon removes from its map whatever was counted while it was sending
its alarm, which is what `ForgetsOnlyRaces` excepts.

## 5. What is proved

**`ResizableQueueProofs`**, for every set of threads, elements, capacities
and operations, with setCapacity and interrupts at any moment, from the
assumptions that `NoThread` is no thread and that capacities are integers, one
of them positive.

`Inv` is the inductive invariant, in four named parts: `TypeOK`; `LockInv`, the
owners of the locks; `LabelInv`, which operation can be at each label and what
it then holds (one element when it inserts or has taken one); `CountInv`,
`CountTracksItems` split by who is in progress, with `CountedItemsPresent`.
None of the stated properties is inductive alone: that `dequeue` finds a node
needs the count to be exact, which needs that only one thread is between the
list and the counter on each side, which needs the locks.  The steps fall into
classes (insertions, removals, under both locks, counter updates, steps that
leave list and count alone), with a lemma for each.

Theorems: `TypeCorrectness`, `MutualExclusion`, `CountIsExact`,
`CountedItemsStay`, `SnapshotsAreExact`, `LocksDoNotDeadlock` and
`TakersAreNotStranded`, the last from `Inv` by a case split on the step: a
signal that is consumed leaves its thread with the duty to take or to pass it on.

**`ResizableQueueBoundProofs`** adds `CapacityBoundsTheQueue` (`WithinCapacity`), if
the capacity is never changed (`NeverResized`) or nothing but the untimed offer
inserts (`OnlyOffers`, what an executor does), and `PuttersAreNotStranded`
(`NoStrandedPutter`), if it is never changed: the two hypotheses are exactly the
instances of `queue_fixed` and `queue_resize`, and the limits above show that
they are needed.  `BoundInv` is what makes them inductive: an insertion in
progress is counted in advance, and what the owner of `putLock` read of `count`
bounds it, since only removals can have changed it.

**`ResizableQueueRefinementProofs`** proves that the queue implements the abstract one
(`QueueIsLinearizable`), for every set of threads, elements and operations,
interrupts and timeouts at any moment, from two more assumptions: the
capacity is the only one (`FixedCapacity`), because the abstract queue has no
insertion above its capacity, and no call is a `peek` (`NoPeek`), which may return an
element that is not counted yet.  The invariant is `RefInv`: `Inv`, `BoundInv`
and `ShapeInv`, which says what a call holds before it takes effect and that
the element not counted in yet is the last of the list.  The abstract
buffer is what a removal in progress holds, followed by the counted part of the
list (`BufferInv`), and for each way in which a step changes list and count a lemma
says what becomes of it: linking a node or unlinking one leaves it alone, and
counting appends to it or drops from its head.  Then each step of the code is one
abstract step or none: an insertion acts at `Increment`, a removal at `Decrement` or
`DrainCount`, `remove`, `clear` and the copies under both locks, and a refusal at
the read of `count`, which `BoundInv` relates to the capacity.

**`ThreadPoolProofs`**, for any submitting threads, tasks, refreshes and shutdowns, from
the assumptions that configurations are finitely many, have a core size, a maximum
above 0 and a capacity, that `None` is not one of them, and that the first is
one the constructor accepts.  (Finitely many, so that there is a largest size, which
bounds the workers: a worker about to leave is numbered by it.)  `Inv` is `TypeOK` with `CountInv`, the number
of workers against that size, and `CallsInv`, what a thread has at each label.

| Theorem | Strengthening | Why it is needed |
|---|---|---|
| `TasksAreConserved` | `TaskInv`, the property in terms of places and holders (`OnePlace`) | inductive with `Inv`, which says at which labels a submitter still holds its task; a lemma for each kind of move |
| `DropsAreCounted` | `DropInv`: the calls of the discarding policy in progress are finitely many | each of them pays for one dropped task that is not counted yet |
| `QueuedTasksHaveWorkers` | `QueuedInv`: without workers, every queued task is that of a submitter about to recheck | the property only asks for one such submitter, which may remove its own task and leave another's |
| `RecursionIsBounded` | `DepthInv`: the depth of each thread against the tasks that ended or run, and whether the queue is empty | a thread goes one call deeper only after a task left the queue, dropped by it or taken by a worker |

`RecursionIsBounded` has the hypothesis `PositiveCapacities`: with a capacity of 0
the queue is full when it is empty, and the policy recurs without end.
`TypeCorrectness` is the fifth theorem.  Sums over functions (`Total`, the workers about
to leave and the calls of the policies) are cardinalities of sets of pairs, so
that adding one is adding an element.

**`RejectAlarmProofs`**, for every list of pools, every configuration, and any
rejecting threads and notifiers, whichever of these may throw, from the
assumptions that there is a notifier, that configured maximum sizes are
not negative (an executor refuses 0 and negative ones, but the alarm still reads
them from the bound configuration: 0 is modelled, negative ones are not) and that what is read of an executor is a
count.  `Inv` adds to `TypeOK` and `HeadlineWithinIndicator`: `DaemonInv`, what the
daemon's place says of its locals; `CounterInv`, that the counter never drops
below the value the daemon read, because only the daemon clears it; `TellInv`,
which charges the value being reported to the notifiers already told of it; and
`LossInv`, which keeps that value apart from the counter while the report runs,
since what the counter gains meanwhile is what the clear will lose.
`NeverOvercounts` and `ForgetsOnlyRaces` say nothing of the middle of a report and
are not inductive without these.

Theorems: `TypeCorrectness`, `RejectionsAreReportedOnce`,
`OnlyRacesAreForgotten` and `HeadlinesAreWithinIndicators`.

**`ConfigRefreshProofs`**, for any pools, rejection policies and configurations, and
any publications and crashes, from the assumptions that a configuration is a list of
entries that is not empty, that `Missing` is neither an executor nor an entry, and
that the bounds are natural numbers.  `Inv` follows the call of the listener:
`CallInv` says where it is; `ProgressInv` that the entries before this one and the
setters before this one have been applied, as far as no entry up to here names
the same pool again; `CompletedInv` what the last call that returned left in
`settled`, which a crash and the next call leave alone, and in the properties map
while no call is under way; `StartedInv` that until then the pools are those
`init` created.  `SettingsInForce` speaks only of the moments between calls and
needs the middle of the loop to be inductive.  A list that names a pool twice is
why `First` and `Final` occur: `init` keeps the first entry of a pool and a refresh
the last, and that each exists is proved from the order of the numbers.

Theorems: `TypeCorrectness`, `CompletedCallsAreInForce`,
`TakenConfigurationsRestart` and `RestartsAreNeutral`, an action property: a
step that starts the application after a crash.

`RefreshesAreAtomic` is the refinement of `AtomicRefresh`.  Its invariant, `AtomInv`,
follows the pools through a call: `Stands` gives each setting the latest value
of the entries and setters before this one, or the value in `settled` if none of
them gave it one; `SamePools`, that no pool appears or changes its queue
meanwhile, is why the guards that the abstract step evaluates on the pools it found
have the same value on those in between; and `AcceptedBefore`, that the entries
before this one were accepted, determines which entries the abstract step
counts.  The comparison of the maximum with the core size in force comes to one
within the entry (`RefusalIsOfEntry`), because the core size is set first.  A
call that returns, one that meets a missing pool and one whose setter throws each take
one abstract step, and everything else a stutter.

**`ManagementProofs`**, for any hosts, list of entries and users, any number of
crashes, signals, edits and failed statements, from the assumptions that the hosts
registered before are finitely many and that null is none of the values; the list
may name a pool any number of times.  `Inv` adds to `TypeOK`, for each host: `Place`, what
the process has learnt when its registration is at a statement; `Known`, that the
identifiers it holds are of rows of its own pools and that a pool it found has
no row but that one while it inserts; `Room`, that the rows of a pool and the entries that are to
insert further ones are no more than its entries; `Running` and `Ending`, how much the
registration and the signal handler have recorded so far, while a signal may
arrive between any two statements of the registration.  `RowsWithinList` is not
inductive without `Room`: an insertion takes an entry off those that are awaited, a
registration that is cut short gives up what it awaited, and the next one awaits
entries only of pools that have no row at all.  That rests on one process per host:
between the select and an insertion nobody else inserts rows for the instance.  A
step is shown once to leave alone every host it is not about (`Elsewhere`).

Theorems: `TypeCorrectness`, `RowsStayWithinList`, `DistinctNamesRegister` (with
distinct names `toMap` never throws, from `Room` with one entry per pool: the exact
complement of the finding `management_again`), `IdentifiersBelong`,
`RegisteredProcessesRun` and `StoppedProcessesAreRecorded`.

Only model-checked: liveness (`TakersServed`, `PuttersServed`, `RejectionsReported`,
`PublishedTakesEffect`, `DaemonReadsPublished`, `TasksEnd`, `WorkersWithinMax`,
`RegistrationCompletes`, `SignalEndsProcess`), which needs fairness and `ENABLED` and is out of
this prover's reach.  Every invariant of a passing run, the action property
and both refinements are theorems, some with the hypotheses named above.

## 6. Not modelled

- Of the queue, the iterator, the spliterator and the constructor from a
  collection, which need the linked nodes themselves; serialization.
- Of the alarm, the transports of the default notifier, which swallows their
  failures; a refresh of the values of the alarm configuration.
- Of the pools, tasks that throw, which the inherited class deals with, and the
  task-name map: it is written by every submission and read by nothing, and what a
  race does to an unlocked `LinkedHashMap` is below the level of map operations.
- Of the database, the application's row, which only gives an identifier that
  stays; alarm records, which are appended; the values of indicators; queries of
  the console's lists; two processes of an application on one host: the unique key
  `uk_ip_name` on name and address gives them one instance row, which they would share.
- MongoDB: registration cannot succeed (`insertApplicationInfo` dereferences
  `getUpsertedId`, null once the application exists, and reads an `ObjectId` as a
  string when it does not), so nothing that follows it is ever reached.
- The cache of Nacos clients of the console; controllers, pages and Spring wiring;
  message texts and HTTP transport: no state of interest.
- The JavaScript under `static/layui` is a vendored, minified user-interface
  library.
