------------------------------ MODULE ThreadPool ------------------------------
(***************************************************************************)
(* A DynamicThreadPoolExecutor at work: threads that submit tasks, worker  *)
(* threads, and the listener's refresh of the pool's settings.  The class  *)
(* inherits execute, the workers and the setters from Java 8's             *)
(* ThreadPoolExecutor, an external part that is modelled one access to     *)
(* ctl, to the queue or to a setting at a time; what the repository adds   *)
(* are the rejection policies, which drop, count or resubmit, and the      *)
(* order in which refreshThreadPoolExecutor changes the settings.          *)
(*                                                                         *)
(* The queue is the atomic bounded queue that ResizableQueue implements.   *)
(* Workers are alike: it only matters how many are where.  Time is left    *)
(* out: a keep-alive time may end whenever a worker waits.                 *)
(***************************************************************************)
EXTENDS Integers, FiniteSetsExt, SequencesExt

CONSTANTS Submitters,
          Configs,       \* what may be published for the pool
          Initial,       \* what it may have been created with
          None,          \* no configuration is being applied
          MaxTasks,      \* bound: tasks are 1..MaxTasks, in the order of submission
          MaxRefreshes   \* bound

Policies == {"ABORT", "DISCARD", "DISCARD_OLDEST", "CALLER_RUNS"}
Tasks == 1..MaxTasks

ASSUME ConfigsAssumption ==
  /\ Configs \subseteq [core : Nat, max : Nat \ {0}, policy : Policies, capacity : Nat]
  /\ None \notin Configs /\ IsFiniteSet(Configs)
  /\ Initial \subseteq {c \in Configs : c.core <= c.max /\ c.capacity > 0} /\ Initial # {}
ASSUME BoundsAssumption == MaxTasks \in Nat /\ MaxRefreshes \in Nat

VARIABLES
  \* the settings in force, and ctl's run state
  core, max, policy, capacity, shut,
  queue,
  \* the workers
  idle,      \* how many wait for a task
  running,   \* the tasks that workers run
  leaving,   \* how many are about to leave, by the worker count they read
  exiting,   \* how many have left the count, and may have to be replaced
  \* the submitting threads
  pc, task,
  depth,     \* the calls of CxmDiscardOldestPolicy a thread is in
  \* the refresh
  plan, stage,
  prestart,  \* workers that setCorePoolSize still means to start
  refreshes,
  \* where tasks end
  submitted, finished, dropped,
  rejectCount, \* the pool's counter
  unwound      \* an exception has left CxmDiscardOldestPolicy

settings == <<core, max, policy, capacity>>
workers  == <<idle, running, leaving, exiting>>
callers  == <<pc, task, depth>>
refresh  == <<plan, stage, prestart, refreshes>>
ends     == <<submitted, finished, dropped, rejectCount, unwound>>
vars     == <<settings, shut, queue, workers, callers, refresh, ends>>

\* Sizes that the number of workers may have: the largest core or maximum size.
Limit == Max({c.core : c \in Configs} \cup {c.max : c \in Configs})

\* The sum of what f counts.
Counted(f) == UNION {{x} \X (1..f[x]) : x \in DOMAIN f}
Total(f) == Cardinality(Counted(f))

WorkerCount == idle + Cardinality(running) + Total(leaving)

Init ==
  /\ \E c \in Initial :
       /\ core = c.core /\ max = c.max /\ policy = c.policy /\ capacity = c.capacity
  /\ shut = FALSE /\ queue = <<>>
  /\ idle = 0 /\ running = {} /\ leaving = [n \in 1..Limit |-> 0] /\ exiting = 0
  /\ pc = [s \in Submitters |-> "idle"] /\ task = [s \in Submitters |-> 0]
  /\ depth = [s \in Submitters |-> 0]
  /\ plan = None /\ stage = "none" /\ prestart = 0 /\ refreshes = 0
  /\ submitted = 0 /\ finished = {} /\ dropped = {} /\ rejectCount = 0 /\ unwound = FALSE

-----------------------------------------------------------------------------
(***************************************************************************)
(* execute                                                                 *)
(***************************************************************************)

Goto(s, label) == pc' = [pc EXCEPT ![s] = label]

Submit(s) ==
  /\ pc[s] = "idle" /\ submitted < MaxTasks
  /\ submitted' = submitted + 1
  /\ task' = [task EXCEPT ![s] = submitted + 1]
  /\ Goto(s, "core")
  /\ UNCHANGED <<settings, shut, queue, workers, depth, refresh, finished, dropped, rejectCount, unwound>>

\* execute returns: to the application, or to the policy that called it.
Returns(s) ==
  IF depth[s] > 0 THEN Goto(s, "return") /\ UNCHANGED task
                  ELSE Goto(s, "idle") /\ task' = [task EXCEPT ![s] = 0]

\* addWorker(command, ...)
RunInWorker(s) == running' = running \cup {task[s]} /\ Returns(s)

\* Below the core size the task gets a worker of its own.
AddCoreWorker(s) ==
  /\ pc[s] = "core" /\ ~shut /\ WorkerCount < core
  /\ RunInWorker(s)
  /\ UNCHANGED <<settings, shut, queue, idle, leaving, exiting, depth, refresh, ends>>

CoreFull(s) ==
  /\ pc[s] = "core" /\ (shut \/ WorkerCount >= core)
  /\ Goto(s, IF shut THEN "grow" ELSE "offer")
  /\ UNCHANGED <<settings, shut, queue, workers, task, depth, refresh, ends>>

Offer(s) ==
  /\ pc[s] = "offer"
  /\ IF Len(queue) < capacity
     THEN queue' = Append(queue, task[s]) /\ Goto(s, "recheck")
     ELSE UNCHANGED queue /\ Goto(s, "grow")
  /\ UNCHANGED <<settings, shut, workers, task, depth, refresh, ends>>

\* addWorker(null, ...) succeeds
MayAddIdle(limit) == WorkerCount < limit /\ (~shut \/ queue # <<>>)

\* Mutant: the last worker is taken to be there still.
RecheckSkipped(s) ==
  /\ pc[s] = "recheck"
  /\ Returns(s)
  /\ UNCHANGED <<settings, shut, queue, workers, depth, refresh, ends>>

\* Mutant: a worker is started for every queued task.
RecheckStarts(s) ==
  /\ pc[s] = "recheck"
  /\ idle' = idle + 1
  /\ Returns(s)
  /\ UNCHANGED <<settings, shut, queue, running, leaving, exiting, depth, refresh, ends>>

\* The pool may have been shut down, or have lost its last worker, before the
\* task was in the queue.
Recheck(s) ==
  /\ pc[s] = "recheck"
  /\ IF shut /\ task[s] \in ToSet(queue)
     THEN /\ \E i \in DOMAIN queue : queue[i] = task[s] /\ queue' = RemoveAt(queue, i)
          /\ Goto(s, "reject") /\ UNCHANGED <<idle, task>>
     ELSE /\ idle' = IF WorkerCount = 0 /\ MayAddIdle(max) THEN idle + 1 ELSE idle
          /\ UNCHANGED queue /\ Returns(s)
  /\ UNCHANGED <<settings, shut, running, leaving, exiting, depth, refresh, ends>>

AddWorker(s) ==
  /\ pc[s] = "grow"
  /\ IF ~shut /\ WorkerCount < max
     THEN RunInWorker(s)
     ELSE Goto(s, "reject") /\ UNCHANGED <<running, task>>
  /\ UNCHANGED <<settings, shut, queue, idle, leaving, exiting, depth, refresh, ends>>

-----------------------------------------------------------------------------
(***************************************************************************)
(* rejectedExecution, of the handler that is in force by now               *)
(***************************************************************************)

Drop(tasks) == dropped' = dropped \cup tasks

\* CxmAbortPolicy counts and throws: the calls of CxmDiscardOldestPolicy that the
\* thread is in do not go on to count.
Abort(s) ==
  /\ pc[s] = "reject" /\ policy = "ABORT"
  /\ rejectCount' = rejectCount + 1
  /\ Drop({task[s]})
  /\ unwound' = (unwound \/ depth[s] > 0)
  /\ depth' = [depth EXCEPT ![s] = 0]
  /\ Goto(s, "idle") /\ task' = [task EXCEPT ![s] = 0]
  /\ UNCHANGED <<settings, shut, queue, workers, refresh, submitted, finished>>

\* Mutant: the task is dropped without being counted.
DiscardUncounted(s) ==
  /\ pc[s] = "reject" /\ policy = "DISCARD"
  /\ Drop({task[s]})
  /\ Returns(s)
  /\ UNCHANGED <<settings, shut, queue, workers, depth, refresh, submitted, finished, rejectCount, unwound>>

\* CxmDiscardPolicy
Discard(s) ==
  /\ pc[s] = "reject" /\ policy = "DISCARD"
  /\ rejectCount' = rejectCount + 1
  /\ Drop({task[s]})
  /\ Returns(s)
  /\ UNCHANGED <<settings, shut, queue, workers, depth, refresh, submitted, finished, unwound>>

\* ThreadPoolExecutor.CallerRunsPolicy, which counts nothing.
CallerRuns(s) ==
  /\ pc[s] = "reject" /\ policy = "CALLER_RUNS"
  /\ IF shut THEN Drop({task[s]}) /\ Returns(s)
             ELSE Goto(s, "run") /\ UNCHANGED <<dropped, task>>
  /\ UNCHANGED <<settings, shut, queue, workers, depth, refresh, submitted, finished, rejectCount, unwound>>

Run(s) ==
  /\ pc[s] = "run"
  /\ finished' = finished \cup {task[s]}
  /\ Returns(s)
  /\ UNCHANGED <<settings, shut, queue, workers, depth, refresh, submitted, dropped, rejectCount, unwound>>

\* Mutant: the oldest task is looked at, and stays.
DiscardOldestPeek(s) ==
  /\ pc[s] = "reject" /\ policy = "DISCARD_OLDEST"
  /\ ~shut
  /\ Drop(IF queue = <<>> THEN {} ELSE {Head(queue)})
  /\ depth' = [depth EXCEPT ![s] = @ + 1]
  /\ Goto(s, "core")
  /\ UNCHANGED <<settings, shut, queue, workers, task, refresh, submitted, finished, rejectCount, unwound>>

\* Mutant: nothing makes room for the task.
DiscardOldestRetry(s) ==
  /\ pc[s] = "reject" /\ policy = "DISCARD_OLDEST"
  /\ depth' = [depth EXCEPT ![s] = @ + 1]
  /\ Goto(s, "core")
  /\ UNCHANGED <<settings, shut, queue, workers, task, refresh, ends>>

\* CxmDiscardOldestPolicy drops the oldest task and calls execute again; it does
\* nothing once the pool is shut down.
DiscardOldest(s) ==
  /\ pc[s] = "reject" /\ policy = "DISCARD_OLDEST"
  /\ IF shut
     THEN /\ Drop({task[s]}) /\ Returns(s)
          /\ UNCHANGED <<queue, depth>>
     ELSE /\ Drop(IF queue = <<>> THEN {} ELSE {Head(queue)})
          /\ queue' = IF queue = <<>> THEN <<>> ELSE Tail(queue)
          /\ depth' = [depth EXCEPT ![s] = @ + 1]
          /\ Goto(s, "core") /\ UNCHANGED task
  /\ UNCHANGED <<settings, shut, workers, refresh, submitted, finished, rejectCount, unwound>>

\* execute has returned to CxmDiscardOldestPolicy, which counts and returns as well.
CountAndReturn(s) ==
  /\ pc[s] = "return"
  /\ rejectCount' = rejectCount + 1
  /\ depth' = [depth EXCEPT ![s] = @ - 1]
  /\ IF depth[s] > 1 THEN UNCHANGED <<pc, task>>
                     ELSE Goto(s, "idle") /\ task' = [task EXCEPT ![s] = 0]
  /\ UNCHANGED <<settings, shut, queue, workers, refresh, submitted, finished, dropped, unwound>>

Execute(s) ==
  \/ AddCoreWorker(s) \/ CoreFull(s) \/ Offer(s) \/ Recheck(s) \/ AddWorker(s)
  \/ Abort(s) \/ Discard(s) \/ CallerRuns(s) \/ Run(s) \/ DiscardOldest(s)
  \/ CountAndReturn(s)

-----------------------------------------------------------------------------
(***************************************************************************)
(* The workers: runWorker, getTask and processWorkerExit                   *)
(***************************************************************************)

Take ==
  /\ idle > 0 /\ queue # <<>>
  /\ idle' = idle - 1
  /\ running' = running \cup {Head(queue)} /\ queue' = Tail(queue)
  /\ UNCHANGED <<settings, shut, leaving, exiting, callers, refresh, ends>>

\* The task ends, and its worker asks for another one.
Finish(k) ==
  /\ k \in running
  /\ running' = running \ {k} /\ finished' = finished \cup {k}
  /\ idle' = idle + 1
  /\ UNCHANGED <<settings, shut, queue, leaving, exiting, callers, refresh, submitted, dropped, rejectCount, unwound>>

\* Mutant: the maximum is not looked at.
DecideByCore ==
  /\ idle > 0 /\ WorkerCount > core
  /\ WorkerCount > 1 \/ queue = <<>>
  /\ idle' = idle - 1
  /\ leaving' = [leaving EXCEPT ![WorkerCount] = @ + 1]
  /\ UNCHANGED <<settings, shut, queue, running, exiting, callers, refresh, ends>>

\* There are too many workers, or more than the core size and the keep-alive
\* time is over; the last one does not leave a task behind.
Decide ==
  /\ idle > 0
  /\ WorkerCount > core \/ WorkerCount > max
  /\ WorkerCount > 1 \/ queue = <<>>
  /\ idle' = idle - 1
  /\ leaving' = [leaving EXCEPT ![WorkerCount] = @ + 1]
  /\ UNCHANGED <<settings, shut, queue, running, exiting, callers, refresh, ends>>

\* compareAndDecrementWorkerCount fails if the count has changed; it fails as well if
\* the pool was shut down, but then the worker only decides again.
Leave(n) ==
  /\ leaving[n] > 0
  /\ leaving' = [leaving EXCEPT ![n] = @ - 1]
  /\ IF WorkerCount = n
     THEN exiting' = exiting + 1 /\ UNCHANGED idle
     ELSE idle' = idle + 1 /\ UNCHANGED exiting
  /\ UNCHANGED <<settings, shut, queue, running, callers, refresh, ends>>

\* After shutdown a worker that finds the queue empty goes.
LeaveAtShutdown ==
  /\ shut /\ idle > 0 /\ queue = <<>>
  /\ idle' = idle - 1 /\ exiting' = exiting + 1
  /\ UNCHANGED <<settings, shut, queue, running, leaving, callers, refresh, ends>>

\* The worker is replaced if fewer than the core size are left, or none for a
\* queued task.
Exit ==
  /\ exiting > 0
  /\ exiting' = exiting - 1
  /\ idle' = IF WorkerCount < Max({core, IF queue = <<>> THEN 0 ELSE 1}) /\ MayAddIdle(max)
             THEN idle + 1 ELSE idle
  /\ UNCHANGED <<settings, shut, queue, running, leaving, callers, refresh, ends>>

-----------------------------------------------------------------------------
(***************************************************************************)
(* refreshThreadPoolExecutor, for this pool, and shutdown                  *)
(***************************************************************************)

BeginRefresh ==
  /\ plan = None /\ refreshes < MaxRefreshes
  /\ refreshes' = refreshes + 1
  /\ \E c \in Configs : plan' = c
  /\ stage' = "core"
  /\ UNCHANGED <<settings, shut, queue, workers, callers, prestart, ends>>

\* A larger core size is made use of at once, for the tasks that wait.
SetCore ==
  /\ stage = "core"
  /\ core' = plan.core
  /\ prestart' = IF WorkerCount <= plan.core /\ plan.core > core
                 THEN Min({plan.core - core, Len(queue)}) ELSE 0
  /\ stage' = "prestart"
  /\ UNCHANGED <<max, policy, capacity, shut, queue, workers, callers, plan, refreshes, ends>>

Prestart ==
  /\ stage = "prestart" /\ prestart > 0
  /\ IF MayAddIdle(core)
     THEN idle' = idle + 1 /\ prestart' = IF queue = <<>> THEN 0 ELSE prestart - 1
     ELSE UNCHANGED idle /\ prestart' = 0
  /\ UNCHANGED <<settings, shut, queue, running, leaving, exiting, callers, plan, stage, refreshes, ends>>

\* A maximum below the core size is refused, and the refresh ends.
SetMax ==
  /\ stage = "prestart" /\ prestart = 0
  /\ IF plan.max < core
     THEN plan' = None /\ stage' = "none" /\ UNCHANGED max
     ELSE max' = plan.max /\ stage' = "policy" /\ UNCHANGED plan
  /\ UNCHANGED <<core, policy, capacity, shut, queue, workers, callers, prestart, refreshes, ends>>

SetPolicy ==
  /\ stage = "policy"
  /\ policy' = plan.policy
  /\ stage' = "capacity"
  /\ UNCHANGED <<core, max, capacity, shut, queue, workers, callers, plan, prestart, refreshes, ends>>

\* setCapacity changes nothing but the field.
SetCapacity ==
  /\ stage = "capacity"
  /\ capacity' = plan.capacity
  /\ plan' = None /\ stage' = "none"
  /\ UNCHANGED <<core, max, policy, shut, queue, workers, callers, prestart, refreshes, ends>>

Refresh == SetCore \/ Prestart \/ SetMax \/ SetPolicy \/ SetCapacity

\* The application shuts the pool down.
Shutdown ==
  /\ ~shut /\ shut' = TRUE
  /\ UNCHANGED <<settings, queue, workers, callers, refresh, ends>>

-----------------------------------------------------------------------------
Worker == Take \/ Decide \/ (\E n \in 1..Limit : Leave(n)) \/ LeaveAtShutdown \/ Exit

System ==
  \/ \E s \in Submitters : Execute(s)
  \/ Worker
  \/ \E k \in running : Finish(k)
  \/ Refresh

Next == System \/ BeginRefresh \/ Shutdown \/ \E s \in Submitters : Submit(s)

\* As long as a thread can go on, one does: calls return, tasks end, and so do
\* keep-alive times.
Spec == Init /\ [][Next]_vars /\ WF_vars(System)

-----------------------------------------------------------------------------
(***************************************************************************)
(* Properties.                                                             *)
(***************************************************************************)

\* Every variable keeps its type.
TypeOK ==
  /\ core \in Nat /\ max \in Nat \ {0} /\ policy \in Policies /\ capacity \in Nat
  /\ shut \in BOOLEAN /\ queue \in Seq(Tasks)
  /\ idle \in 0..Limit /\ running \subseteq Tasks /\ exiting \in Nat
  /\ leaving \in [1..Limit -> 0..Limit]
  /\ pc \in [Submitters -> {"idle", "core", "offer", "recheck", "grow", "reject", "run", "return"}]
  /\ task \in [Submitters -> Tasks \cup {0}] /\ depth \in [Submitters -> Nat]
  /\ plan \in Configs \cup {None} /\ stage \in {"none", "core", "prestart", "policy", "capacity"}
  /\ prestart \in Nat /\ refreshes \in 0..MaxRefreshes
  /\ submitted \in 0..MaxTasks /\ finished \subseteq Tasks /\ dropped \subseteq Tasks
  /\ rejectCount \in Nat /\ unwound \in BOOLEAN

\* The task that a submitting thread still has to place.
Held(s) == IF pc[s] \in {"core", "offer", "grow", "reject", "run"} THEN {task[s]} ELSE {}

\* Whatever the settings become in the meantime, a submitted task is in one place:
\* with its submitter, in the queue, with a worker, finished or dropped.  None is
\* lost by a policy that resubmits, and none runs that was dropped.
TasksConserved ==
  LET places == <<ToSet(queue), running, finished, dropped>>
      placed == UNION {places[i] : i \in 1..4}
  IN /\ 1..submitted = placed \cup UNION {Held(s) : s \in Submitters}
     /\ \A i, j \in 1..4 : i # j => places[i] \cap places[j] = {}
     /\ \A s \in Submitters : Held(s) \cap placed = {}
     /\ \A s, t \in Submitters : s # t => Held(s) \cap Held(t) = {}
     /\ IsInjective(queue)

\* A dropped task is counted, or will be when the calls of execute return, except
\* after shutdown and when the policy was changed to one that throws through them.
DropsCounted ==
  ~shut /\ ~unwound =>
    Cardinality(dropped) <= rejectCount + Total(depth)

\* A queued task has a worker, or somebody who is about to see to one.
QueuedTaskHasWorker ==
  queue # <<>> => WorkerCount > 0 \/ exiting > 0 \/ \E s \in Submitters : pc[s] = "recheck"

\* The recursion of execute and CxmDiscardOldestPolicy ends while the capacity is
\* positive: every level drops a task, or gives way to one submitted by another.
RecursionBounded == \A s \in Submitters : depth[s] <= MaxTasks

\* Once no more is submitted every task ends: no call of execute recurses for ever,
\* and no task stays in the queue.
TasksEnd == <>[](queue = <<>> /\ running = {} /\ \A s \in Submitters : pc[s] = "idle")

\* The workers that a lower maximum leaves in excess go, whether a refresh lowered it
\* or raised only the core size before its maximum was refused.
WorkersWithinMax == <>[](WorkerCount <= max)
=============================================================================
