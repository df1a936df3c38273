---------------------------- MODULE ConfigRefresh ----------------------------
(***************************************************************************)
(* How a published configuration reaches the pools of an application that  *)
(* runs: the Nacos client calls NacosConfigChangeListener.receiveConfigInfo,*)
(* which binds the content to DynamicThreadPoolProperties, refilling its   *)
(* list of executors, waits, and has DynamicThreadPoolManager reconfigure  *)
(* the pools one setter at a time.  AlarmDaemonThread iterates over the    *)
(* same list meanwhile.                                                    *)
(*                                                                         *)
(* The Nacos client and Spring's binder are external.  The client remembers *)
(* the content a listener last returned from, and calls it whenever the    *)
(* server's content is another one, one call at a time; contents published *)
(* meanwhile are skipped, and a call that throws is not remembered.  The    *)
(* binder clears the bean's list, adds the new entries, and gives the bean *)
(* a copy of it.                                                           *)
(***************************************************************************)
EXTENDS PoolSettings

CONSTANTS MaxPublishes,  \* bound: publications
          MaxCrashes     \* bound: crashes of the application

ASSUME BoundsAssumption == MaxPublishes \in Nat /\ MaxCrashes \in Nat

VARIABLES
  nacos,     \* the published configuration
  publishes, \* number of publications
  crashes,   \* number of crashes
  up,        \* the application runs
  \* the application
  executors, \* DynamicThreadPoolProperties.executors
  pools,     \* THREAD_POOL_EXECUTOR_MAP, with the settings of each executor
  props,     \* THREAD_POOL_PROPERTIES_MAP
  \* the Nacos client and the listener it calls
  called,    \* the content the listener last returned from
  pc, cfg,   \* where the listener is, and the content it was called with
  at, step,  \* the entry, and the setter, that is next
  \* the daemon
  daemon,    \* sleep, pass or dead
  reading,   \* the list it iterates over, as it was when the pass began
  index,     \* the entry it looks at next
  own,       \* it iterates over the list the bean still has
  stale,     \* that list was modified since
  \* history
  settled,   \* the pools as they were when no call was under way
  outcome    \* how the last call ended

world     == <<nacos, publishes, crashes, up>>
app       == <<pools, props>>
listener  == <<called, pc, cfg, at, step>>
iteration == <<daemon, reading, index, own, stale>>
history   == <<settled, outcome>>
vars      == <<world, executors, app, listener, iteration, history>>

Init ==
  /\ nacos \in Configs /\ publishes = 0 /\ crashes = 0 /\ up = FALSE
  /\ executors = <<>>
  /\ pools = [p \in Pools |-> Missing] /\ props = [p \in Pools |-> Missing]
  /\ called = Missing /\ pc = "idle" /\ cfg = <<>> /\ at = 1 /\ step = 0
  /\ daemon = "sleep" /\ reading = <<>> /\ index = 1 /\ own = TRUE /\ stale = FALSE
  /\ settled = pools /\ outcome = "started"

NoCall == pc' = "idle" /\ cfg' = <<>> /\ at' = 1 /\ step' = 0

\* The daemon is between two passes, or dead.
NoPass(d) ==
  daemon' = d /\ reading' = <<>> /\ index' = 1 /\ own' = TRUE /\ stale' = FALSE

-----------------------------------------------------------------------------
(***************************************************************************)
(* The environment.                                                        *)
(***************************************************************************)

\* Someone publishes another content.
Publish(c) ==
  /\ publishes < MaxPublishes /\ c # nacos
  /\ nacos' = c /\ publishes' = publishes + 1
  /\ UNCHANGED <<crashes, up, executors, app, listener, iteration, history>>

\* The process ends.  Its memory is lost: what the variables still hold is read by
\* properties only.
Crash ==
  /\ up /\ crashes < MaxCrashes
  /\ up' = FALSE /\ crashes' = crashes + 1
  /\ NoCall /\ NoPass("sleep")
  /\ UNCHANGED <<nacos, publishes, executors, app, called, history>>

\* The application starts with the published content: DynamicThreadPoolManager.init,
\* then the listener is registered.  Whether the client first calls it with the
\* content it starts from depends on its version and on its cache.
Start ==
  /\ ~up /\ Startable(nacos)
  /\ up' = TRUE
  /\ executors' = nacos
  /\ pools' = Created(nacos)
  /\ props' = [p \in Pools |-> IF p \in Names(nacos) THEN nacos[First(nacos, p)] ELSE Missing]
  /\ called' \in {nacos, Missing}
  /\ NoCall
  /\ NoPass("sleep")
  /\ settled' = pools' /\ outcome' = "started"
  /\ UNCHANGED <<nacos, publishes, crashes>>

-----------------------------------------------------------------------------
(***************************************************************************)
(* The listener: refreshYaml, then refreshThreadPoolExecutor(true).        *)
(***************************************************************************)

\* Mutant: the listener is handed the content it returned from last.
DeliverOld ==
  /\ up /\ pc = "idle" /\ nacos # called
  /\ pc' = "clear" /\ cfg' = called
  /\ UNCHANGED <<world, executors, app, called, at, step, iteration, history>>

Deliver ==
  /\ up /\ pc = "idle" /\ nacos # called
  /\ pc' = "clear" /\ cfg' = nacos
  /\ UNCHANGED <<world, executors, app, called, at, step, iteration, history>>

\* The list that a running pass iterates over is modified.
Modify == stale' = (stale \/ (daemon = "pass" /\ own))

ClearList ==
  /\ up /\ pc = "clear"
  /\ executors' = <<>> /\ Modify
  /\ pc' = "add"
  /\ UNCHANGED <<world, app, called, cfg, at, step, daemon, reading, index, own, history>>

AddAll ==
  /\ up /\ pc = "add"
  /\ executors' = cfg /\ Modify
  /\ pc' = "copy"
  /\ UNCHANGED <<world, app, called, cfg, at, step, daemon, reading, index, own, history>>

\* Mutant: the bean is left with the list it was given before the copy was filled.
SetExecutorsEmpty ==
  /\ up /\ pc = "copy"
  /\ own' = FALSE /\ executors' = <<>>
  /\ pc' = "entry" /\ at' = 1
  /\ UNCHANGED <<world, app, called, cfg, step, daemon, reading, index, stale, history>>

\* setExecutors with a copy; then the listener waits and goes through the list.
SetExecutors ==
  /\ up /\ pc = "copy"
  /\ own' = FALSE
  /\ pc' = "entry" /\ at' = 1
  /\ UNCHANGED <<world, executors, app, called, cfg, step, daemon, reading, index, stale, history>>

Entry == executors[at]
Name  == Entry.threadPoolName

\* An exception leaves receiveConfigInfo; the client logs it and forgets the call.
Abort ==
  /\ NoCall
  /\ settled' = pools /\ outcome' = "aborted"
  /\ UNCHANGED <<world, executors, pools, called, iteration>>

\* Mutant: an entry whose pool does not exist is skipped.
BeginEntrySkips ==
  /\ up /\ pc = "entry" /\ at <= Len(executors)
  /\ props' = [props EXCEPT ![Name] = Entry]
  /\ IF pools[Name] = Missing
     THEN at' = at + 1 /\ UNCHANGED <<pc, step>>
     ELSE pc' = "set" /\ step' = 1 /\ UNCHANGED at
  /\ UNCHANGED <<world, executors, pools, called, cfg, iteration, history>>

BeginEntry ==
  /\ up /\ pc = "entry" /\ at <= Len(executors)
  /\ props' = [props EXCEPT ![Name] = Entry]
  /\ IF pools[Name] = Missing
     THEN Abort
     ELSE /\ pc' = "set" /\ step' = 1
          /\ UNCHANGED <<world, executors, pools, called, cfg, at, iteration, history>>

SetterThrows ==
  /\ up /\ pc = "set" /\ step <= Len(Setters)
  /\ SetterRefuses(Setters[step], Entry, pools[Name])
  /\ Abort /\ UNCHANGED props

SetterReturns ==
  /\ up /\ pc = "set" /\ step <= Len(Setters)
  /\ LET s == Setters[step]
     IN /\ ~SetterRefuses(s, Entry, pools[Name])
        /\ pools' = IF SetterApplies(s, pools[Name])
                    THEN [pools EXCEPT ![Name][s] = Entry[s]] ELSE pools
  /\ step' = step + 1
  /\ UNCHANGED <<world, executors, props, called, pc, cfg, at, iteration, history>>

\* Mutant: every other entry is left out.
NextEntrySkips ==
  /\ up /\ pc = "set" /\ step > Len(Setters)
  /\ pc' = "entry" /\ at' = at + 2 /\ step' = 0
  /\ UNCHANGED <<world, executors, app, called, cfg, iteration, history>>

NextEntry ==
  /\ up /\ pc = "set" /\ step > Len(Setters)
  /\ pc' = "entry" /\ at' = at + 1 /\ step' = 0
  /\ UNCHANGED <<world, executors, app, called, cfg, iteration, history>>

\* Mutant: the client remembers the content that is published by now.
ReturnCurrent ==
  /\ up /\ pc = "entry" /\ at > Len(executors)
  /\ called' = nacos
  /\ NoCall
  /\ settled' = pools /\ outcome' = "completed"
  /\ UNCHANGED <<world, executors, app, iteration>>

\* receiveConfigInfo returns.
Return ==
  /\ up /\ pc = "entry" /\ at > Len(executors)
  /\ called' = cfg
  /\ NoCall
  /\ settled' = pools /\ outcome' = "completed"
  /\ UNCHANGED <<world, executors, app, iteration>>

Listener ==
  \/ Deliver \/ ClearList \/ AddAll \/ SetExecutors
  \/ BeginEntry \/ SetterThrows \/ SetterReturns \/ NextEntry \/ Return

-----------------------------------------------------------------------------
(***************************************************************************)
(* AlarmDaemonThread.run, as far as the iteration is concerned.  forEach   *)
(* compares the list's modification count before each entry and at the end *)
(* and throws ConcurrentModificationException, outside the try block; the  *)
(* count is a plain field, so that a pass may also miss the modification.   *)
(***************************************************************************)

BeginPass ==
  /\ up /\ daemon = "sleep"
  /\ daemon' = "pass" /\ reading' = executors /\ index' = 1
  /\ own' = TRUE /\ stale' = FALSE
  /\ UNCHANGED <<world, executors, app, listener, history>>

\* Whatever the entry is by now, an exception it causes is caught.
Look ==
  /\ up /\ daemon = "pass" /\ index <= Len(reading)
  /\ index' = index + 1
  /\ UNCHANGED <<world, executors, app, listener, daemon, reading, own, stale, history>>

EndPass ==
  /\ up /\ daemon = "pass" /\ index > Len(reading)
  /\ NoPass("sleep")
  /\ UNCHANGED <<world, executors, app, listener, history>>

ModificationNoticed ==
  /\ up /\ daemon = "pass" /\ stale
  /\ NoPass("dead")
  /\ UNCHANGED <<world, executors, app, listener, history>>

Daemon == BeginPass \/ Look \/ EndPass \/ ModificationNoticed

Next == Listener \/ Daemon \/ Start \/ Crash \/ \E c \in Configs : Publish(c)

\* The client's threads and the daemon's are scheduled, and sleeps end.
Spec == Init /\ [][Next]_vars /\ WF_vars(Listener) /\ WF_vars(Daemon)

-----------------------------------------------------------------------------
(***************************************************************************)
(* Properties.                                                             *)
(***************************************************************************)

\* Every variable keeps its type.
TypeOK ==
  /\ nacos \in Configs /\ publishes \in 0..MaxPublishes /\ crashes \in 0..MaxCrashes
  /\ up \in BOOLEAN
  /\ executors \in Configs \cup {<<>>}
  /\ pools \in [Pools -> Executor \cup {Missing}]
  /\ props \in [Pools -> ThreadPoolProperties \cup {Missing}]
  /\ called \in Configs \cup {Missing}
  /\ pc \in {"idle", "clear", "add", "copy", "entry", "set"}
  /\ cfg \in Configs \cup {<<>>}
  /\ at \in Nat \ {0} /\ step \in 0..(Len(Setters) + 1)
  /\ daemon \in {"sleep", "pass", "dead"} /\ reading \in Configs \cup {<<>>}
  /\ index \in Nat \ {0} /\ own \in BOOLEAN /\ stale \in BOOLEAN
  /\ settled \in [Pools -> Executor \cup {Missing}]
  /\ outcome \in {"started", "completed", "aborted"}

\* The pools of c run with what c says of them last.
InForce(c) == \A p \in Names(c) :
  LET e == c[Final(c, p)]
  IN /\ props[p] = e
     /\ pools[p] # Missing
     /\ \A k \in 1..Len(Setters) : SetterApplies(Setters[k], pools[p])
                                   => pools[p][Setters[k]] = e[Setters[k]]

\* Once receiveConfigInfo has returned normally, all the pools it was given run
\* with those settings and the lookups show the same ones, whatever was refused,
\* skipped or restarted before.
SettingsInForce == up /\ pc = "idle" /\ outcome = "completed" => InForce(called)

\* What the setters let through the constructors accept: an application that took
\* a configuration can be restarted with it.  Capacities are the exception, since
\* setCapacity checks nothing.
RestartableAfterRefresh ==
  /\ up /\ pc = "idle" /\ outcome = "completed"
  /\ \A i \in 1..Len(called) : called[i].queueCapacity > 0
  => Startable(called)

\* init and refreshThreadPoolExecutor agree: restarting with the configuration in
\* force changes no setting of a pool it lists once and whose queue is resizable.
RestartChangesNothing ==
  [][~up /\ up' /\ nacos = called /\ outcome # "aborted" /\ NoDuplicates(nacos)
     => \A p \in Names(nacos) :
          /\ settled[p].queueType = "dynamic"
          /\ nacos[First(nacos, p)].queueType = "dynamic"
          => pools'[p] = settled[p]]_vars

\* The entries of c concern existing pools and no setter refuses them.
Acceptable(c) == \A i \in 1..Len(c) :
  /\ pools[c[i].threadPoolName] # Missing
  /\ \A k \in 1..Len(Setters) : ~SetterRefuses(Setters[k], c[i], c[i])

\* The client will not call the listener with c, though c is not in force: either the
\* call with another one came to nothing after it, or the application started with a
\* list that names a pool twice, of which init took the first entry.
Overlooked(c) ==
  /\ called = c
  /\ outcome = "aborted" \/ (outcome = "started" /\ ~NoDuplicates(c))

\* A configuration that stays published and that the pools can accept comes into
\* force, unless the client takes it to be in force already (Overlooked).
PublishedTakesEffect == \A c \in Configs :
  <>[](up /\ nacos = c /\ Acceptable(c) /\ ~Overlooked(c)) => <>[]InForce(c)

\* As long as it lives the daemon comes to look at the pools of the published
\* configuration.  (Of one that is refused, and therefore bound again and again, it
\* might always meet the list while it is empty.)
DaemonReadsPublished == \A c \in Configs :
  <>[](up /\ nacos = c /\ Acceptable(c) /\ ~Overlooked(c) /\ daemon # "dead")
    => []<>(reading = c)

Atomic == INSTANCE AtomicRefresh WITH pools <- settled

\* Seen from outside the call, a refresh is one step whose effect depends only on
\* the pools and on the content.
RefreshIsAtomic == Atomic!Spec

\* README.md:57 says of the configuration "修改线程池配置实时生效" (changes take effect in
\* real time): one that stays published and that the pools can accept comes into
\* force, whatever was published before it.
EveryPublishedTakesEffect == \A c \in Configs :
  <>[](up /\ nacos = c /\ Acceptable(c) /\ NoDuplicates(c)) => <>[]InForce(c)

\* The daemon's loop catches the exceptions of a check and is meant to go on
\* (DynamicThreadPoolAlarm.java:196, "告警守护线程", and 240-242).
DaemonSurvives == daemon # "dead"
=============================================================================
