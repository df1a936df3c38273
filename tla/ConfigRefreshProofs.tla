------------------------- MODULE ConfigRefreshProofs -------------------------
(***************************************************************************)
(* Proofs about ConfigRefresh, for any pools, rejection policies and       *)
(* configurations, and any number of publications and crashes: what a call *)
(* of the listener that returned has achieved, what a restart changes, and *)
(* that a call is one step of AtomicRefresh.                               *)
(***************************************************************************)
EXTENDS ConfigRefresh, NumbersAndLists, TLAPS

\* A pool runs with the settings of e, as far as the setters reach.
RunsAs(pool, e) ==
  /\ pool # Missing
  /\ \A k \in 1..Len(Setters) : SetterApplies(Setters[k], pool)
                                => pool[Setters[k]] = e[Setters[k]]

EntryInForce(e) == props[e.threadPoolName] = e /\ RunsAs(pools[e.threadPoolName], e)

\* No setter refuses e in the order in which a refresh calls them.
Taken(e) == \A k \in 1..Len(Setters) : ~SetterRefuses(Setters[k], e, e)

\* Among the first m entries of c, the j-th is the last of its pool.
LastUpTo(c, m, j) == \A i \in (j + 1)..m : c[i].threadPoolName # c[j].threadPoolName

\* The first i entries are applied, up to those that one of the first m replaces.
Processed(i, m) == \A j \in 1..i :
  Taken(cfg[j]) /\ (LastUpTo(cfg, m, j) => EntryInForce(cfg[j]))

\* Where the listener is, and what it goes through.
CallInv ==
  /\ pc # "idle" => up /\ cfg \in Configs
  /\ pc \in {"copy", "entry", "set"} => executors = cfg
  /\ pc = "entry" => at <= Len(cfg) + 1
  /\ pc = "set" => at <= Len(cfg) /\ step >= 1 /\ pools[cfg[at].threadPoolName] # Missing
  /\ up /\ pc = "idle" => settled = pools

\* How far it is: the entries before this one, and the setters before this one.
ProgressInv ==
  /\ pc = "entry" => Processed(at - 1, at - 1)
  /\ pc = "set" =>
       /\ Processed(at - 1, at)
       /\ props[cfg[at].threadPoolName] = cfg[at]
       /\ \A k \in 1..(step - 1) :
            /\ ~SetterRefuses(Setters[k], cfg[at], cfg[at])
            /\ SetterApplies(Setters[k], pools[cfg[at].threadPoolName])
               => pools[cfg[at].threadPoolName][Setters[k]] = cfg[at][Setters[k]]

\* What the last call achieved, if it returned; settled is kept over a crash and
\* while the next call is under way, the properties map is not.
CompletedInv ==
  outcome = "completed" =>
    /\ called \in Configs
    /\ \A j \in 1..Len(called) :
         /\ Taken(called[j])
         /\ LastUpTo(called, Len(called), j) =>
              /\ RunsAs(settled[called[j].threadPoolName], called[j])
              /\ up /\ pc = "idle" => props[called[j].threadPoolName] = called[j]

\* Before any call the pools are those that init created.
StartedInv == outcome = "started" /\ called # Missing => settled = Created(called)

Inv == TypeOK /\ CallInv /\ ProgressInv /\ CompletedInv /\ StartedInv

-----------------------------------------------------------------------------
(***************************************************************************)
(* Lists of pools.                                                         *)
(***************************************************************************)

\* The first and the last entry of a pool that is listed.
LEMMA FirstAndFinal ==
  ASSUME NEW d \in Configs, NEW p \in Names(d)
  PROVE  /\ First(d, p) \in 1..Len(d) /\ d[First(d, p)].threadPoolName = p
         /\ Final(d, p) \in 1..Len(d) /\ d[Final(d, p)].threadPoolName = p
         /\ LastUpTo(d, Len(d), Final(d, p))
<1> DEFINE T == {i \in 1..Len(d) : d[i].threadPoolName = p}
<1>1. Len(d) \in Nat
  BY ConfigsAssumption
<1>2. T \in SUBSET Nat /\ T # {} /\ \A t \in T : t <= Len(d)
  BY <1>1 DEF Names
<1>3. PICK i \in T : \A j \in T : i <= j
  <2> HIDE DEF T
  <2>1. QED
    BY <1>2, Least
<1>4. PICK m \in T : \A j \in T : j <= m
  <2> HIDE DEF T
  <2>1. QED
    BY <1>1, <1>2, Greatest
<1>5. /\ i \in 1..Len(d) /\ d[i].threadPoolName = p
      /\ \A j \in 1..(i - 1) : d[j].threadPoolName # p
  BY <1>1, <1>3
<1>6. /\ m \in 1..Len(d) /\ d[m].threadPoolName = p
      /\ \A j \in (m + 1)..Len(d) : d[j].threadPoolName # p
  BY <1>1, <1>4
<1>7. First(d, p) \in 1..Len(d) /\ d[First(d, p)].threadPoolName = p
  BY <1>5 DEF First
<1>8. /\ Final(d, p) \in 1..Len(d) /\ d[Final(d, p)].threadPoolName = p
      /\ \A j \in (Final(d, p) + 1)..Len(d) : d[j].threadPoolName # p
  BY <1>6 DEF Final
<1>9. QED
  BY <1>7, <1>8 DEF LastUpTo

\* The entries of a configuration.
LEMMA EntryType ==
  ASSUME NEW d \in Configs
  PROVE  /\ Len(d) \in Nat /\ Len(d) >= 1
         /\ \A i \in 1..Len(d) : d[i] \in ThreadPoolProperties /\ d[i].threadPoolName \in Pools
<1>1. d \in Seq(ThreadPoolProperties) /\ d # <<>>
  BY ConfigsAssumption
<1>2. \A e \in ThreadPoolProperties : e.threadPoolName \in Pools
  BY DEF ThreadPoolProperties
<1>3. QED
  BY <1>1, <1>2

-----------------------------------------------------------------------------
(***************************************************************************)
(* Settings.                                                               *)
(***************************************************************************)

LEMMA SettingsType ==
  ASSUME NEW e \in ThreadPoolProperties
  PROVE  /\ Settings(e) \in Executor /\ Settings(e).queueType = e.queueType
         /\ \A k \in 1..Len(Setters) : Settings(e)[Setters[k]] = e[Setters[k]]
<1>1. DOMAIN e = {"threadPoolName", "corePoolSize", "maximumPoolSize", "keepAliveTime",
                  "handler", "queueCapacity", "queueType"}
  BY DEF ThreadPoolProperties
<1>2. Settings(e) \in Executor
  BY <1>1 DEF Settings, Executor, ThreadPoolProperties
<1>3. QED
  BY <1>1, <1>2 DEF Settings, ThreadPoolProperties, Setters

\* Executors with the same settings and queues of the same kind are the same.
LEMMA ExecutorsEqual ==
  ASSUME NEW x \in Executor, NEW y \in Executor, x.queueType = y.queueType,
         \A k \in 1..Len(Setters) : x[Setters[k]] = y[Setters[k]]
  PROVE  x = y
<1>1. \A s \in {"corePoolSize", "maximumPoolSize", "keepAliveTime", "handler",
                "queueCapacity"} : \E k \in 1..Len(Setters) : s = Setters[k]
  BY DEF Setters
<1>2. \A s \in {"corePoolSize", "maximumPoolSize", "keepAliveTime", "handler",
                "queueCapacity"} : x[s] = y[s]
  BY <1>1
<1>3. QED
  BY <1>2 DEF Executor

\* What init creates.
LEMMA CreatedType ==
  ASSUME NEW d \in Configs
  PROVE  /\ Created(d) \in [Pools -> Executor \cup {Missing}]
         /\ \A p \in Names(d) : p \in Pools /\ Created(d)[p] = Settings(d[First(d, p)])
<1>1. \A p \in Names(d) : p \in Pools
  BY EntryType DEF Names
<1>2. \A p \in Names(d) : Settings(d[First(d, p)]) \in Executor
  BY FirstAndFinal, EntryType, SettingsType
<1>3. QED
  BY <1>1, <1>2 DEF Created

-----------------------------------------------------------------------------
(***************************************************************************)
(* The invariant.                                                          *)
(***************************************************************************)

LEMMA InitInv == Init => Inv
<1> SUFFICES ASSUME Init PROVE Inv
  OBVIOUS
<1>0. up \in BOOLEAN /\ own \in BOOLEAN /\ stale \in BOOLEAN
  BY Zenon DEF Init
<1>1. TypeOK
  BY <1>0, BoundsAssumption DEF Init, TypeOK, Setters
<1>2. CallInv /\ ProgressInv /\ CompletedInv /\ StartedInv
  BY DEF Init, CallInv, ProgressInv, CompletedInv, StartedInv
<1>3. QED
  BY <1>1, <1>2 DEF Inv

\* The Boolean variables stay Boolean.
LEMMA FlagsStep ==
  ASSUME TypeOK, Next
  PROVE  up' \in BOOLEAN /\ own' \in BOOLEAN /\ stale' \in BOOLEAN
<1> USE DEF TypeOK, world, app, listener, iteration, history
<1>1. CASE Crash \/ Start \/ \E d \in Configs : Publish(d)
  BY <1>1, Zenon DEF Crash, Start, Publish, NoPass
<1>2. CASE Daemon
  BY <1>2, Zenon DEF Daemon, BeginPass, Look, EndPass, ModificationNoticed, NoPass
<1>3. CASE Deliver \/ ClearList \/ AddAll \/ SetExecutors
  BY <1>3, Zenon DEF Deliver, ClearList, AddAll, SetExecutors, Modify
<1>4. CASE BeginEntry \/ SetterThrows \/ SetterReturns \/ NextEntry \/ Return
  BY <1>4, Zenon DEF BeginEntry, SetterThrows, SetterReturns, NextEntry, Return, Abort
<1>5. QED
  BY <1>1, <1>2, <1>3, <1>4 DEF Next, Listener

\* Steps that concern neither the application's memory nor the listener.
LEMMA ElsewhereStep ==
  ASSUME Inv, TypeOK',
         UNCHANGED <<up, executors, pools, props, called, pc, cfg, at, step, settled, outcome>>
  PROVE  Inv'
BY DEF Inv, CallInv, ProgressInv, CompletedInv, StartedInv, Processed, EntryInForce,
       RunsAs, LastUpTo, Taken

LEMMA EnvironmentStep ==
  ASSUME Inv, Crash \/ Start \/ \E d \in Configs : Publish(d)
  PROVE  Inv'
<1> USE DEF Inv
<1>0. up' \in BOOLEAN /\ own' \in BOOLEAN /\ stale' \in BOOLEAN
  BY FlagsStep DEF Next
<1>1. ASSUME NEW d \in Configs, Publish(d) PROVE Inv'
  <2>1. TypeOK'
    BY <1>1, BoundsAssumption DEF TypeOK, Publish, app, listener, iteration, history
  <2>2. QED
    BY <1>1, <2>1, ElsewhereStep DEF Publish, app, listener, iteration, history
<1>2. CASE Crash
  <2>1. TypeOK'
    BY <1>0, <1>2, BoundsAssumption DEF TypeOK, Crash, NoCall, NoPass, app, history, Setters
  <2>2. /\ ~up' /\ pc' = "idle"
        /\ UNCHANGED <<pools, props, called, settled, outcome>>
    BY <1>2 DEF Crash, NoCall, app, history
  <2>3. CompletedInv'
    BY <2>2 DEF CompletedInv, RunsAs, LastUpTo, Taken
  <2>4. QED
    BY <2>1, <2>2, <2>3 DEF CallInv, ProgressInv, StartedInv
<1>3. CASE Start
  <2>1. nacos \in Configs
    BY DEF TypeOK
  <2>2. props' \in [Pools -> ThreadPoolProperties \cup {Missing}]
    <3>1. \A p \in Names(nacos) : nacos[First(nacos, p)] \in ThreadPoolProperties
      BY <2>1, FirstAndFinal, EntryType
    <3>2. QED
      BY <1>3, <3>1 DEF Start
  <2>3. pools' \in [Pools -> Executor \cup {Missing}]
    BY <1>3, <2>1, CreatedType DEF Start
  <2>4. TypeOK'
    BY <1>0, <1>3, <2>1, <2>2, <2>3 DEF TypeOK, Start, NoCall, NoPass, Setters
  <2>5. /\ pc' = "idle" /\ settled' = pools' /\ outcome' = "started"
        /\ pools' = Created(nacos) /\ called' \in {nacos, Missing}
    BY <1>3 DEF Start, NoCall
  <2>6. QED
    BY <2>4, <2>5 DEF CallInv, ProgressInv, CompletedInv, StartedInv
<1>4. QED
  BY <1>1, <1>2, <1>3

LEMMA DaemonStep ==
  ASSUME Inv, Daemon
  PROVE  Inv'
<1>0. up' \in BOOLEAN /\ own' \in BOOLEAN /\ stale' \in BOOLEAN
  BY FlagsStep DEF Next, Inv
<1>1. TypeOK'
  <2> USE <1>0 DEF Inv, TypeOK, world, app, listener, history
  <2>1. CASE BeginPass
    BY <2>1 DEF BeginPass
  <2>2. CASE Look
    BY <2>2 DEF Look
  <2>3. CASE EndPass
    BY <2>3 DEF EndPass, NoPass
  <2>4. CASE ModificationNoticed
    BY <2>4 DEF ModificationNoticed, NoPass
  <2>5. QED
    BY <2>1, <2>2, <2>3, <2>4 DEF Daemon
<1>2. UNCHANGED <<up, executors, pools, props, called, pc, cfg, at, step, settled, outcome>>
  BY DEF Daemon, BeginPass, Look, EndPass, ModificationNoticed, world, app, listener, history
<1>3. QED
  BY <1>1, <1>2, ElsewhereStep

\* A call that comes to nothing.
LEMMA AbortStep ==
  ASSUME Inv, Abort, props' \in [Pools -> ThreadPoolProperties \cup {Missing}]
  PROVE  Inv'
<1>1. TypeOK'
  BY DEF Inv, TypeOK, Abort, NoCall, world, iteration, Setters
<1>2. pc' = "idle" /\ settled' = pools' /\ outcome' = "aborted"
  BY DEF Abort, NoCall
<1>3. QED
  BY <1>1, <1>2 DEF Inv, CallInv, ProgressInv, CompletedInv, StartedInv

\* The listener binds the content it was called with.
LEMMA BindStep ==
  ASSUME Inv, Deliver \/ ClearList \/ AddAll \/ SetExecutors
  PROVE  Inv'
<1> USE DEF Inv
<1>0. up' \in BOOLEAN /\ own' \in BOOLEAN /\ stale' \in BOOLEAN
  BY FlagsStep DEF Next, Listener
<1>1. TypeOK'
  <2> USE <1>0 DEF TypeOK, world, app, iteration, history
  <2>1. CASE Deliver
    BY <2>1 DEF Deliver
  <2>2. CASE ClearList
    BY <2>2 DEF ClearList, Modify
  <2>3. CASE AddAll
    BY <2>3 DEF AddAll, Modify, CallInv
  <2>4. CASE SetExecutors
    BY <2>4 DEF SetExecutors
  <2>5. QED
    BY <2>1, <2>2, <2>3, <2>4
<1>2. CallInv'
  <2> USE DEF CallInv, TypeOK, world, app, history
  <2>1. CASE Deliver
    BY <2>1 DEF Deliver
  <2>2. CASE ClearList
    BY <2>2 DEF ClearList
  <2>3. CASE AddAll
    BY <2>3 DEF AddAll
  <2>4. CASE SetExecutors
    BY <2>4, EntryType DEF SetExecutors
  <2>5. QED
    BY <2>1, <2>2, <2>3, <2>4
<1>3. /\ pc' # "idle" /\ pc' # "set" /\ (pc' = "entry" => at' = 1)
      /\ UNCHANGED <<called, settled, outcome>>
  BY DEF Deliver, ClearList, AddAll, SetExecutors, history
<1>4. ProgressInv'
  BY <1>3 DEF ProgressInv, Processed
<1>5. CompletedInv' /\ StartedInv'
  BY <1>3 DEF CompletedInv, StartedInv, RunsAs, LastUpTo, Taken
<1>6. QED
  BY <1>1, <1>2, <1>4, <1>5

\* An entry: the properties map first, then the first setter, if the pool exists.
LEMMA BeginEntryStep ==
  ASSUME Inv, BeginEntry
  PROVE  Inv'
<1> DEFINE e == cfg[at]
           p == cfg[at].threadPoolName
<1> USE DEF Inv
<1>1. /\ up /\ pc = "entry" /\ executors = cfg /\ cfg \in Configs
      /\ at \in 1..Len(cfg) /\ Len(cfg) \in Nat
  BY EntryType DEF BeginEntry, CallInv, TypeOK
<1>2. Entry = e /\ Name = p /\ e \in ThreadPoolProperties /\ p \in Pools
  BY <1>1, EntryType DEF Entry, Name
<1>3. props' = [props EXCEPT ![p] = e]
  BY <1>2 DEF BeginEntry
<1>4. props' \in [Pools -> ThreadPoolProperties \cup {Missing}]
  BY <1>2, <1>3 DEF TypeOK
<1>5. CASE pools[p] = Missing
  BY <1>2, <1>4, <1>5, AbortStep DEF BeginEntry
<1>6. CASE pools[p] # Missing
  <2>1. /\ pc' = "set" /\ step' = 1
        /\ UNCHANGED <<world, executors, pools, called, cfg, at, iteration, history>>
    BY <1>2, <1>6 DEF BeginEntry
  <2>0. up' \in BOOLEAN /\ own' \in BOOLEAN /\ stale' \in BOOLEAN
    BY FlagsStep DEF Next, Listener
  <2>2. TypeOK'
    BY <2>0, <2>1, <1>4 DEF TypeOK, world, iteration, history, Setters
  <2>3. CallInv'
    BY <1>1, <1>2, <1>6, <2>1 DEF CallInv, world, history
  <2>4. ASSUME NEW j \in 1..(at - 1)
        PROVE  Taken(cfg[j]) /\ (LastUpTo(cfg, at, j) => EntryInForce(cfg[j])')
    <3>1. Taken(cfg[j]) /\ (LastUpTo(cfg, at - 1, j) => EntryInForce(cfg[j]))
      BY <1>1 DEF ProgressInv, Processed
    <3>2. ASSUME LastUpTo(cfg, at, j) PROVE EntryInForce(cfg[j])'
      <4>1. LastUpTo(cfg, at - 1, j) /\ cfg[j].threadPoolName # p
        BY <1>1, <3>2 DEF LastUpTo
      <4>2. EntryInForce(cfg[j])
        BY <3>1, <4>1
      <4>3. props'[cfg[j].threadPoolName] = props[cfg[j].threadPoolName]
        BY <1>1, <1>2, <1>3, <4>1, EntryType DEF TypeOK
      <4>4. QED
        BY <2>1, <4>2, <4>3 DEF EntryInForce, RunsAs
    <3>3. QED
      BY <3>1, <3>2
  <2>5. Processed(at - 1, at)'
    BY <2>1, <2>4 DEF Processed, Taken, LastUpTo
  <2>6. props'[p] = e
    BY <1>2, <1>3 DEF TypeOK
  <2>7. ProgressInv'
    BY <2>1, <2>5, <2>6 DEF ProgressInv
  <2>8. CompletedInv' /\ StartedInv'
    BY <2>1 DEF CompletedInv, StartedInv, RunsAs, LastUpTo, Taken, history
  <2>9. QED
    BY <2>2, <2>3, <2>7, <2>8
<1>7. QED
  BY <1>5, <1>6

LEMMA SetterThrowsStep ==
  ASSUME Inv, SetterThrows
  PROVE  Inv'
BY AbortStep DEF SetterThrows, Inv, TypeOK

\* Where the listener is when a setter is next.
LEMMA SetterNext ==
  ASSUME Inv, up, pc = "set", step <= Len(Setters)
  PROVE  /\ executors = cfg /\ cfg \in Configs
         /\ at \in 1..Len(cfg) /\ Len(cfg) \in Nat
         /\ step \in 1..Len(Setters) /\ Len(Setters) = 5
         /\ Entry = cfg[at] /\ Name = cfg[at].threadPoolName
         /\ cfg[at] \in ThreadPoolProperties /\ cfg[at].threadPoolName \in Pools
         /\ pools[cfg[at].threadPoolName] # Missing
         /\ pools[cfg[at].threadPoolName] \in Executor
<1>1. /\ executors = cfg /\ cfg \in Configs
      /\ at \in 1..Len(cfg) /\ Len(cfg) \in Nat
      /\ step \in 1..Len(Setters) /\ Len(Setters) = 5
      /\ pools[cfg[at].threadPoolName] # Missing
  BY EntryType DEF Inv, CallInv, TypeOK, Setters
<1>2. /\ Entry = cfg[at] /\ Name = cfg[at].threadPoolName
      /\ cfg[at] \in ThreadPoolProperties /\ cfg[at].threadPoolName \in Pools
      /\ pools[cfg[at].threadPoolName] \in Executor
  BY <1>1, EntryType DEF Entry, Name, Inv, TypeOK
<1>3. QED
  BY <1>1, <1>2

\* The core size the maximum is compared with is the entry's: it has been set by then.
LEMMA RefusalIsOfEntry ==
  ASSUME Inv, up, pc = "set", step <= Len(Setters)
  PROVE  SetterRefuses(Setters[step], cfg[at], pools[cfg[at].threadPoolName])
         <=> SetterRefuses(Setters[step], cfg[at], cfg[at])
<1> DEFINE e == cfg[at]
           p == cfg[at].threadPoolName
           s == Setters[step]
<1>1. CASE step = 2
  <2>1. Setters[1] = "corePoolSize" /\ s = "maximumPoolSize" /\ 1 \in 1..(step - 1)
    BY <1>1 DEF Setters
  <2>2. pools[p].corePoolSize = e.corePoolSize
    BY <2>1 DEF Inv, ProgressInv, SetterApplies
  <2>3. QED
    BY <2>1, <2>2 DEF SetterRefuses
<1>2. CASE step # 2
  <2>1. s # "maximumPoolSize"
    BY <1>2, SetterNext DEF Setters
  <2>2. QED
    BY <2>1 DEF SetterRefuses
<1>3. QED
  BY <1>1, <1>2

\* A setter that returns has given the setting the entry's value, if it applies.
LEMMA SetterEffect ==
  ASSUME Inv, SetterReturns
  PROVE  LET e == cfg[at]
             p == cfg[at].threadPoolName
             s == Setters[step]
         IN /\ ~SetterRefuses(s, e, e)
            /\ pools' = [q \in Pools |-> pools'[q]]
            /\ \A q \in Pools : q # p => pools'[q] = pools[q]
            /\ pools'[p] \in Executor /\ pools'[p].queueType = pools[p].queueType
            /\ SetterApplies(s, pools[p]) => pools'[p][s] = e[s]
            /\ ~SetterApplies(s, pools[p]) => pools'[p] = pools[p]
            /\ \A k \in 1..Len(Setters) :
                 k # step => pools'[p][Setters[k]] = pools[p][Setters[k]]
            /\ step' = step + 1
            /\ UNCHANGED <<world, executors, props, called, pc, cfg, at, iteration, history>>
<1> DEFINE e == cfg[at]
           p == cfg[at].threadPoolName
           s == Setters[step]
<1> USE DEF Inv
<1>1. /\ up /\ pc = "set" /\ executors = cfg /\ cfg \in Configs
      /\ at \in 1..Len(cfg) /\ Len(cfg) \in Nat
      /\ step \in 1..Len(Setters) /\ pools[p] # Missing /\ Len(Setters) = 5
  BY SetterNext DEF SetterReturns
<1>2. /\ Entry = e /\ Name = p /\ e \in ThreadPoolProperties /\ p \in Pools
      /\ pools[p] \in Executor
  BY SetterNext DEF SetterReturns
<1>3. /\ ~SetterRefuses(s, e, pools[p])
      /\ pools' = IF SetterApplies(s, pools[p]) THEN [pools EXCEPT ![p][s] = e[s]] ELSE pools
      /\ step' = step + 1
      /\ UNCHANGED <<world, executors, props, called, pc, cfg, at, iteration, history>>
  BY <1>2 DEF SetterReturns
<1>4. /\ pools'[p] = IF SetterApplies(s, pools[p]) THEN [pools[p] EXCEPT ![s] = e[s]]
                                                   ELSE pools[p]
      /\ \A q \in Pools : q # p => pools'[q] = pools[q]
  BY <1>2, <1>3 DEF TypeOK
<1>5. /\ pools'[p] \in Executor /\ pools'[p].queueType = pools[p].queueType
      /\ SetterApplies(s, pools[p]) => pools'[p][s] = e[s]
      /\ \A k \in 1..Len(Setters) : k # step => pools'[p][Setters[k]] = pools[p][Setters[k]]
  <2>1. CASE SetterApplies(s, pools[p])
    <3>1. pools'[p] = [pools[p] EXCEPT ![Setters[step]] = e[Setters[step]]]
      BY <1>4, <2>1
    <3>2. step \in 1..Len(Setters) /\ e \in ThreadPoolProperties /\ pools[p] \in Executor
      BY <1>1, <1>2
    <3> HIDE DEF e, p
    <3>3. /\ pools'[p] \in Executor /\ pools'[p].queueType = pools[p].queueType
          /\ pools'[p][Setters[step]] = e[Setters[step]]
          /\ \A k \in 1..Len(Setters) : k # step => pools'[p][Setters[k]] = pools[p][Setters[k]]
      BY <3>1, <3>2 DEF Executor, Setters, ThreadPoolProperties
    <3>4. QED
      BY <3>3
  <2>2. CASE ~SetterApplies(s, pools[p])
    BY <1>1, <1>2, <1>4, <2>2
  <2>3. QED
    BY <2>1, <2>2
<1>6. pools' = [q \in Pools |-> pools'[q]]
  BY <1>3 DEF TypeOK
<1>7. ~SetterRefuses(s, e, e)
  BY <1>1, <1>3, RefusalIsOfEntry
<1>8. ~SetterApplies(s, pools[p]) => pools'[p] = pools[p]
  BY <1>4
<1>9. QED
  BY <1>3, <1>4, <1>5, <1>6, <1>7, <1>8

\* The setter that is called takes the entry's value, which the ones before did.
LEMMA SetterReturnsStep ==
  ASSUME Inv, SetterReturns
  PROVE  Inv'
<1> DEFINE e == cfg[at]
           p == cfg[at].threadPoolName
           s == Setters[step]
<1> USE DEF Inv
<1>1. /\ up /\ pc = "set" /\ executors = cfg /\ cfg \in Configs
      /\ at \in 1..Len(cfg) /\ Len(cfg) \in Nat
      /\ step \in 1..Len(Setters) /\ pools[p] # Missing /\ Len(Setters) = 5
      /\ e \in ThreadPoolProperties /\ p \in Pools /\ pools[p] \in Executor
  BY SetterNext DEF SetterReturns
<1>2. /\ ~SetterRefuses(s, e, e) /\ pools' = [q \in Pools |-> pools'[q]]
      /\ step' = step + 1
      /\ UNCHANGED <<world, executors, props, called, pc, cfg, at, iteration, history>>
  BY SetterEffect
<1>3. \A q \in Pools : q # p => pools'[q] = pools[q]
  BY SetterEffect
<1>4. /\ pools'[p] \in Executor /\ pools'[p].queueType = pools[p].queueType
      /\ SetterApplies(s, pools[p]) => pools'[p][s] = e[s]
      /\ \A k \in 1..Len(Setters) : k # step => pools'[p][Setters[k]] = pools[p][Setters[k]]
  BY SetterEffect
<1>5. \A k \in 1..Len(Setters) :
        SetterApplies(Setters[k], pools'[p]) <=> SetterApplies(Setters[k], pools[p])
  BY <1>4 DEF SetterApplies
<1>6. TypeOK'
  <2>0. up' \in BOOLEAN /\ own' \in BOOLEAN /\ stale' \in BOOLEAN
    BY FlagsStep DEF Next, Listener
  <2>1. pools' \in [Pools -> Executor \cup {Missing}]
    <3>1. \A q \in Pools : pools'[q] \in Executor \cup {Missing}
      BY <1>3, <1>4 DEF TypeOK
    <3>2. QED
      BY <1>2, <3>1
  <2>2. QED
    BY <2>0, <2>1, <1>1, <1>2 DEF TypeOK, world, iteration, history
<1>7. pools'[p] # Missing
  BY <1>4, MissingAssumption
<1>8. CallInv'
  BY <1>1, <1>2, <1>7 DEF CallInv, world, history
<1>9. ProgressInv'
  <2>1. ASSUME NEW j \in 1..(at - 1), LastUpTo(cfg, at, j)
        PROVE  EntryInForce(cfg[j])'
    <3>1. EntryInForce(cfg[j])
      BY <1>1, <2>1 DEF ProgressInv, Processed
    <3>2. cfg[j].threadPoolName # p /\ cfg[j].threadPoolName \in Pools
      BY <1>1, <2>1, EntryType DEF LastUpTo
    <3>3. QED
      BY <1>2, <1>3, <3>1, <3>2 DEF EntryInForce, RunsAs
  <2>2. Processed(at - 1, at)'
    BY <1>1, <1>2, <2>1 DEF ProgressInv, Processed, LastUpTo, Taken
  <2>3. ASSUME NEW k \in 1..step
        PROVE  /\ ~SetterRefuses(Setters[k], e, e)
               /\ SetterApplies(Setters[k], pools'[p]) => pools'[p][Setters[k]] = e[Setters[k]]
    <3>1. CASE k = step
      BY <1>1, <1>2, <1>4, <1>5, <3>1
    <3>2. CASE k # step
      <4>1. /\ k \in 1..(step - 1) /\ k \in 1..Len(Setters)
        BY <1>1, <3>2
      <4>2. /\ ~SetterRefuses(Setters[k], e, e)
            /\ SetterApplies(Setters[k], pools[p]) => pools[p][Setters[k]] = e[Setters[k]]
        BY <1>1, <4>1 DEF ProgressInv
      <4>3. QED
        BY <1>4, <1>5, <3>2, <4>1, <4>2
    <3>3. QED
      BY <3>1, <3>2
  <2>4. props'[p] = e
    BY <1>1, <1>2 DEF ProgressInv
  <2>5. step' - 1 = step
    BY <1>1, <1>2
  <2>6. QED
    BY <1>1, <1>2, <2>2, <2>3, <2>4, <2>5 DEF ProgressInv
<1>10. CompletedInv' /\ StartedInv'
  BY <1>1, <1>2 DEF CompletedInv, StartedInv, RunsAs, LastUpTo, Taken, history
<1>11. QED
  BY <1>6, <1>8, <1>9, <1>10

\* All setters have returned: the entry is in force.
LEMMA NextEntryStep ==
  ASSUME Inv, NextEntry
  PROVE  Inv'
<1> DEFINE e == cfg[at]
           p == cfg[at].threadPoolName
<1> USE DEF Inv
<1>1. /\ up /\ pc = "set" /\ executors = cfg /\ cfg \in Configs
      /\ at \in 1..Len(cfg) /\ Len(cfg) \in Nat /\ pools[p] # Missing
      /\ step - 1 = Len(Setters) /\ Len(Setters) = 5
  BY EntryType DEF NextEntry, CallInv, TypeOK, Setters
<1>2. /\ pc' = "entry" /\ at' = at + 1 /\ step' = 0
      /\ UNCHANGED <<world, executors, pools, props, called, cfg, iteration, history>>
  BY DEF NextEntry, app
<1>3. TypeOK'
  <2>0. up' \in BOOLEAN /\ own' \in BOOLEAN /\ stale' \in BOOLEAN
    BY FlagsStep DEF Next, Listener
  <2>1. QED
    BY <2>0, <1>1, <1>2 DEF TypeOK, world, iteration, history
<1>4. CallInv'
  BY <1>1, <1>2 DEF CallInv, world, history
<1>5. EntryInForce(e) /\ Taken(e)
  BY <1>1 DEF ProgressInv, EntryInForce, RunsAs, Taken
<1>6. Processed(at, at)
  <2>1. ASSUME NEW j \in 1..at
        PROVE  Taken(cfg[j]) /\ (LastUpTo(cfg, at, j) => EntryInForce(cfg[j]))
    <3>1. CASE j = at
      BY <1>5, <3>1
    <3>2. CASE j # at
      BY <1>1, <3>2 DEF ProgressInv, Processed
    <3>3. QED
      BY <3>1, <3>2
  <2>2. QED
    BY <2>1 DEF Processed
<1>7. ProgressInv'
  <2>1. at' - 1 = at
    BY <1>1, <1>2
  <2>2. QED
    BY <1>2, <1>6, <2>1 DEF ProgressInv, Processed, EntryInForce, RunsAs, LastUpTo, Taken
<1>8. CompletedInv' /\ StartedInv'
  BY <1>1, <1>2 DEF CompletedInv, StartedInv, RunsAs, LastUpTo, Taken, history
<1>9. QED
  BY <1>3, <1>4, <1>7, <1>8

\* The call returns, and everything it was given is in force.
LEMMA ReturnStep ==
  ASSUME Inv, Return
  PROVE  Inv'
<1> USE DEF Inv
<1>1. /\ up /\ pc = "entry" /\ executors = cfg /\ cfg \in Configs
      /\ Len(cfg) \in Nat /\ at - 1 = Len(cfg)
  BY EntryType DEF Return, CallInv, TypeOK
<1>2. /\ pc' = "idle" /\ cfg' = <<>> /\ at' = 1 /\ step' = 0
      /\ called' = cfg /\ settled' = pools /\ outcome' = "completed"
      /\ UNCHANGED <<world, executors, pools, props, iteration>>
  BY DEF Return, NoCall, app
<1>3. TypeOK'
  <2>0. up' \in BOOLEAN /\ own' \in BOOLEAN /\ stale' \in BOOLEAN
    BY FlagsStep DEF Next, Listener
  <2>1. QED
    BY <2>0, <1>1, <1>2 DEF TypeOK, world, iteration
<1>4. CallInv' /\ ProgressInv' /\ StartedInv'
  BY <1>1, <1>2 DEF CallInv, ProgressInv, StartedInv
<1>5. Processed(Len(cfg), Len(cfg))
  BY <1>1 DEF ProgressInv
<1>6. CompletedInv'
  BY <1>1, <1>2, <1>5 DEF CompletedInv, Processed, EntryInForce, RunsAs, LastUpTo, Taken
<1>7. QED
  BY <1>3, <1>4, <1>6

LEMMA InvStep ==
  ASSUME Inv, [Next]_vars
  PROVE  Inv'
<1>1. CASE UNCHANGED vars
  <2>1. TypeOK'
    BY <1>1 DEF Inv, TypeOK, vars, world, app, listener, iteration, history
  <2>2. QED
    BY <1>1, <2>1, ElsewhereStep DEF vars, world, app, listener, history
<1>2. CASE Next
  BY <1>2, EnvironmentStep, DaemonStep, BindStep, BeginEntryStep, SetterThrowsStep,
     SetterReturnsStep, NextEntryStep, ReturnStep DEF Next, Listener
<1>3. QED
  BY <1>1, <1>2

THEOREM Invariance == Spec => []Inv
<1>1. Init => Inv
  BY InitInv
<1>2. Inv /\ [Next]_vars => Inv'
  BY InvStep
<1>3. QED
  BY <1>1, <1>2, PTL DEF Spec

-----------------------------------------------------------------------------
(***************************************************************************)
(* Theorems.                                                               *)
(***************************************************************************)

\* Every variable keeps its type, in particular no entry beyond the bound list and
\* no pool that does not exist is ever looked at.
THEOREM TypeCorrectness == Spec => []TypeOK
<1>1. Inv => TypeOK
  BY DEF Inv
<1>2. QED
  BY <1>1, Invariance, PTL

\* When receiveConfigInfo has returned, the pools and the properties map are as the
\* configuration says, whatever was refused, interrupted by a crash or published before.
THEOREM CompletedCallsAreInForce == Spec => []SettingsInForce
<1>1. Inv => SettingsInForce
  <2>1. SUFFICES ASSUME Inv, up, pc = "idle", outcome = "completed" PROVE InForce(called)
    BY DEF SettingsInForce
  <2>2. called \in Configs /\ settled = pools
    BY <2>1 DEF Inv, CompletedInv, CallInv
  <2>3. ASSUME NEW p \in Names(called)
        PROVE  /\ props[p] = called[Final(called, p)]
               /\ RunsAs(pools[p], called[Final(called, p)])
    <3>1. /\ Final(called, p) \in 1..Len(called)
          /\ called[Final(called, p)].threadPoolName = p
          /\ LastUpTo(called, Len(called), Final(called, p))
      BY <2>2, FirstAndFinal
    <3>2. QED
      BY <2>1, <2>2, <3>1 DEF Inv, CompletedInv
  <2>4. QED
    BY <2>3 DEF InForce, RunsAs
<1>2. QED
  BY <1>1, Invariance, PTL

\* The constructors accept what a whole call got through the setters, capacities apart.
THEOREM TakenConfigurationsRestart == Spec => []RestartableAfterRefresh
<1>1. Inv => RestartableAfterRefresh
  <2>1. SUFFICES ASSUME Inv, up, pc = "idle", outcome = "completed",
                        \A i \in 1..Len(called) : called[i].queueCapacity > 0
                 PROVE  Startable(called)
    BY DEF RestartableAfterRefresh
  <2>2. called \in Configs
    BY <2>1 DEF Inv, CompletedInv
  <2>3. ASSUME NEW p \in Names(called)
        PROVE  ~ConstructorRefuses(called[First(called, p)])
    <3> DEFINE e == called[First(called, p)]
    <3>1. First(called, p) \in 1..Len(called)
      BY <2>2, FirstAndFinal
    <3>2. e \in ThreadPoolProperties /\ Taken(e) /\ e.queueCapacity > 0
      BY <2>1, <2>2, <3>1, EntryType DEF Inv, CompletedInv
    <3>3. /\ ~SetterRefuses("corePoolSize", e, e) /\ ~SetterRefuses("maximumPoolSize", e, e)
          /\ ~SetterRefuses("keepAliveTime", e, e)
      BY <3>2 DEF Taken, Setters
    <3>4. QED
      BY <3>2, <3>3 DEF SetterRefuses, ConstructorRefuses, ThreadPoolProperties
  <2>4. QED
    BY <2>3 DEF Startable
<1>2. QED
  BY <1>1, Invariance, PTL

\* An application that is restarted with the configuration in force gets back the
\* pools it had: init and refreshThreadPoolExecutor agree, for every configuration.
THEOREM RestartsAreNeutral == Spec => RestartChangesNothing
<1>1. Inv /\ [Next]_vars =>
        (~up /\ up' /\ nacos = called /\ outcome # "aborted" /\ NoDuplicates(nacos)
         => \A p \in Names(nacos) :
              /\ settled[p].queueType = "dynamic"
              /\ nacos[First(nacos, p)].queueType = "dynamic"
              => pools'[p] = settled[p])
  <2>1. SUFFICES ASSUME Inv, [Next]_vars, ~up, up', nacos = called,
                        outcome # "aborted", NoDuplicates(nacos), NEW p \in Names(nacos),
                        settled[p].queueType = "dynamic",
                        nacos[First(nacos, p)].queueType = "dynamic"
                 PROVE  pools'[p] = settled[p]
    OBVIOUS
  <2> DEFINE e == nacos[First(nacos, p)]
  <2>2. nacos \in Configs /\ called # Missing
    BY <2>1, MissingAssumption DEF Inv, TypeOK
  <2>3. First(nacos, p) \in 1..Len(nacos) /\ e.threadPoolName = p
        /\ e \in ThreadPoolProperties /\ p \in Pools
    BY <2>2, FirstAndFinal, EntryType
  <2>4. pools' = Created(nacos)
    <3>1. Start
      BY <2>1 DEF Next, vars, world, Publish, Crash, Listener, Daemon, Deliver, ClearList,
                  AddAll, SetExecutors, BeginEntry, SetterThrows, SetterReturns, NextEntry,
                  Return, Abort, BeginPass, Look, EndPass, ModificationNoticed
    <3>2. QED
      BY <3>1 DEF Start
  <2>5. pools'[p] = Settings(e) /\ Settings(e) \in Executor
    BY <2>2, <2>3, <2>4, CreatedType, SettingsType
  <2>6. CASE outcome = "started"
    BY <2>1, <2>2, <2>4, <2>6 DEF Inv, StartedInv
  <2>7. CASE outcome = "completed"
    <3>1. LastUpTo(nacos, Len(nacos), First(nacos, p))
      BY <2>1, <2>2, <2>3, EntryType DEF NoDuplicates, LastUpTo
    <3>2. RunsAs(settled[p], e)
      BY <2>1, <2>3, <2>7, <3>1 DEF Inv, CompletedInv
    <3>3. settled[p] \in Executor
      BY <2>1, <2>3, <3>2 DEF Inv, TypeOK, RunsAs
    <3>4. \A k \in 1..Len(Setters) : settled[p][Setters[k]] = e[Setters[k]]
      BY <2>1, <3>2 DEF RunsAs, SetterApplies
    <3>5. \A k \in 1..Len(Setters) : Settings(e)[Setters[k]] = settled[p][Setters[k]]
      BY <2>3, <3>4, SettingsType
    <3>6. Settings(e).queueType = settled[p].queueType
      BY <2>1, <2>3, SettingsType
    <3>7. Settings(e) = settled[p]
      BY <2>5, <3>3, <3>5, <3>6, ExecutorsEqual
    <3>8. QED
      BY <2>5, <3>7
  <2>8. QED
    BY <2>1, <2>6, <2>7 DEF Inv, TypeOK
<1>2. QED
  BY <1>1, Invariance, PTL DEF Spec, RestartChangesNothing

-----------------------------------------------------------------------------
(***************************************************************************)
(* A call is one step.  While it is under way the pools hold what the call *)
(* found (settled) with the values of the setters that have returned.      *)
(***************************************************************************)

\* The entries before the n-th that give the k-th setting of p a value, and the n-th
\* if that setter comes before its m-th.
Given(n, m, p, k) == {j \in 1..Len(cfg) :
  /\ j < n \/ (j = n /\ k < m)
  /\ cfg[j].threadPoolName = p
  /\ SetterApplies(Setters[k], settled[p])}

Latest(S) == CHOOSE j \in S : \A i \in S : i <= j

\* The latest value in G of the k-th setting, or the one the call found.
Value(G, p, k) == IF G = {} THEN settled[p][Setters[k]] ELSE cfg[Latest(G)][Setters[k]]

Stands(n, m) == \A p \in Pools : settled[p] # Missing =>
  \A k \in 1..Len(Setters) : pools[p][Setters[k]] = Value(Given(n, m, p, k), p, k)

\* No pool appears or disappears during a call, and none changes its queue.
SamePools == \A p \in Pools :
  /\ (pools[p] = Missing) <=> (settled[p] = Missing)
  /\ pools[p] # Missing => pools[p].queueType = settled[p].queueType

AcceptedBefore(n) == \A i \in 1..(n - 1) :
  settled[cfg[i].threadPoolName] # Missing /\ Taken(cfg[i])

AtomInv ==
  /\ pc # "idle" => SamePools
  /\ pc \in {"clear", "add", "copy"} => pools = settled
  /\ pc \in {"entry", "set"} => AcceptedBefore(at)
  /\ pc = "entry" => Stands(at, 1)
  /\ pc = "set" => Stands(at, step)

\* The operators that the abstract specification takes from PoolSettings are these.
LEMMA AtomicOperators ==
  /\ \A s, e, x : Atomic!SetterRefuses(s, e, x) <=> SetterRefuses(s, e, x)
  /\ \A s, x : Atomic!SetterApplies(s, x) <=> SetterApplies(s, x)
  /\ Atomic!Setters = Setters
<1>1. \A s, e, x : Atomic!SetterRefuses(s, e, x) <=> SetterRefuses(s, e, x)
  BY Zenon DEF Atomic!SetterRefuses, SetterRefuses
<1>2. \A s, x : Atomic!SetterApplies(s, x) <=> SetterApplies(s, x)
  BY Zenon DEF Atomic!SetterApplies, SetterApplies
<1>3. Atomic!Setters = Setters
  BY DEF Atomic!Setters, Setters
<1>4. QED
  BY <1>1, <1>2, <1>3

LEMMA AtomicStartOperators ==
  /\ \A d : Atomic!Startable(d) <=> Startable(d)
  /\ \A d : Atomic!Created(d) = Created(d)
<1>1. \A d : Atomic!Names(d) = Names(d)
  BY DEF Atomic!Names, Names
<1>2. \A d, p : Atomic!First(d, p) = First(d, p)
  BY DEF Atomic!First, First
<1>3. \A e : Atomic!ConstructorRefuses(e) <=> ConstructorRefuses(e)
  BY Zenon DEF Atomic!ConstructorRefuses, ConstructorRefuses
<1>4. \A e : Atomic!Settings(e) = Settings(e)
  BY DEF Atomic!Settings, Settings
<1>5. \A d : Atomic!Startable(d) <=> Startable(d)
  BY <1>1, <1>2, <1>3, Zenon DEF Atomic!Startable, Startable
<1>6. \A d : Atomic!Created(d) = Created(d)
  BY <1>1, <1>2, <1>4 DEF Atomic!Created, Created
<1>7. QED
  BY <1>5, <1>6

LEMMA ValuesKept ==
  ASSUME UNCHANGED <<cfg, settled>>
  PROVE  /\ \A n, m, p, k : Given(n, m, p, k)' = Given(n, m, p, k)
         /\ \A G, p, k : Value(G, p, k)' = Value(G, p, k)
<1>1. \A n, m, p, k : Given(n, m, p, k)' = Given(n, m, p, k)
  BY DEF Given
<1>2. \A G, p, k : Value(G, p, k)' = Value(G, p, k)
  BY DEF Value
<1>3. QED
  BY <1>1, <1>2

\* Steps that change neither the pools nor where the listener is.
LEMMA AtomElsewhere ==
  ASSUME AtomInv, UNCHANGED <<pools, pc, cfg, at, step, settled>>
  PROVE  AtomInv'
<1>1. /\ \A n, m, p, k : Given(n, m, p, k)' = Given(n, m, p, k)
      /\ \A G, p, k : Value(G, p, k)' = Value(G, p, k)
  BY ValuesKept
<1>2. /\ \A n, m : Stands(n, m) => Stands(n, m)'
      /\ \A n : AcceptedBefore(n) => AcceptedBefore(n)'
      /\ SamePools => SamePools'
  BY <1>1 DEF Stands, AcceptedBefore, SamePools, Taken
<1>3. QED
  BY <1>2 DEF AtomInv

\* A call that ended, or has not begun.
LEMMA AtomIdle ==
  ASSUME pc' = "idle"
  PROVE  AtomInv'
BY DEF AtomInv

LEMMA AtomBind ==
  ASSUME Inv, AtomInv, Deliver \/ ClearList \/ AddAll \/ SetExecutors
  PROVE  AtomInv'
<1>1. CASE Deliver \/ ClearList \/ AddAll
  <2>1. pools = settled
    BY <1>1 DEF Inv, CallInv, AtomInv, Deliver, ClearList, AddAll
  <2>2. UNCHANGED <<pools, settled>> /\ pc' \in {"clear", "add", "copy"}
    BY <1>1 DEF Deliver, ClearList, AddAll, app, history
  <2>3. QED
    BY <2>1, <2>2 DEF AtomInv, SamePools
<1>2. CASE SetExecutors
  <2>1. /\ pools = settled /\ UNCHANGED <<pools, settled, cfg>>
        /\ pc' = "entry" /\ at' = 1 /\ cfg \in Configs
    BY <1>2 DEF Inv, CallInv, AtomInv, SetExecutors, app, history
  <2>2. Len(cfg) \in Nat
    BY <2>1, EntryType
  <2>3. \A p \in Pools : \A k \in 1..Len(Setters) : Given(1, 1, p, k)' = {}
    <3>1. ASSUME NEW p \in Pools, NEW k \in 1..Len(Setters) PROVE Given(1, 1, p, k)' = {}
      <4>1. ASSUME NEW j \in 1..Len(cfg) PROVE ~(j < 1 \/ (j = 1 /\ k < 1))
        BY <2>2
      <4>2. QED
        BY <2>1, <4>1 DEF Given
    <3>2. QED
      BY <3>1
  <2>4. QED
    BY <2>1, <2>3 DEF AtomInv, SamePools, AcceptedBefore, Stands, Value
<1>3. QED
  BY <1>1, <1>2

LEMMA AtomBeginEntry ==
  ASSUME Inv, AtomInv, BeginEntry, pools[Name] # Missing
  PROVE  AtomInv'
<1>1. /\ pc = "entry" /\ pc' = "set" /\ step' = 1
      /\ UNCHANGED <<pools, cfg, at, settled>>
  BY DEF BeginEntry, history
<1>2. /\ \A n, m, p, k : Given(n, m, p, k)' = Given(n, m, p, k)
      /\ \A G, p, k : Value(G, p, k)' = Value(G, p, k)
  BY <1>1, ValuesKept
<1>3. Stands(at, 1)'
  BY <1>1, <1>2 DEF AtomInv, Stands
<1>4. AcceptedBefore(at)' /\ SamePools'
  BY <1>1 DEF AtomInv, AcceptedBefore, SamePools, Taken
<1>5. QED
  BY <1>1, <1>3, <1>4 DEF AtomInv

\* The entry before this one, with all its setters.
LEMMA GivenByAll ==
  ASSUME NEW n \in Nat, NEW p, NEW k \in 1..Len(Setters)
  PROVE  Given(n + 1, 1, p, k) = Given(n, Len(Setters) + 1, p, k)
<1>1. Len(Setters) = 5
  BY DEF Setters
<1>2. \A j \in 1..Len(cfg) :
        (j < n + 1 \/ (j = n + 1 /\ k < 1)) <=> (j < n \/ (j = n /\ k < Len(Setters) + 1))
  BY <1>1
<1>3. QED
  BY <1>2 DEF Given

LEMMA AtomNextEntry ==
  ASSUME Inv, AtomInv, NextEntry
  PROVE  AtomInv'
<1>1. /\ up /\ pc = "set" /\ pc' = "entry" /\ at' = at + 1
      /\ UNCHANGED <<pools, cfg, settled>>
      /\ cfg \in Configs /\ at \in 1..Len(cfg) /\ Len(cfg) \in Nat
      /\ step = Len(Setters) + 1
  BY EntryType DEF NextEntry, app, history, Inv, CallInv, TypeOK, Setters
<1>2. /\ \A n, m, p, k : Given(n, m, p, k)' = Given(n, m, p, k)
      /\ \A G, p, k : Value(G, p, k)' = Value(G, p, k)
  BY <1>1, ValuesKept
<1>3. SamePools' /\ SamePools
  BY <1>1 DEF AtomInv, SamePools
<1>4. AcceptedBefore(at)'
  <2>1. ASSUME NEW i \in 1..at
        PROVE  settled[cfg[i].threadPoolName] # Missing /\ Taken(cfg[i])
    <3>1. CASE i = at
      <4>1. pools[cfg[at].threadPoolName] # Missing /\ cfg[at].threadPoolName \in Pools
        BY <1>1, EntryType DEF Inv, CallInv
      <4>2. Taken(cfg[at])
        BY <1>1 DEF Inv, ProgressInv, Taken
      <4>3. QED
        BY <1>3, <3>1, <4>1, <4>2 DEF SamePools
    <3>2. CASE i # at
      BY <1>1, <3>2 DEF AtomInv, AcceptedBefore
    <3>3. QED
      BY <3>1, <3>2
  <2>2. at' - 1 = at
    BY <1>1
  <2>3. QED
    BY <1>1, <2>1, <2>2 DEF AcceptedBefore, Taken
<1>5. Stands(at, 1)'
  <2>1. Stands(at, Len(Setters) + 1)
    BY <1>1 DEF AtomInv
  <2>2. \A p \in Pools : \A k \in 1..Len(Setters) :
          Given(at + 1, 1, p, k) = Given(at, Len(Setters) + 1, p, k)
    BY <1>1, GivenByAll
  <2>3. Stands(at + 1, 1)
    BY <2>1, <2>2 DEF Stands
  <2>4. QED
    BY <1>1, <1>2, <2>3 DEF Stands
<1>6. QED
  BY <1>1, <1>3, <1>4, <1>5 DEF AtomInv

\* The setter that returned is the latest that gave its setting a value.
LEMMA AtomSetterReturns ==
  ASSUME Inv, AtomInv, SetterReturns
  PROVE  AtomInv'
<1> DEFINE e == cfg[at]
           p == cfg[at].threadPoolName
           s == Setters[step]
<1>1. /\ cfg \in Configs /\ at \in 1..Len(cfg) /\ Len(cfg) \in Nat
      /\ step \in 1..Len(Setters) /\ p \in Pools
      /\ pools[p] # Missing /\ pools[p] \in Executor /\ Len(Setters) = 5 /\ pc = "set"
  BY SetterNext DEF SetterReturns
<1>2. step' = step + 1 /\ UNCHANGED <<pc, cfg, at, settled>>
  BY SetterEffect DEF history
<1>3. \A q \in Pools : q # p => pools'[q] = pools[q]
  BY SetterEffect
<1>4. /\ pools'[p] \in Executor /\ pools'[p].queueType = pools[p].queueType
      /\ SetterApplies(s, pools[p]) => pools'[p][s] = e[s]
      /\ ~SetterApplies(s, pools[p]) => pools'[p] = pools[p]
      /\ \A k \in 1..Len(Setters) : k # step => pools'[p][Setters[k]] = pools[p][Setters[k]]
  BY SetterEffect
<1>5. SamePools /\ Stands(at, step) /\ AcceptedBefore(at)
  BY <1>1 DEF AtomInv
<1>6. settled[p] # Missing /\ settled[p].queueType = pools[p].queueType
  BY <1>1, <1>5 DEF SamePools
<1>7. SetterApplies(s, settled[p]) <=> SetterApplies(s, pools[p])
  BY <1>6 DEF SetterApplies
<1>8. SamePools'
  <2>1. pools'[p] # Missing
    BY <1>4, MissingAssumption
  <2>2. ASSUME NEW q \in Pools
        PROVE  /\ (pools'[q] = Missing) <=> (settled[q] = Missing)
               /\ pools'[q] # Missing => pools'[q].queueType = settled[q].queueType
    <3>1. CASE q = p
      BY <1>4, <1>6, <2>1, <3>1
    <3>2. CASE q # p
      BY <1>3, <1>5, <3>2 DEF SamePools
    <3>3. QED
      BY <3>1, <3>2
  <2>3. QED
    BY <1>2, <2>2 DEF SamePools
<1>9. AcceptedBefore(at)'
  BY <1>2, <1>5 DEF AcceptedBefore, Taken
<1>10. ASSUME NEW q \in Pools, settled[q] # Missing, NEW k \in 1..Len(Setters)
       PROVE  pools'[q][Setters[k]] = Value(Given(at, step + 1, q, k), q, k)
  <2>0. pools[q][Setters[k]] = Value(Given(at, step, q, k), q, k)
    BY <1>5, <1>10 DEF Stands
  <2>1. CASE q = p /\ k = step /\ SetterApplies(s, settled[p])
    <3> DEFINE G == Given(at, step + 1, q, k)
    <3>1. at \in G
      BY <1>1, <2>1 DEF Given
    <3>2. \A i \in G : i \in Nat /\ i <= at
      BY <1>1 DEF Given
    <3>3. Latest(G) = at
      <4> HIDE DEF G
      <4>1. Latest(G) \in G /\ \A i \in G : i <= Latest(G)
        BY <3>1, <3>2 DEF Latest
      <4>2. Latest(G) \in Nat /\ Latest(G) <= at
        BY <3>2, <4>1
      <4>3. at <= Latest(G) /\ at \in Nat
        BY <3>1, <3>2, <4>1
      <4>4. QED
        BY <4>2, <4>3
    <3>4. Value(G, q, k) = cfg[at][Setters[k]]
      BY <3>1, <3>3 DEF Value
    <3>5. QED
      BY <1>4, <1>7, <2>1, <3>4
  <2>2. CASE ~(q = p /\ k = step /\ SetterApplies(s, settled[p]))
    <3>1. Given(at, step + 1, q, k) = Given(at, step, q, k)
      <4>1. ASSUME NEW j \in 1..Len(cfg), cfg[j].threadPoolName = q,
                   SetterApplies(Setters[k], settled[q])
            PROVE  (j < at \/ (j = at /\ k < step + 1)) <=> (j < at \/ (j = at /\ k < step))
        <5>1. CASE j = at
          <6>1. k # step
            BY <2>2, <4>1, <5>1
          <6>2. QED
            BY <1>1, <6>1
        <5>2. CASE j # at
          BY <5>2
        <5>3. QED
          BY <5>1, <5>2
      <4>2. QED
        BY <4>1 DEF Given
    <3>2. pools'[q][Setters[k]] = pools[q][Setters[k]]
      BY <1>3, <1>4, <1>7, <2>2
    <3>3. QED
      BY <2>0, <3>1, <3>2
  <2>3. QED
    BY <2>1, <2>2
<1>11. Stands(at, step)'
  <2>1. /\ \A n, m, q, k : Given(n, m, q, k)' = Given(n, m, q, k)
        /\ \A G, q, k : Value(G, q, k)' = Value(G, q, k)
    BY <1>2, ValuesKept
  <2>2. QED
    BY <1>2, <1>10, <2>1 DEF Stands
<1>12. QED
  BY <1>1, <1>2, <1>8, <1>9, <1>11 DEF AtomInv

LEMMA AtomStep ==
  ASSUME Inv, AtomInv, [Next]_vars
  PROVE  AtomInv'
<1>1. CASE UNCHANGED vars
  BY <1>1, AtomElsewhere DEF vars, app, listener, history
<1>2. CASE Crash \/ Start \/ \E d \in Configs : Publish(d)
  <2>1. CASE Crash \/ Start
    BY <2>1, AtomIdle DEF Crash, Start, NoCall
  <2>2. ASSUME NEW d \in Configs, Publish(d) PROVE AtomInv'
    BY <2>2, AtomElsewhere DEF Publish, app, listener, history
  <2>3. QED
    BY <1>2, <2>1, <2>2
<1>3. CASE Daemon
  <2>1. UNCHANGED <<pools, pc, cfg, at, step, settled>>
    BY <1>3 DEF Daemon, BeginPass, Look, EndPass, ModificationNoticed, app, listener, history
  <2>2. QED
    BY <2>1, AtomElsewhere
<1>4. CASE Deliver \/ ClearList \/ AddAll \/ SetExecutors
  BY <1>4, AtomBind
<1>5. CASE BeginEntry
  <2>1. CASE pools[Name] = Missing
    BY <1>5, <2>1, AtomIdle DEF BeginEntry, Abort, NoCall
  <2>2. QED
    BY <1>5, <2>1, AtomBeginEntry
<1>6. CASE SetterThrows \/ Return
  BY <1>6, AtomIdle DEF SetterThrows, Return, Abort, NoCall
<1>7. CASE SetterReturns
  BY <1>7, AtomSetterReturns
<1>8. CASE NextEntry
  BY <1>8, AtomNextEntry
<1>9. QED
  BY <1>1, <1>2, <1>3, <1>4, <1>5, <1>6, <1>7, <1>8 DEF Next, Listener

\* The pools at the end of a call are those of the abstract step, if the entries and
\* setters that had an effect are the ones that the abstract step counts.
LEMMA EndIsApplied ==
  ASSUME Inv, AtomInv, up, pc # "idle", NEW n, NEW m, Stands(n, m),
         \A p \in Pools : settled[p] # Missing =>
           \A k \in 1..Len(Setters) :
             Atomic!Giving(settled, cfg, p, Setters[k]) = Given(n, m, p, k)
  PROVE  pools = Atomic!Applied(settled, cfg)
<1>1. /\ SamePools /\ cfg \in Configs
      /\ pools \in [Pools -> Executor \cup {Missing}]
      /\ settled \in [Pools -> Executor \cup {Missing}]
  BY DEF Inv, CallInv, TypeOK, AtomInv
<1>2. ASSUME NEW p \in Pools PROVE pools[p] = Atomic!Applied(settled, cfg)[p]
  <2>1. CASE settled[p] = Missing
    BY <1>1, <2>1 DEF SamePools, Atomic!Applied
  <2>2. CASE settled[p] # Missing
    <3> DEFINE G(s) == Atomic!Giving(settled, cfg, p, s)
               x == [s \in DOMAIN settled[p] |->
                       IF G(s) = {} THEN settled[p][s] ELSE cfg[Atomic!Latest(G(s))][s]]
    <3>1. Atomic!Applied(settled, cfg)[p] = x
      BY <2>2 DEF Atomic!Applied
    <3>2. /\ settled[p] \in Executor /\ pools[p] \in Executor
          /\ pools[p].queueType = settled[p].queueType
      BY <1>1, <2>2 DEF SamePools
    <3>3. \A T : Atomic!Latest(T) = Latest(T)
      BY DEF Atomic!Latest, Latest
    <3>4. ASSUME NEW k \in 1..Len(Setters) PROVE x[Setters[k]] = pools[p][Setters[k]]
      <4>1. G(Setters[k]) = Given(n, m, p, k)
        BY <2>2
      <4>2. pools[p][Setters[k]] = Value(Given(n, m, p, k), p, k)
        BY <2>2 DEF Stands
      <4>3. Setters[k] \in DOMAIN settled[p]
        BY <3>2 DEF Executor, Setters
      <4> HIDE DEF G
      <4>4. QED
        BY <3>3, <4>1, <4>2, <4>3 DEF Value
    <3>5. x.queueType = settled[p].queueType
      <4>1. G("queueType") = {}
        <5>1. \A k \in 1..Len(Atomic!Setters) : Atomic!Setters[k] # "queueType"
          BY DEF Atomic!Setters
        <5>2. QED
          BY <5>1 DEF Atomic!Giving
      <4>2. "queueType" \in DOMAIN settled[p]
        BY <3>2 DEF Executor
      <4> HIDE DEF G
      <4>3. QED
        BY <4>1, <4>2
    <3>6. DOMAIN settled[p] = {"corePoolSize", "maximumPoolSize", "keepAliveTime",
                               "handler", "queueCapacity", "queueType"}
      BY <3>2 DEF Executor
    <3>7. \A s \in DOMAIN settled[p] : x[s] = pools[p][s]
      <4>1. \A s \in DOMAIN settled[p] :
              s = "queueType" \/ \E k \in 1..Len(Setters) : s = Setters[k]
        BY <3>6 DEF Setters
      <4> HIDE DEF x
      <4>2. QED
        BY <3>2, <3>4, <3>5, <4>1
    <3>8. x = [s \in DOMAIN settled[p] |-> x[s]]
      OBVIOUS
    <3>9. pools[p] = [s \in DOMAIN settled[p] |-> pools[p][s]]
      BY <3>2, <3>6 DEF Executor
    <3>10. x = pools[p]
      <4> HIDE DEF x
      <4>1. QED
        BY <3>7, <3>8, <3>9
    <3>11. QED
      BY <3>1, <3>10
  <2>3. QED
    BY <2>1, <2>2
<1>3. Atomic!Applied(settled, cfg) = [p \in Pools |-> Atomic!Applied(settled, cfg)[p]]
  BY DEF Atomic!Applied
<1>4. pools = [p \in Pools |-> pools[p]]
  BY <1>1
<1>5. QED
  BY <1>2, <1>3, <1>4

LEMMA AtomicAccepts ==
  /\ \A e, k : Atomic!TakesEffect(e, k) <=> \A i \in 1..k : ~SetterRefuses(Setters[i], e, e)
  /\ \A P, e : Atomic!Accepts(P, e) <=> P[e.threadPoolName] # Missing /\ Taken(e)
<1>1. \A e, k : Atomic!TakesEffect(e, k) <=> \A i \in 1..k : ~SetterRefuses(Setters[i], e, e)
  BY AtomicOperators, Zenon DEF Atomic!TakesEffect
<1>2. \A P, e : Atomic!Accepts(P, e) <=> P[e.threadPoolName] # Missing /\ Taken(e)
  BY <1>1, AtomicOperators, Zenon DEF Atomic!Accepts, Taken
<1>3. QED
  BY <1>1, <1>2

\* A call that ended at the n-th entry, before its m-th setter, or after the last one.
LEMMA GivingIsGiven ==
  ASSUME NEW n \in 1..(Len(cfg) + 1), NEW m \in Nat, Len(cfg) \in Nat, AcceptedBefore(n),
         n # Len(cfg) + 1 => ~Atomic!Accepts(settled, cfg[n]),
         n # Len(cfg) + 1 /\ settled[cfg[n].threadPoolName] # Missing =>
           \A k \in 1..Len(Setters) : Atomic!TakesEffect(cfg[n], k) <=> k < m,
         NEW p \in Pools, settled[p] # Missing, NEW k \in 1..Len(Setters)
  PROVE  Atomic!Giving(settled, cfg, p, Setters[k]) = Given(n, m, p, k)
<1>1. Atomic!Setters = Setters /\ Len(Setters) = 5
  BY AtomicOperators DEF Setters
<1>2. \A i \in 1..Len(Setters) : Setters[i] = Setters[k] <=> i = k
  BY DEF Setters
<1>3. \A e : (\E i \in 1..Len(Atomic!Setters) : Atomic!Setters[i] = Setters[k] /\ Atomic!TakesEffect(e, i))
             <=> Atomic!TakesEffect(e, k)
  BY <1>1, <1>2
<1>4. ASSUME NEW j \in 1..Len(cfg), cfg[j].threadPoolName = p
      PROVE  j \in Atomic!Reached(settled, cfg) /\ Atomic!TakesEffect(cfg[j], k)
             <=> j < n \/ (j = n /\ k < m)
  <2>1. CASE j < n
    <3>1. \A i \in 1..j : Atomic!Accepts(settled, cfg[i])
      BY <2>1, AtomicAccepts DEF AcceptedBefore
    <3>2. j \in Atomic!Reached(settled, cfg)
      BY <3>1 DEF Atomic!Reached
    <3>3. Taken(cfg[j])
      BY <2>1 DEF AcceptedBefore
    <3>4. Atomic!TakesEffect(cfg[j], k)
      BY <1>1, <3>3, AtomicAccepts DEF Taken
    <3>5. QED
      BY <2>1, <3>2, <3>4
  <2>2. CASE j = n
    <3>1. \A i \in 1..(j - 1) : Atomic!Accepts(settled, cfg[i])
      BY <2>2, AtomicAccepts DEF AcceptedBefore
    <3>2. j \in Atomic!Reached(settled, cfg)
      BY <3>1 DEF Atomic!Reached
    <3>3. n # Len(cfg) + 1
      BY <2>2
    <3>4. Atomic!TakesEffect(cfg[j], k) <=> k < m
      BY <1>4, <2>2, <3>3
    <3>5. QED
      BY <2>2, <3>2, <3>4
  <2>3. CASE j > n
    <3>1. n \in 1..(j - 1) /\ ~Atomic!Accepts(settled, cfg[n])
      BY <2>3
    <3>2. j \notin Atomic!Reached(settled, cfg)
      BY <3>1 DEF Atomic!Reached
    <3>3. QED
      BY <2>3, <3>2
  <2>4. QED
    BY <2>1, <2>2, <2>3
<1>5. Atomic!SetterApplies(Setters[k], settled[p]) <=> SetterApplies(Setters[k], settled[p])
  BY AtomicOperators
<1>6. \A j \in Atomic!Reached(settled, cfg) : j \in 1..Len(cfg)
  BY DEF Atomic!Reached
<1>7. \A j : j \in Atomic!Giving(settled, cfg, p, Setters[k]) <=>
        /\ j \in 1..Len(cfg) /\ cfg[j].threadPoolName = p
        /\ j \in Atomic!Reached(settled, cfg) /\ Atomic!TakesEffect(cfg[j], k)
        /\ SetterApplies(Setters[k], settled[p])
  BY <1>3, <1>5, <1>6, Zenon DEF Atomic!Giving
<1>8. \A j : j \in Given(n, m, p, k) <=>
        /\ j \in 1..Len(cfg) /\ cfg[j].threadPoolName = p
        /\ j < n \/ (j = n /\ k < m)
        /\ SetterApplies(Setters[k], settled[p])
  BY DEF Given
<1>9. \A j : j \in Atomic!Giving(settled, cfg, p, Setters[k]) <=> j \in Given(n, m, p, k)
  BY <1>4, <1>7, <1>8, Zenon
<1>10. QED
  BY <1>9

\* An entry whose pool does not exist ends the call.
LEMMA MissingPoolImplements ==
  ASSUME Inv, AtomInv, BeginEntry, pools[Name] = Missing
  PROVE  Atomic!Refresh(cfg)
<1>1. /\ up /\ pc = "entry" /\ executors = cfg /\ cfg \in Configs
      /\ at \in 1..Len(cfg) /\ Len(cfg) \in Nat /\ Name = cfg[at].threadPoolName
  BY EntryType DEF BeginEntry, Inv, CallInv, TypeOK, Entry, Name
<1>2. /\ settled' = pools /\ UNCHANGED <<called, nacos, up>>
  BY DEF BeginEntry, Abort, world
<1>3. Stands(at, 1) /\ AcceptedBefore(at) /\ settled[cfg[at].threadPoolName] = Missing
  BY <1>1, EntryType DEF AtomInv, SamePools
<1>4. ~Atomic!Accepts(settled, cfg[at])
  BY <1>3, AtomicAccepts
<1>5. \A p \in Pools : settled[p] # Missing => \A k \in 1..Len(Setters) :
        Atomic!Giving(settled, cfg, p, Setters[k]) = Given(at, 1, p, k)
  <2>1. at \in 1..(Len(cfg) + 1) /\ 1 \in Nat
    BY <1>1
  <2>2. QED
    BY <1>1, <1>3, <1>4, <2>1, GivingIsGiven
<1>6. pools = Atomic!Applied(settled, cfg)
  BY <1>1, <1>3, <1>5, EndIsApplied
<1>7. ~Atomic!AcceptsAll(settled, cfg)
  BY <1>1, <1>4 DEF Atomic!AcceptsAll
<1>8. QED
  BY <1>1, <1>2, <1>6, <1>7 DEF Atomic!Refresh

\* A setter that throws ends the call.
LEMMA SetterThrowsImplements ==
  ASSUME Inv, AtomInv, SetterThrows
  PROVE  Atomic!Refresh(cfg)
<1>1. /\ up /\ pc = "set" /\ executors = cfg /\ cfg \in Configs
      /\ at \in 1..Len(cfg) /\ Len(cfg) \in Nat
      /\ step \in 1..Len(Setters) /\ Len(Setters) = 5
      /\ Entry = cfg[at] /\ Name = cfg[at].threadPoolName
  BY SetterNext DEF SetterThrows
<1>2. /\ settled' = pools /\ UNCHANGED <<called, nacos, up>>
  BY DEF SetterThrows, Abort, world
<1>3. Stands(at, step) /\ AcceptedBefore(at)
  BY <1>1 DEF AtomInv
<1>4. SetterRefuses(Setters[step], cfg[at], cfg[at])
  BY <1>1, RefusalIsOfEntry DEF SetterThrows
<1>5. ~Atomic!Accepts(settled, cfg[at])
  BY <1>1, <1>4, AtomicAccepts DEF Taken
<1>6. \A k \in 1..Len(Setters) : Atomic!TakesEffect(cfg[at], k) <=> k < step
  <2>1. \A i \in 1..(step - 1) : ~SetterRefuses(Setters[i], cfg[at], cfg[at])
    BY <1>1 DEF Inv, ProgressInv
  <2>2. QED
    BY <1>1, <1>4, <2>1, AtomicAccepts
<1>7. \A p \in Pools : settled[p] # Missing => \A k \in 1..Len(Setters) :
        Atomic!Giving(settled, cfg, p, Setters[k]) = Given(at, step, p, k)
  <2>1. at \in 1..(Len(cfg) + 1) /\ step \in Nat
    BY <1>1
  <2>2. QED
    BY <1>1, <1>3, <1>5, <1>6, <2>1, GivingIsGiven
<1>8. pools = Atomic!Applied(settled, cfg)
  BY <1>1, <1>3, <1>7, EndIsApplied
<1>9. ~Atomic!AcceptsAll(settled, cfg)
  BY <1>1, <1>5 DEF Atomic!AcceptsAll
<1>10. QED
  BY <1>1, <1>2, <1>8, <1>9 DEF Atomic!Refresh

LEMMA ReturnImplements ==
  ASSUME Inv, AtomInv, Return
  PROVE  Atomic!Refresh(cfg)
<1>1. /\ up /\ pc = "entry" /\ executors = cfg /\ cfg \in Configs
      /\ Len(cfg) \in Nat /\ at = Len(cfg) + 1
  BY EntryType DEF Return, Inv, CallInv, TypeOK
<1>2. /\ settled' = pools /\ called' = cfg /\ UNCHANGED <<nacos, up>>
  BY DEF Return, world
<1>3. Stands(at, 1) /\ AcceptedBefore(at)
  BY <1>1 DEF AtomInv
<1>4. \A p \in Pools : settled[p] # Missing => \A k \in 1..Len(Setters) :
        Atomic!Giving(settled, cfg, p, Setters[k]) = Given(at, 1, p, k)
  <2>1. at \in 1..(Len(cfg) + 1) /\ 1 \in Nat
    BY <1>1
  <2>2. QED
    BY <1>1, <1>3, <2>1, GivingIsGiven
<1>5. pools = Atomic!Applied(settled, cfg)
  BY <1>1, <1>3, <1>4, EndIsApplied
<1>6. Atomic!AcceptsAll(settled, cfg)
  BY <1>1, <1>3, AtomicAccepts DEF Atomic!AcceptsAll, AcceptedBefore
<1>7. QED
  BY <1>1, <1>2, <1>5, <1>6 DEF Atomic!Refresh

LEMMA AtomicStep ==
  ASSUME Inv, AtomInv, [Next]_vars
  PROVE  [Atomic!Next]_Atomic!vars
<1> USE DEF Atomic!vars
<1>1. CASE UNCHANGED vars
  BY <1>1 DEF vars, world, listener, history
<1>2. ASSUME NEW d \in Configs, Publish(d) PROVE Atomic!Next
  BY <1>2 DEF Publish, listener, history, Atomic!Next, Atomic!Publish
<1>3. CASE Crash
  BY <1>3 DEF Crash, history, Atomic!Next, Atomic!Crash
<1>4. CASE Start
  <2>1. Atomic!Start
    BY <1>4, AtomicStartOperators DEF Start, Atomic!Start
  <2>2. QED
    BY <2>1 DEF Atomic!Next
<1>5. CASE Daemon
  BY <1>5 DEF Daemon, BeginPass, Look, EndPass, ModificationNoticed, world, listener, history
<1>6. CASE Deliver \/ ClearList \/ AddAll \/ SetExecutors \/ SetterReturns \/ NextEntry
  BY <1>6 DEF Deliver, ClearList, AddAll, SetExecutors, SetterReturns, NextEntry, world, history
<1>7. CASE BeginEntry \/ SetterThrows \/ Return
  <2>1. cfg \in Configs
    BY <1>7 DEF Inv, CallInv, BeginEntry, SetterThrows, Return
  <2>2. CASE BeginEntry /\ pools[Name] # Missing
    BY <2>2 DEF BeginEntry, world, history
  <2>3. CASE ~(BeginEntry /\ pools[Name] # Missing)
    <3>1. Atomic!Refresh(cfg)
      BY <1>7, <2>3, MissingPoolImplements, SetterThrowsImplements, ReturnImplements
    <3>2. QED
      BY <2>1, <3>1 DEF Atomic!Next
  <2>4. QED
    BY <2>2, <2>3
<1>8. QED
  BY <1>1, <1>2, <1>3, <1>4, <1>5, <1>6, <1>7 DEF Next, Listener

\* Seen from outside the call, a refresh is one step whose effect depends on the pools
\* it found and on the content alone, whichever entry or setter it ended with, and
\* whatever was published, read by the daemon or lost in a crash meanwhile
\* (DynamicThreadPoolManager.refreshThreadPoolExecutor).
THEOREM RefreshesAreAtomic == Spec => RefreshIsAtomic
<1>1. Init => Inv /\ AtomInv /\ Atomic!Init
  BY InitInv DEF Init, AtomInv, Atomic!Init
<1>2. Inv /\ AtomInv /\ [Next]_vars => Inv' /\ AtomInv' /\ [Atomic!Next]_Atomic!vars
  BY InvStep, AtomStep, AtomicStep
<1>3. QED
  BY <1>1, <1>2, PTL DEF Spec, RefreshIsAtomic, Atomic!Spec
=============================================================================
