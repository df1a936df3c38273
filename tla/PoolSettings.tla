---------------------------- MODULE PoolSettings ----------------------------
(***************************************************************************)
(* What a configuration says of the pools and which settings an executor   *)
(* accepts: the constructors that DynamicThreadPoolManager.init calls, and *)
(* the setters that refreshThreadPoolExecutor calls.                       *)
(*                                                                         *)
(* A configuration is the list dynamic.threadpools.executors.  An entry    *)
(* names a pool and gives its settings; a running pool is the record of    *)
(* the settings it runs with, or Missing.                                  *)
(***************************************************************************)
EXTENDS Integers, Sequences

CONSTANTS Pools,     \* names of pools
          Handlers,  \* rejection policies
          Configs,   \* the configurations that may be published
          Missing    \* what a map returns for an absent key

QueueTypes == {"dynamic", "array", "synchronous"}

Executor == [corePoolSize : Int, maximumPoolSize : Int, keepAliveTime : Int,
             handler : Handlers, queueCapacity : Int, queueType : QueueTypes]

ThreadPoolProperties ==
  [threadPoolName : Pools, corePoolSize : Int, maximumPoolSize : Int,
   keepAliveTime : Int, handler : Handlers, queueCapacity : Int,
   queueType : QueueTypes]

ASSUME ConfigsAssumption == Configs \subseteq Seq(ThreadPoolProperties) \ {<<>>}

ASSUME MissingAssumption ==
  Missing \notin Executor /\ Missing \notin ThreadPoolProperties /\ Missing \notin Configs

\* The setters in the order in which a refresh calls them.
Setters == <<"corePoolSize", "maximumPoolSize", "keepAliveTime", "handler", "queueCapacity">>

Names(c) == {c[i].threadPoolName : i \in 1..Len(c)}

\* A list may name a pool twice: init creates it from the first entry, since it
\* then exists, and a refresh leaves it as the last one says.
First(c, p) == CHOOSE i \in 1..Len(c) :
  c[i].threadPoolName = p /\ \A j \in 1..(i - 1) : c[j].threadPoolName # p
Final(c, p) == CHOOSE i \in 1..Len(c) :
  c[i].threadPoolName = p /\ \A j \in (i + 1)..Len(c) : c[j].threadPoolName # p

NoDuplicates(c) == \A i, j \in 1..Len(c) :
  c[i].threadPoolName = c[j].threadPoolName => i = j

-----------------------------------------------------------------------------
\* The JDK's constructors of the executor and of the queue: IllegalArgumentException.
\* A synchronous queue is given no capacity.
ConstructorRefuses(e) ==
  \/ e.corePoolSize < 0 \/ e.maximumPoolSize <= 0 \/ e.maximumPoolSize < e.corePoolSize
  \/ e.keepAliveTime < 0
  \/ e.queueType # "synchronous" /\ e.queueCapacity <= 0

\* init creates every pool, or the application does not start.
Startable(c) == \A p \in Names(c) : ~ConstructorRefuses(c[First(c, p)])

Settings(e) == [s \in DOMAIN e \ {"threadPoolName"} |-> e[s]]

Created(c) == [p \in Pools |->
  IF p \in Names(c) THEN Settings(c[First(c, p)]) ELSE Missing]

\* Mutant: the maximum is not compared with the core size.
SetterRefusesLess(s, e, pool) ==
  \/ s = "corePoolSize" /\ e.corePoolSize < 0
  \/ s = "maximumPoolSize" /\ e.maximumPoolSize <= 0
  \/ s = "keepAliveTime" /\ e.keepAliveTime < 0

\* The JDK 8 setters: the core size is not compared with the maximum, the maximum
\* is compared with the core size in force, and setCapacity accepts anything.
SetterRefuses(s, e, pool) ==
  \/ s = "corePoolSize" /\ e.corePoolSize < 0
  \/ s = "maximumPoolSize" /\ (e.maximumPoolSize <= 0 \/ e.maximumPoolSize < pool.corePoolSize)
  \/ s = "keepAliveTime" /\ e.keepAliveTime < 0

\* Mutant: the keep-alive time is not passed on.
SetterAppliesLess(s, pool) ==
  /\ s = "queueCapacity" => pool.queueType = "dynamic"
  /\ s # "keepAliveTime"

\* Only the resizable queue is given a new capacity.
SetterApplies(s, pool) == s = "queueCapacity" => pool.queueType = "dynamic"
=============================================================================
