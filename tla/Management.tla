------------------------------ MODULE Management ------------------------------
(***************************************************************************)
(* The life of an application's processes in the management database, and  *)
(* the console that edits their pools.  A process registers itself from a  *)
(* thread of its own (PersistThreadPoolThread), one SQL statement after    *)
(* the other, writes its indicators every few seconds, and records its end *)
(* when a signal tells it to stop.  The console reads an instance's row,   *)
(* publishes a configuration to Nacos and writes the row of the pool.      *)
(*                                                                         *)
(* One number stands for the settings of a pool, 0 for the zeros that      *)
(* MyBatis-Plus writes into the primitive columns of an entity in which    *)
(* only the status or the indicator was set.  There is one process per     *)
(* host: its address and the application's name identify its row, which    *)
(* is why a host stands for its row's identifier.  What a refresh does to  *)
(* the pools is in ConfigRefresh; only the list it binds matters here.     *)
(***************************************************************************)
EXTENDS Integers, SequencesExt

CONSTANTS Hosts,
          Steady,       \* bound: hosts whose process is registered before and goes on
          PoolList,     \* the names of the entries, in the order of every configuration
          Users,        \* requests that the console may be serving at once
          Missing,      \* null, or no row
          MaxValue,     \* bound: settings are 0..MaxValue
          MaxEdits, MaxStops, MaxFailures  \* bounds: edits, crashes and signals, failed calls

Pools == ToSet(PoolList)

\* A list may name a pool twice: entries without a name share the default one.
ASSUME PoolsAssumption == PoolList \in Seq(Pools)

ASSUME BoundsAssumption ==
  /\ Steady \subseteq Hosts /\ IsFiniteSet(Steady) /\ MaxValue \in Nat \ {0}
  /\ MaxEdits \in Nat /\ MaxStops \in Nat /\ MaxFailures \in Nat

Settings == 0..MaxValue
Accepted == 1..MaxValue      \* no pool accepts a maximum of 0
Config   == [DOMAIN PoolList -> Settings]    \* each entry has settings of its own
Instance == [status : {"RUNNING", "SHUTDOWN"}, executors : Config]

ASSUME MissingAssumption == Missing \notin Hosts /\ Missing \notin Nat /\ Missing \notin Instance

VARIABLES
  \* Nacos and the database
  nacos,      \* the published configuration
  instance,   \* application_instance_info, by host
  rows,       \* dynamic_thread_pool_info: a row's identifier is its place
  \* per process
  up,
  bound,      \* its list of executors, the properties bean's
  reg,        \* where the registration thread is
  copy,       \* the list of executors as it last copied it, to JSON or to entities
  ids,        \* resultMap: the identifiers of the rows it found or inserted
  found,      \* the pools whose rows it found
  todo,       \* the entries whose pools have no row it found, still to be inserted
  instanceId, \* appInstanceId
  poolIds,    \* threadPoolId of each executor
  term,       \* where the signal handler is
  target,     \* the identifier it was called with
  \* the console
  request,    \* the edit that each user's request is about
  edit,       \* where it is
  \* bounds and history
  edits, stops, failures,
  told,       \* how far the process had registered when its last signal came
  wanted      \* per pool, the value of the last edit that was not refused

store    == <<nacos, instance, rows>>
process  == <<up, bound>>
registry == <<reg, copy, ids, found, todo, instanceId, poolIds>>
handler  == <<term, target>>
console  == <<request, edit, wanted, edits>>
vars     == <<store, process, registry, handler, console, stops, failures, told>>

Row == [host : Hosts, name : Pools, status : {"RUNNING", "SHUTDOWN"}, value : Settings]
Request == [id : Nat, name : Pools, value : Settings, executors : Config]
NoIds == [p \in Pools |-> Missing]

Entries(p) == {k \in DOMAIN PoolList : PoolList[k] = p}
First(p) == CHOOSE k \in Entries(p) : \A j \in Entries(p) : k <= j
Final(p) == CHOOSE k \in Entries(p) : \A j \in Entries(p) : j <= k

\* The processes registered before each inserted a row per entry, in some order.
Init ==
  /\ nacos = [k \in DOMAIN PoolList |-> 1]
  /\ bound = [h \in Hosts |-> nacos]
  /\ up = [h \in Hosts |-> h \in Steady]
  /\ instance = [h \in Hosts |-> IF h \in Steady
                   THEN [status |-> "RUNNING", executors |-> nacos] ELSE Missing]
  /\ LET order == SetToSeq(Steady \X DOMAIN PoolList)
     IN
       /\ rows = [i \in DOMAIN order |-> [host |-> order[i][1], name |-> PoolList[order[i][2]],
                                          status |-> "RUNNING", value |-> 1]]
       /\ poolIds = [h \in Hosts |-> IF h \notin Steady THEN NoIds
            ELSE [p \in Pools |-> CHOOSE i \in DOMAIN order : order[i] = <<h, Final(p)>>]]
  /\ ids = poolIds
  /\ instanceId = [h \in Hosts |-> IF h \in Steady THEN h ELSE Missing]
  /\ reg = [h \in Hosts |-> IF h \in Steady THEN "done" ELSE "off"]
  /\ copy = [h \in Hosts |-> Missing]
  /\ found = [h \in Hosts |-> {}] /\ todo = [h \in Hosts |-> {}]
  /\ term = [h \in Hosts |-> "none"] /\ target = [h \in Hosts |-> Missing]
  /\ request = [u \in Users |-> Missing] /\ edit = [u \in Users |-> "idle"]
  /\ wanted = [p \in Pools |-> Missing]
  /\ edits = 0 /\ stops = 0 /\ failures = 0
  /\ told = [h \in Hosts |-> "no"]

-----------------------------------------------------------------------------
(***************************************************************************)
(* The process: start, refresh, crash.                                     *)
(***************************************************************************)

\* init creates each pool from its first entry and starts the registration thread.
Start(h) ==
  /\ ~up[h] /\ \A p \in Pools : nacos[First(p)] \in Accepted
  /\ up' = [up EXCEPT ![h] = TRUE]
  /\ bound' = [bound EXCEPT ![h] = nacos]
  /\ reg' = [reg EXCEPT ![h] = "begin"]
  /\ told' = [told EXCEPT ![h] = "no"]
  /\ UNCHANGED <<store, copy, ids, found, todo, instanceId, poolIds, handler, console, stops, failures>>

\* The list of executors is refilled from what is published, whether or not a pool
\* refuses its settings afterwards.
Refresh(h) ==
  /\ up[h] /\ bound[h] # nacos
  /\ bound' = [bound EXCEPT ![h] = nacos]
  /\ UNCHANGED <<store, up, registry, handler, console, stops, failures, told>>

\* What the process knows is gone.
Forget(h) ==
  /\ up' = [up EXCEPT ![h] = FALSE]
  /\ reg' = [reg EXCEPT ![h] = "off"]
  /\ copy' = [copy EXCEPT ![h] = Missing] /\ ids' = [ids EXCEPT ![h] = NoIds]
  /\ found' = [found EXCEPT ![h] = {}] /\ todo' = [todo EXCEPT ![h] = {}]
  /\ instanceId' = [instanceId EXCEPT ![h] = Missing]
  /\ poolIds' = [poolIds EXCEPT ![h] = NoIds]
  /\ term' = [term EXCEPT ![h] = "none"] /\ target' = [target EXCEPT ![h] = Missing]
  /\ UNCHANGED bound

\* It is killed, or told to stop before it handles signals.
Crash(h) ==
  /\ up[h] /\ h \notin Steady /\ stops < MaxStops
  /\ stops' = stops + 1
  /\ Forget(h)
  /\ told' = [told EXCEPT ![h] = "no"]
  /\ UNCHANGED <<store, console, failures>>

-----------------------------------------------------------------------------
(***************************************************************************)
(* PersistThreadPoolThread.run and the statements of                       *)
(* DynamicThreadPoolMySqlServiceImpl that it executes.                     *)
(***************************************************************************)

Goto(h, label) == reg' = [reg EXCEPT ![h] = label]

\* The signal handlers are installed, the list of executors becomes JSON, and
\* insertApplicationInfo sees to the application's row, whose identifier stays.
RegisterBegin(h) ==
  /\ reg[h] = "begin"
  /\ copy' = [copy EXCEPT ![h] = bound[h]]
  /\ Goto(h, "instance")
  /\ UNCHANGED <<store, process, ids, found, todo, instanceId, poolIds, handler, console, stops, failures, told>>

\* insertInstanceInfo selects the row of this host.
SelectInstance(h) ==
  /\ reg[h] = "instance"
  /\ Goto(h, IF instance[h] = Missing THEN "insert" ELSE "update")
  /\ UNCHANGED <<store, process, copy, ids, found, todo, instanceId, poolIds, handler, console, stops, failures, told>>

\* The row that exists keeps its list of executors.
UpdateInstance(h) ==
  /\ reg[h] = "update"
  /\ instance' = [instance EXCEPT ![h].status = "RUNNING"]
  /\ Goto(h, "select")
  /\ UNCHANGED <<nacos, rows, process, copy, ids, found, todo, instanceId, poolIds, handler, console, stops, failures, told>>
\* Mutant: setExecutors is forgotten.
InsertInstanceBare(h) ==
  /\ reg[h] = "insert"
  /\ instance' = [instance EXCEPT ![h] = [status |-> "RUNNING", executors |-> Missing]]
  /\ Goto(h, "select")
  /\ UNCHANGED <<nacos, rows, process, copy, ids, found, todo, instanceId, poolIds, handler, console, stops, failures, told>>

\* The row that is inserted has the list that was made JSON.
InsertInstance(h) ==
  /\ reg[h] = "insert"
  /\ instance' = [instance EXCEPT ![h] = [status |-> "RUNNING", executors |-> copy[h]]]
  /\ Goto(h, "select")
  /\ UNCHANGED <<nacos, rows, process, copy, ids, found, todo, instanceId, poolIds, handler, console, stops, failures, told>>

RowsOf(h) == {i \in DOMAIN rows : rows[i].host = h}

\* Collectors.toMap takes the rows of an instance only if their names differ.
NamesDiffer(h) == \A i, j \in RowsOf(h) : rows[i].name = rows[j].name => i = j

\* Mutant: the rows that exist are not looked up.
SelectRowsNone(h) ==
  /\ reg[h] = "select"
  /\ instanceId' = [instanceId EXCEPT ![h] = h] /\ copy' = [copy EXCEPT ![h] = bound[h]]
  /\ found' = [found EXCEPT ![h] = {}] /\ todo' = [todo EXCEPT ![h] = DOMAIN PoolList]
  /\ ids' = [ids EXCEPT ![h] = NoIds]
  /\ Goto(h, "each")
  /\ UNCHANGED <<store, process, poolIds, handler, console, stops, failures, told>>

\* Mutant: the query does not name the instance, and one row of each name is taken.
SelectRowsByName(h) ==
  /\ reg[h] = "select"
  /\ instanceId' = [instanceId EXCEPT ![h] = h] /\ copy' = [copy EXCEPT ![h] = bound[h]]
  /\ found' = [found EXCEPT ![h] = {rows[i].name : i \in DOMAIN rows}]
  /\ todo' = [todo EXCEPT ![h] = {k \in DOMAIN PoolList : PoolList[k] \notin found'[h]}]
  /\ ids' = [ids EXCEPT ![h] = [p \in Pools |->
       IF p \in found'[h] THEN CHOOSE i \in DOMAIN rows : rows[i].name = p ELSE Missing]]
  /\ Goto(h, "each")
  /\ UNCHANGED <<store, process, poolIds, handler, console, stops, failures, told>>

\* appInstanceId is assigned, the list is copied again, and insertThreadPoolByBatch
\* makes a map of the rows of the instance.
SelectRows(h) ==
  /\ reg[h] = "select" /\ NamesDiffer(h)
  /\ instanceId' = [instanceId EXCEPT ![h] = h] /\ copy' = [copy EXCEPT ![h] = bound[h]]
  /\ found' = [found EXCEPT ![h] = {rows[i].name : i \in RowsOf(h)}]
  /\ todo' = [todo EXCEPT ![h] = {k \in DOMAIN PoolList : PoolList[k] \notin found'[h]}]
  /\ ids' = [ids EXCEPT ![h] = [p \in Pools |->
       IF p \in found'[h] THEN CHOOSE i \in RowsOf(h) : rows[i].name = p ELSE Missing]]
  /\ Goto(h, "each")
  /\ UNCHANGED <<store, process, poolIds, handler, console, stops, failures, told>>

\* toMap throws IllegalStateException, which ends the thread.
SelectRowsThrows(h) ==
  /\ reg[h] = "select" /\ ~NamesDiffer(h)
  /\ instanceId' = [instanceId EXCEPT ![h] = h]
  /\ Goto(h, "thrown")
  /\ UNCHANGED <<store, process, copy, ids, found, todo, poolIds, handler, console, stops, failures, told>>

\* An entry whose pool is not in the map gets a row, although an earlier entry of the
\* same pool may have got one by now; the status is the column's default.
InsertRow(h) ==
  /\ reg[h] = "each"
  /\ \E k \in todo[h] :
       /\ \A j \in todo[h] : k <= j
       /\ rows' = Append(rows, [host |-> h, name |-> PoolList[k], status |-> "RUNNING",
                                value |-> copy[h][k]])
       /\ ids' = [ids EXCEPT ![h][PoolList[k]] = Len(rows) + 1]
       /\ todo' = [todo EXCEPT ![h] = @ \ {k}]
  /\ UNCHANGED <<nacos, instance, process, reg, copy, found, instanceId, poolIds, handler, console, stops, failures, told>>

\* An entity with nothing but a status: its primitive fields are written as well.
WithStatus(row, status) == [row EXCEPT !.status = status, !.value = 0]

\* Mutant: the rows that were found keep their status.
UpdateRowsIdsOnly(h) ==
  /\ reg[h] = "each" /\ todo[h] = {}
  /\ poolIds' = [poolIds EXCEPT ![h] = ids[h]]
  /\ Goto(h, "done")
  /\ UNCHANGED <<store, process, copy, ids, found, todo, instanceId, handler, console, stops, failures, told>>

\* Mutant: everything waits for a row that was found.
UpdateRowsFound(h) ==
  /\ reg[h] = "each" /\ todo[h] = {} /\ found[h] # {}
  /\ rows' = [i \in DOMAIN rows |->
       IF \E p \in found[h] : ids[h][p] = i THEN WithStatus(rows[i], "RUNNING") ELSE rows[i]]
  /\ poolIds' = [poolIds EXCEPT ![h] = ids[h]]
  /\ Goto(h, "done")
  /\ UNCHANGED <<nacos, instance, process, copy, ids, found, todo, instanceId, handler, console, stops, failures, told>>

\* One statement for all the rows that were found; then the executors learn the
\* identifiers of their rows.
UpdateRows(h) ==
  /\ reg[h] = "each" /\ todo[h] = {}
  /\ rows' = [i \in DOMAIN rows |->
       IF \E p \in found[h] : ids[h][p] = i THEN WithStatus(rows[i], "RUNNING") ELSE rows[i]]
  /\ poolIds' = [poolIds EXCEPT ![h] = ids[h]]
  /\ Goto(h, "done")
  /\ UNCHANGED <<nacos, instance, process, copy, ids, found, todo, instanceId, handler, console, stops, failures, told>>

\* A statement fails: the exception ends the thread.  That which selects the rows
\* comes after the assignment of appInstanceId.
RegisterFails(h) ==
  /\ reg[h] \in {"instance", "update", "insert", "select", "each"}
  /\ failures < MaxFailures
  /\ failures' = failures + 1
  /\ instanceId' = [instanceId EXCEPT ![h] = IF reg[h] = "select" THEN h ELSE @]
  /\ Goto(h, "failed")
  /\ UNCHANGED <<store, process, copy, ids, found, todo, poolIds, handler, console, stops, told>>

Register(h) ==
  \/ RegisterBegin(h) \/ SelectInstance(h) \/ UpdateInstance(h) \/ InsertInstance(h)
  \/ SelectRows(h) \/ SelectRowsThrows(h) \/ InsertRow(h) \/ UpdateRows(h)

-----------------------------------------------------------------------------
(***************************************************************************)
(* The indicator thread and the signal handler of a process.               *)
(***************************************************************************)

\* indicatorNotify, one pool: an entity with nothing but the indicator, and the
\* identifier of the row, which is null until the pool is registered.
Indicate(h, p) ==
  /\ up[h] /\ poolIds[h][p] # Missing
  /\ rows' = [rows EXCEPT ![poolIds[h][p]].value = 0]
  /\ UNCHANGED <<nacos, instance, process, registry, handler, console, stops, failures, told>>

\* TERM or INT: handle calls shutDown with the identifier that is known by then.  A
\* signal that comes after a handler that failed is handled again.
Signal(h) ==
  /\ up[h] /\ reg[h] # "begin" /\ term[h] \in {"none", "failed"}
  /\ h \notin Steady /\ stops < MaxStops
  /\ stops' = stops + 1
  /\ term' = [term EXCEPT ![h] = "instance"]
  /\ target' = [target EXCEPT ![h] = instanceId[h]]
  /\ told' = [told EXCEPT ![h] = IF reg[h] = "done" THEN "registered"
                             ELSE IF instanceId[h] # Missing THEN "known" ELSE "unknown"]
  /\ UNCHANGED <<store, process, registry, console, failures>>
\* Mutant: the rows of the pools are forgotten.
ShutDownInstanceOnly(h) ==
  /\ term[h] = "instance"
  /\ instance' = IF target[h] = Missing THEN instance
                 ELSE [instance EXCEPT ![target[h]].status = "SHUTDOWN"]
  /\ term' = [term EXCEPT ![h] = "exit"]
  /\ UNCHANGED <<nacos, rows, process, registry, target, console, stops, failures, told>>

\* Mutant: the handler waits for an identifier.
ShutDownInstanceKnown(h) ==
  /\ term[h] = "instance" /\ target[h] # Missing
  /\ instance' = IF target[h] = Missing THEN instance
                 ELSE [instance EXCEPT ![target[h]].status = "SHUTDOWN"]
  /\ term' = [term EXCEPT ![h] = "rows"]
  /\ UNCHANGED <<nacos, rows, process, registry, target, console, stops, failures, told>>

\* shutDown, first statement; with a null identifier it updates nothing.
ShutDownInstance(h) ==
  /\ term[h] = "instance"
  /\ instance' = IF target[h] = Missing THEN instance
                 ELSE [instance EXCEPT ![target[h]].status = "SHUTDOWN"]
  /\ term' = [term EXCEPT ![h] = "rows"]
  /\ UNCHANGED <<nacos, rows, process, registry, target, console, stops, failures, told>>

ShutDownRows(h) ==
  /\ term[h] = "rows"
  /\ rows' = [i \in DOMAIN rows |->
       IF rows[i].host = target[h] THEN WithStatus(rows[i], "SHUTDOWN") ELSE rows[i]]
  /\ term' = [term EXCEPT ![h] = "exit"]
  /\ UNCHANGED <<nacos, instance, process, registry, target, console, stops, failures, told>>

\* System.exit
Exit(h) ==
  /\ term[h] = "exit"
  /\ Forget(h)
  /\ UNCHANGED <<store, console, stops, failures, told>>

\* A statement fails: the exception ends the handler, and the process goes on.
ShutDownFails(h) ==
  /\ term[h] \in {"instance", "rows"} /\ failures < MaxFailures
  /\ failures' = failures + 1
  /\ term' = [term EXCEPT ![h] = "failed"] /\ target' = [target EXCEPT ![h] = Missing]
  /\ UNCHANGED <<store, process, registry, console, stops, told>>

Handle(h) == ShutDownInstance(h) \/ ShutDownRows(h) \/ Exit(h)

-----------------------------------------------------------------------------
(***************************************************************************)
(* DynamicThreadPoolManageServiceImpl.updateDynamicThreadPoolInfo.         *)
(***************************************************************************)

\* A user saves the form of a row, with a new value or with the one the form was
\* filled with, and the service reads the row of the instance.
EditBegin(u) ==
  /\ edit[u] = "idle" /\ edits < MaxEdits
  /\ \E i \in DOMAIN rows : \E v \in Accepted \cup {rows[i].value} :
       request' = [request EXCEPT ![u] =
         [id |-> i, name |-> rows[i].name, value |-> v,
          executors |-> instance[rows[i].host].executors]]
  /\ edit' = [edit EXCEPT ![u] = "publish"] /\ edits' = edits + 1
  /\ UNCHANGED <<store, process, registry, handler, wanted, stops, failures, told>>

\* The instance's list, with the settings of the pool's first entry replaced, is
\* published.
EditPublish(u) ==
  /\ edit[u] = "publish"
  /\ LET r == request[u]
     IN /\ nacos' = [r.executors EXCEPT ![First(r.name)] = r.value]
        /\ wanted' = [wanted EXCEPT ![r.name] = r.value]
  /\ edit' = [edit EXCEPT ![u] = "row"]
  /\ UNCHANGED <<instance, rows, process, registry, handler, request, edits, stops, failures, told>>

\* A NacosException is logged, and the row written nevertheless.
EditNotPublished(u) ==
  /\ edit[u] = "publish" /\ failures < MaxFailures
  /\ failures' = failures + 1
  /\ edit' = [edit EXCEPT ![u] = "row"]
  /\ UNCHANGED <<store, process, registry, handler, request, wanted, edits, stops, told>>

EditDone(u) == edit' = [edit EXCEPT ![u] = "idle"] /\ request' = [request EXCEPT ![u] = Missing]

EditRow(u) ==
  /\ edit[u] = "row"
  /\ rows' = [rows EXCEPT ![request[u].id].value = request[u].value]
  /\ EditDone(u)
  /\ UNCHANGED <<nacos, instance, process, registry, handler, wanted, edits, stops, failures, told>>

EditRowFails(u) ==
  /\ edit[u] = "row" /\ failures < MaxFailures
  /\ failures' = failures + 1
  /\ EditDone(u)
  /\ UNCHANGED <<store, process, registry, handler, wanted, edits, stops, told>>

Edit(u) == EditPublish(u) \/ EditRow(u)

-----------------------------------------------------------------------------
Next ==
  \/ \E h \in Hosts :
       \/ Start(h) \/ Refresh(h) \/ Crash(h)
       \/ Register(h) \/ RegisterFails(h)
       \/ \E p \in Pools : Indicate(h, p)
       \/ Signal(h) \/ Handle(h) \/ ShutDownFails(h)
  \/ \E u \in Users :
       EditBegin(u) \/ Edit(u) \/ EditNotPublished(u) \/ EditRowFails(u)

\* The threads of a process are scheduled.
Fairness == \A h \in Hosts : WF_vars(Register(h)) /\ WF_vars(Handle(h))

Spec == Init /\ [][Next]_vars /\ Fairness

-----------------------------------------------------------------------------
(***************************************************************************)
(* Properties.                                                             *)
(***************************************************************************)

\* Every variable keeps its type.
TypeOK ==
  /\ nacos \in Config
  /\ instance \in [Hosts -> Instance \cup {Missing}]
  /\ rows \in Seq(Row)
  /\ up \in [Hosts -> BOOLEAN] /\ bound \in [Hosts -> Config]
  /\ reg \in [Hosts -> {"off", "begin", "instance", "update", "insert",
                        "select", "each", "done", "failed", "thrown"}]
  /\ copy \in [Hosts -> Config \cup {Missing}]
  /\ found \in [Hosts -> SUBSET Pools] /\ todo \in [Hosts -> SUBSET DOMAIN PoolList]
  /\ ids \in [Hosts -> [Pools -> DOMAIN rows \cup {Missing}]]
  /\ poolIds \in [Hosts -> [Pools -> DOMAIN rows \cup {Missing}]]
  /\ instanceId \in [Hosts -> Hosts \cup {Missing}] /\ target \in [Hosts -> Hosts \cup {Missing}]
  /\ term \in [Hosts -> {"none", "instance", "rows", "exit", "failed"}]
  /\ \A u \in Users : edit[u] # "idle" => request[u] \in Request /\ request[u].id \in DOMAIN rows
  /\ request \in [Users -> Request \cup {Missing}] /\ edit \in [Users -> {"idle", "publish", "row"}]
  /\ edits \in 0..MaxEdits /\ stops \in 0..MaxStops /\ failures \in 0..MaxFailures
  /\ told \in [Hosts -> {"no", "unknown", "known", "registered"}]
  /\ wanted \in [Pools -> Settings \cup {Missing}]

\* A registered process that nothing has told to stop is RUNNING in the database with
\* all its rows, and each of its executors has an identifier: whatever statements
\* failed, signals came and processes crashed in registrations of the host before.
RegisteredIsRunning == \A h \in Hosts :
  reg[h] = "done" /\ term[h] = "none" =>
    /\ instance[h].status = "RUNNING"
    /\ \A i \in RowsOf(h) : rows[i].status = "RUNNING"
    /\ \A p \in Pools : poolIds[h][p] # Missing

\* A process that a signal has stopped left its instance SHUTDOWN if it knew its
\* identifier when the signal came, even in the middle of registering, and its rows as
\* well if it was registered; a first handler that failed half way changes nothing.
ShutdownRecorded == \A h \in Hosts :
  ~up[h] =>
    /\ told[h] \in {"known", "registered"} => instance[h].status = "SHUTDOWN"
    /\ told[h] = "registered" => \A i \in RowsOf(h) : rows[i].status = "SHUTDOWN"

\* No table constraint limits the rows of an instance, yet registering again after a
\* crash or a failed statement at any point leaves a pool with no more rows than the
\* list has entries for it: one, if the list names it once.
RowsWithinList == \A h \in Hosts, p \in Pools :
  Cardinality({i \in RowsOf(h) : rows[i].name = p}) <= Cardinality(Entries(p))

\* Every row belongs to an instance that is in its table, and an executor's
\* identifier is that of the row of its own pool: the indicators go there.
RowsBelong ==
  /\ \A i \in DOMAIN rows : instance[rows[i].host] # Missing
  /\ \A h \in Hosts, p \in Pools :
       poolIds[h][p] # Missing =>
         rows[poolIds[h][p]].host = h /\ rows[poolIds[h][p]].name = p

\* A process that stays up ends up registered, unless one of its own statements fails
\* or its list names a pool twice.
RegistrationCompletes == \A h \in Hosts :
  reg[h] = "begin" ~>
    (reg[h] \in {"done", "failed"} \/ ~up[h] \/ (reg[h] = "thrown" /\ ~IsInjective(PoolList)))

\* A signal ends the process, unless a statement of its own handler fails.
SignalEndsProcess == \A h \in Hosts :
  term[h] \in {"instance", "rows", "exit"} ~> (term[h] = "failed" \/ ~up[h])

\* DynamicThreadPoolMySqlServiceImpl.java:132 "更新线程池运行状态" (update the running
\* status of the pools), of the rows found, and README.md:4 "支持实时查看线程池运行状态" (the
\* running status of the pools can be seen as it is): an application that starts again
\* is registered again, unless one of its statements fails.
RegistersAgain == \A h \in Hosts :
  reg[h] = "begin" ~> (reg[h] \in {"done", "failed"} \/ ~up[h])

\* README.md:5 "支持动态调整线程池参数" (pool parameters can be adjusted at run time): once
\* no request is under way, the configuration has the last value that was given to
\* each pool.
NoEditLost ==
  (\A u \in Users : edit[u] = "idle") =>
    \A p \in Pools : wanted[p] # Missing => nacos[First(p)] = wanted[p]
=============================================================================
