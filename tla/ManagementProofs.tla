--------------------------- MODULE ManagementProofs ---------------------------
(***************************************************************************)
(* Proofs about Management, for any hosts and users, any list of entries,  *)
(* any number of crashes, signals and failed statements: what the database *)
(* says of the processes, and what the processes know of the database.     *)
(***************************************************************************)
EXTENDS Management, NumbersAndLists, FiniteSetTheorems, TLAPS

\* Where the process of h is, and what it has learnt by then.
Place(h) ==
  /\ up[h] <=> reg[h] # "off"
  /\ term[h] # "none" => up[h]
  /\ reg[h] \in {"off", "begin", "instance", "update", "insert", "select"}
     => ids[h] = NoIds /\ poolIds[h] = NoIds /\ instanceId[h] = Missing
  /\ reg[h] \in {"instance", "update", "insert", "each"} => copy[h] \in Config
  /\ reg[h] \in {"update", "select", "each", "done"} => instance[h] # Missing
  /\ reg[h] = "insert" => instance[h] = Missing
  /\ reg[h] \in {"each", "done"} => instanceId[h] = h
  /\ reg[h] = "thrown" => ~IsInjective(PoolList)
  /\ instanceId[h] # Missing => instanceId[h] = h /\ instance[h] # Missing
  /\ target[h] # Missing => target[h] = h /\ instance[h] # Missing

\* i is a row of pool p of host h.
IsRowOf(i, h, p) == rows[i].host = h /\ rows[i].name = p

\* The identifiers that the process of h knows.  While it inserts rows, the pools it
\* found have none but the row it found.
Known(h) ==
  /\ \A p \in Pools :
       /\ ids[h][p] # Missing => IsRowOf(ids[h][p], h, p)
       /\ poolIds[h][p] # Missing => IsRowOf(poolIds[h][p], h, p)
       /\ reg[h] = "done" => poolIds[h][p] # Missing
  /\ reg[h] = "each" =>
       /\ \A k \in DOMAIN PoolList : IF k \in todo[h] THEN PoolList[k] \notin found[h]
                                                      ELSE ids[h][PoolList[k]] # Missing
       /\ \A i \in RowsOf(h) : rows[i].name \in found[h] => ids[h][rows[i].name] = i

\* The rows of the pool p of h, and the entries that are to insert further ones, are
\* no more than the entries of p.
Named(h, p) == {i \in RowsOf(h) : rows[i].name = p}
Awaiting(h, p) == Entries(p) \cap todo[h]
Room(h) == \A p \in Pools :
  Cardinality(Named(h, p)) + Cardinality(Awaiting(h, p)) <= Cardinality(Entries(p))

\* What the registration of h has made RUNNING so far.
Running(h) ==
  term[h] = "none" =>
    /\ reg[h] \in {"select", "each", "done"} => instance[h].status = "RUNNING"
    /\ \A i \in RowsOf(h) :
         reg[h] = "done" \/ (reg[h] = "each" /\ rows[i].name \notin found[h])
         => rows[i].status = "RUNNING"

\* What the signal handler of a process of h that had registered, or had come to know
\* the identifier of its instance, has made SHUTDOWN so far.
Ending(h) ==
  /\ told[h] \in {"known", "registered"} =>
       /\ instance[h] # Missing
       /\ up[h] => instanceId[h] = h /\ term[h] # "none"
       /\ term[h] \in {"instance", "rows", "exit"} => target[h] = h
       /\ ~up[h] \/ term[h] \in {"rows", "exit"} => instance[h].status = "SHUTDOWN"
  /\ told[h] = "registered" =>
       /\ up[h] => reg[h] = "done"
       /\ ~up[h] \/ term[h] = "exit" => \A i \in RowsOf(h) : rows[i].status = "SHUTDOWN"

HostInv(h) == Place(h) /\ Known(h) /\ Room(h) /\ Running(h) /\ Ending(h)

\* The rows are those of instances that are in their table.
RowsInv == \A i \in DOMAIN rows : instance[rows[i].host] # Missing

Inv == TypeOK /\ RowsInv /\ \A h \in Hosts : HostInv(h)

-----------------------------------------------------------------------------
(***************************************************************************)
(* Initially.                                                              *)
(***************************************************************************)

\* The sequence f of length n has each element of S once.
Lists(f, n, S) ==
  /\ n \in Nat /\ f \in [1..n -> S]
  /\ \A i, j \in 1..n : f[i] = f[j] => i = j
  /\ \A x \in S : \E i \in 1..n : f[i] = x

LEMMA SetToSeqLists ==
  ASSUME NEW S, IsFiniteSet(S)
  PROVE  Lists(SetToSeq(S), Cardinality(S), S)
<1> DEFINE n == Cardinality(S)
           f == SetToSeq(S)
<1>1. n \in Nat /\ ExistsBijection(1..n, S)
  BY FS_CardinalityType
<1>2. \E g \in [1..n -> S] : IsInjective(g)
  <2>1. PICK g \in Bijection(1..n, S) : TRUE
    BY <1>1 DEF ExistsBijection
  <2>2. g \in [1..n -> S] /\ \A a, b \in 1..n : g[a] = g[b] => a = b
    BY <2>1 DEF Bijection, Injection, Surjection, IsInjective
  <2>3. IsInjective(g)
    BY <2>2 DEF IsInjective
  <2>4. QED
    BY <2>2, <2>3
<1>3. f \in [1..n -> S] /\ IsInjective(f)
  BY <1>2 DEF SetToSeq
<1>4. \A i, j \in 1..n : f[i] = f[j] => i = j
  BY <1>3 DEF IsInjective
<1>5. f \in Injection(1..n, S)
  BY <1>3, <1>4 DEF Injection, IsInjective
<1>6. Cardinality(1..n) = n
  BY <1>1, FS_Interval
<1>7. f \in Surjection(1..n, S)
  BY <1>1, <1>5, <1>6, FS_Injection
<1>8. \A x \in S : \E i \in 1..n : f[i] = x
  BY <1>7 DEF Surjection
<1>9. QED
  BY <1>1, <1>3, <1>4, <1>8 DEF Lists

LEMMA PoolListType ==
  /\ Len(PoolList) \in Nat /\ DOMAIN PoolList = 1..Len(PoolList)
  /\ IsFiniteSet(DOMAIN PoolList)
  /\ \A k \in DOMAIN PoolList : PoolList[k] \in Pools
  /\ \A p \in Pools : \E k \in DOMAIN PoolList : PoolList[k] = p
<1>1. Len(PoolList) \in Nat /\ DOMAIN PoolList = 1..Len(PoolList)
  BY PoolsAssumption
<1>2. \A k \in DOMAIN PoolList : PoolList[k] \in Pools
  BY DEF Pools, ToSet
<1>3. \A p \in Pools : \E k \in DOMAIN PoolList : PoolList[k] = p
  BY DEF Pools, ToSet
<1>4. IsFiniteSet(DOMAIN PoolList)
  BY <1>1, FS_Interval
<1>5. QED
  BY <1>1, <1>2, <1>3, <1>4

LEMMA EntriesType ==
  ASSUME NEW p \in Pools
  PROVE  /\ IsFiniteSet(Entries(p)) /\ Cardinality(Entries(p)) \in Nat
         /\ Entries(p) \in SUBSET DOMAIN PoolList
         /\ Final(p) \in Entries(p)
<1>1. Entries(p) \in SUBSET DOMAIN PoolList /\ Entries(p) # {}
  BY PoolListType DEF Entries
<1>2. IsFiniteSet(Entries(p)) /\ Cardinality(Entries(p)) \in Nat
  BY <1>1, PoolListType, FS_Subset, FS_CardinalityType
<1>3. \E k \in Entries(p) : \A j \in Entries(p) : j <= k
  BY <1>1, <1>2, PoolListType, FiniteGreatest
<1>4. Final(p) \in Entries(p)
  BY <1>3 DEF Final
<1>5. QED
  BY <1>1, <1>2, <1>4

LEMMA InitInv == Init => Inv
<1> SUFFICES ASSUME Init PROVE Inv
  OBVIOUS
<1> DEFINE S == Steady \X DOMAIN PoolList
           order == SetToSeq(S)
           n == Cardinality(S)
<1>1. IsFiniteSet(S)
  BY PoolListType, BoundsAssumption, FS_Product
<1>2. Lists(order, n, S)
  <2> HIDE DEF S
  <2>1. QED
    BY <1>1, SetToSeqLists
<1>3. /\ rows = [i \in 1..n |-> [host |-> order[i][1], name |-> PoolList[order[i][2]],
                                 status |-> "RUNNING", value |-> 1]]
      /\ poolIds = [h \in Hosts |-> IF h \notin Steady THEN NoIds
            ELSE [p \in Pools |-> CHOOSE i \in 1..n : order[i] = <<h, Final(p)>>]]
  <2>1. DOMAIN order = 1..n
    BY <1>2 DEF Lists
  <2>2. /\ rows = [i \in DOMAIN order |-> [host |-> order[i][1], name |-> PoolList[order[i][2]],
                                           status |-> "RUNNING", value |-> 1]]
        /\ poolIds = [h \in Hosts |-> IF h \notin Steady THEN NoIds
              ELSE [p \in Pools |-> CHOOSE i \in DOMAIN order : order[i] = <<h, Final(p)>>]]
    BY Zenon DEF Init
  <2> HIDE DEF order, n
  <2>3. QED
    BY <2>1, <2>2
<1> HIDE DEF order, n
<1>4. \A i \in 1..n : /\ order[i] \in S /\ order[i][1] \in Steady
                      /\ order[i][2] \in DOMAIN PoolList /\ PoolList[order[i][2]] \in Pools
                      /\ order[i] = <<order[i][1], order[i][2]>>
  BY <1>2, PoolListType DEF Lists
<1>5. 1 \in Settings
  BY BoundsAssumption DEF Settings
<1>6. rows \in Seq(Row) /\ DOMAIN rows = 1..n
      /\ \A i \in 1..n : rows[i].host = order[i][1] /\ rows[i].name = PoolList[order[i][2]]
                         /\ rows[i].status = "RUNNING"
  <2>1. rows \in [1..n -> Row]
    BY <1>3, <1>4, <1>5, BoundsAssumption DEF Row
  <2>2. QED
    BY <1>2, <1>3, <2>1 DEF Lists
<1>7. ASSUME NEW h \in Steady, NEW p \in Pools
      PROVE  poolIds[h][p] \in 1..n /\ order[poolIds[h][p]] = <<h, Final(p)>>
  <2>1. poolIds[h][p] = CHOOSE i \in 1..n : order[i] = <<h, Final(p)>>
    BY <1>3, BoundsAssumption
  <2>2. <<h, Final(p)>> \in S
    BY EntriesType
  <2>3. \E i \in 1..n : order[i] = <<h, Final(p)>>
    BY <1>2, <2>2 DEF Lists
  <2>4. QED
    BY <2>1, <2>3
<1>8. \A h \in Hosts, p \in Pools : IF h \in Steady
        THEN poolIds[h][p] \in 1..n /\ IsRowOf(poolIds[h][p], h, p)
        ELSE poolIds[h][p] = Missing
  <2>1. ASSUME NEW h \in Steady, NEW p \in Pools
        PROVE  poolIds[h][p] \in 1..n /\ IsRowOf(poolIds[h][p], h, p)
    <3>1. order[poolIds[h][p]][1] = h /\ order[poolIds[h][p]][2] = Final(p)
      BY <1>7
    <3>2. PoolList[Final(p)] = p
      BY EntriesType DEF Entries
    <3>3. QED
      BY <1>6, <1>7, <3>1, <3>2 DEF IsRowOf
  <2>2. ASSUME NEW h \in Hosts, h \notin Steady, NEW p \in Pools
        PROVE  poolIds[h][p] = Missing
    BY <1>3, <2>2 DEF NoIds
  <2>3. QED
    BY <2>1, <2>2
<1>9. \A h \in Hosts : h \notin Steady => poolIds[h] = NoIds
  BY <1>3
<1>10. poolIds \in [Hosts -> [Pools -> (1..n) \cup {Missing}]]
  <2>1. \A h \in Hosts : poolIds[h] \in [Pools -> (1..n) \cup {Missing}]
    BY <1>3, <1>8 DEF NoIds
  <2>2. QED
    BY <1>3, <2>1
<1>11. TypeOK
  <2>1. nacos \in Config /\ bound \in [Hosts -> Config]
    BY <1>5 DEF Init, Config
  <2>2. instance \in [Hosts -> Instance \cup {Missing}]
    BY <2>1 DEF Init, Instance
  <2>3. up \in [Hosts -> BOOLEAN]
    BY DEF Init
  <2>4. ids = poolIds
    BY DEF Init
  <2>5. \A u \in Users : edit[u] = "idle"
    BY DEF Init
  <2>6. /\ reg \in [Hosts -> {"off", "begin", "instance", "update", "insert",
                              "select", "each", "done", "failed", "thrown"}]
        /\ copy \in [Hosts -> Config \cup {Missing}] /\ found \in [Hosts -> SUBSET Pools]
        /\ todo \in [Hosts -> SUBSET DOMAIN PoolList]
        /\ instanceId \in [Hosts -> Hosts \cup {Missing}]
        /\ target \in [Hosts -> Hosts \cup {Missing}]
        /\ term \in [Hosts -> {"none", "instance", "rows", "exit", "failed"}]
        /\ told \in [Hosts -> {"no", "unknown", "known", "registered"}]
        /\ request \in [Users -> Request \cup {Missing}]
        /\ edit \in [Users -> {"idle", "publish", "row"}]
        /\ wanted \in [Pools -> Settings \cup {Missing}]
    BY DEF Init
  <2>7. edits \in 0..MaxEdits /\ stops \in 0..MaxStops /\ failures \in 0..MaxFailures
    BY BoundsAssumption DEF Init
  <2>8. QED
    BY <1>6, <1>10, <2>1, <2>2, <2>3, <2>4, <2>5, <2>6, <2>7 DEF TypeOK
<1>12. \A h \in Steady : h \in Hosts /\ instance[h].status = "RUNNING" /\ instance[h] # Missing
  <2>1. \A h \in Steady : h \in Hosts /\ instance[h] = [status |-> "RUNNING", executors |-> nacos]
    BY BoundsAssumption DEF Init
  <2>2. \A h \in Steady : instance[h] \in Instance
    BY <1>11, <2>1, MissingAssumption DEF TypeOK, Instance
  <2>3. QED
    BY <2>1, <2>2, MissingAssumption
<1>13. RowsInv
  BY <1>4, <1>6, <1>12 DEF RowsInv
<1>14. ASSUME NEW h \in Hosts PROVE Room(h)
  <2>1. SUFFICES ASSUME NEW p \in Pools
                 PROVE  Cardinality(Named(h, p)) + Cardinality(Awaiting(h, p))
                          <= Cardinality(Entries(p))
    BY DEF Room
  <2> DEFINE N == Named(h, p)
             f == [i \in N |-> order[i][2]]
  <2>2. \A i \in N : i \in 1..n /\ order[i] = <<h, order[i][2]>> /\ order[i][2] \in Entries(p)
    BY <1>4, <1>6 DEF Named, RowsOf, Entries
  <2>3. \A i, j \in N : order[i][2] = order[j][2] => i = j
    <3>1. SUFFICES ASSUME NEW i \in N, NEW j \in N, order[i][2] = order[j][2] PROVE i = j
      OBVIOUS
    <3>2. order[i] = order[j]
      BY <2>2, <3>1
    <3>3. QED
      BY <1>2, <2>2, <3>2 DEF Lists
  <2>4. f \in Injection(N, Entries(p))
    <3> HIDE DEF N
    <3>1. QED
      BY <2>2, <2>3 DEF Injection, IsInjective
  <2>5. Cardinality(N) <= Cardinality(Entries(p)) /\ IsFiniteSet(N)
    <3> HIDE DEF N, f
    <3>1. QED
      BY <2>4, EntriesType, FS_Injection
  <2>6. Cardinality(Awaiting(h, p)) = 0
    <3>1. Awaiting(h, p) = {}
      BY DEF Init, Awaiting
    <3>2. QED
      BY <3>1, FS_EmptySet
  <2>7. Cardinality(N) \in Nat
    BY <2>5, FS_CardinalityType
  <2>8. QED
    BY <2>5, <2>6, <2>7
<1>15. ASSUME NEW h \in Hosts PROVE HostInv(h)
  <2>1. /\ up[h] <=> h \in Steady
        /\ reg[h] = IF h \in Steady THEN "done" ELSE "off"
        /\ term[h] = "none" /\ target[h] = Missing /\ told[h] = "no"
        /\ ids[h] = poolIds[h] /\ instanceId[h] = IF h \in Steady THEN h ELSE Missing
    BY DEF Init
  <2>2. Place(h)
    BY <1>9, <1>12, <2>1 DEF Place
  <2>3. Known(h)
    BY <1>2, <1>8, <2>1, MissingAssumption DEF Known, Lists
  <2>4. Running(h)
    BY <1>6, <1>12, <2>1 DEF Running, RowsOf
  <2>5. Ending(h)
    BY <2>1 DEF Ending
  <2>6. QED
    BY <1>14, <2>2, <2>3, <2>4, <2>5 DEF HostInv
<1>16. QED
  BY <1>11, <1>13, <1>15 DEF Inv

-----------------------------------------------------------------------------
(***************************************************************************)
(* Types.                                                                  *)
(***************************************************************************)

LEMMA SettingsAccepted == Accepted \subseteq Settings /\ 0 \in Settings
  BY BoundsAssumption DEF Accepted, Settings

\* The rows keep their places when one is appended or all are rewritten.
LEMMA RowsType ==
  ASSUME rows \in Seq(Row)
  PROVE  /\ Len(rows) \in Nat /\ DOMAIN rows = 1..Len(rows)
         /\ \A i \in DOMAIN rows : rows[i] \in Row /\ rows[i].host \in Hosts
              /\ rows[i].name \in Pools /\ rows[i].value \in Settings
         /\ \A r \in Row : /\ Append(rows, r) \in Seq(Row)
                           /\ DOMAIN Append(rows, r) = 1..(Len(rows) + 1)
                           /\ \A i \in DOMAIN rows : Append(rows, r)[i] = rows[i]
                           /\ Append(rows, r)[Len(rows) + 1] = r
         /\ \A f \in [DOMAIN rows -> Row] : f \in Seq(Row) /\ DOMAIN f = DOMAIN rows
<1>1. Len(rows) \in Nat /\ DOMAIN rows = 1..Len(rows)
  OBVIOUS
<1>2. \A i \in DOMAIN rows : rows[i] \in Row
  BY <1>1
<1>3. \A r \in Row : /\ Append(rows, r) \in Seq(Row)
                     /\ DOMAIN Append(rows, r) = 1..(Len(rows) + 1)
                     /\ \A i \in DOMAIN rows : Append(rows, r)[i] = rows[i]
                     /\ Append(rows, r)[Len(rows) + 1] = r
  BY <1>1
<1>4. \A f \in [DOMAIN rows -> Row] : f \in Seq(Row) /\ DOMAIN f = DOMAIN rows
  BY <1>1
<1>5. \A r \in Row : r.host \in Hosts /\ r.name \in Pools /\ r.value \in Settings
  BY DEF Row
<1>6. QED
  BY <1>1, <1>2, <1>3, <1>4, <1>5

\* Steps of a process that leave the database alone.
LEMMA ProcessType ==
  ASSUME TypeOK, NEW h \in Hosts,
         \/ Start(h) \/ Refresh(h) \/ Crash(h) \/ Exit(h) \/ Signal(h)
         \/ RegisterBegin(h) \/ SelectInstance(h) \/ SelectRowsThrows(h) \/ RegisterFails(h)
         \/ ShutDownFails(h)
  PROVE  TypeOK'
<1> USE DEF TypeOK, store, process, registry, handler, console
<1>1. NoIds \in [Pools -> DOMAIN rows \cup {Missing}]
  BY DEF NoIds
<1>2. CASE Start(h)
  BY <1>2 DEF Start
<1>3. CASE Refresh(h)
  BY <1>3 DEF Refresh
<1>4. CASE Crash(h)
  BY <1>1, <1>4, BoundsAssumption DEF Crash, Forget
<1>5. CASE Exit(h)
  BY <1>1, <1>5 DEF Exit, Forget
<1>6. CASE Signal(h)
  BY <1>6, BoundsAssumption DEF Signal
<1>7. CASE RegisterBegin(h)
  BY <1>7 DEF RegisterBegin, Goto
<1>8. CASE SelectInstance(h)
  BY <1>8 DEF SelectInstance, Goto
<1>9. CASE RegisterFails(h)
  BY <1>9, BoundsAssumption DEF RegisterFails, Goto
<1>10. CASE ShutDownFails(h)
  BY <1>10, BoundsAssumption DEF ShutDownFails
<1>11. CASE SelectRowsThrows(h)
  BY <1>11 DEF SelectRowsThrows, Goto
<1>12. QED
  BY <1>2, <1>3, <1>4, <1>5, <1>6, <1>7, <1>8, <1>9, <1>10, <1>11

\* Statements on the instances.
LEMMA InstanceType ==
  ASSUME TypeOK, NEW h \in Hosts, Place(h),
         UpdateInstance(h) \/ InsertInstance(h) \/ ShutDownInstance(h)
  PROVE  TypeOK'
<1> USE DEF TypeOK, store, process, registry, handler, console
<1>1. \A r \in Instance, s \in {"RUNNING", "SHUTDOWN"} : [r EXCEPT !.status = s] \in Instance
  BY DEF Instance
<1>2. CASE UpdateInstance(h)
  <2>1. instance[h] \in Instance
    BY <1>2 DEF UpdateInstance, Place
  <2>2. instance' \in [Hosts -> Instance \cup {Missing}]
    BY <1>1, <1>2, <2>1 DEF UpdateInstance
  <2>3. QED
    BY <1>2, <2>2 DEF UpdateInstance, Goto
<1>3. CASE InsertInstance(h)
  <2>1. [status |-> "RUNNING", executors |-> copy[h]] \in Instance
    BY <1>3 DEF InsertInstance, Place, Instance
  <2>2. instance' \in [Hosts -> Instance \cup {Missing}]
    BY <1>3, <2>1 DEF InsertInstance
  <2>3. QED
    BY <1>3, <2>2 DEF InsertInstance, Goto
<1>4. CASE ShutDownInstance(h)
  <2>1. target[h] # Missing => target[h] = h /\ instance[h] \in Instance
    BY <1>4 DEF Place
  <2>2. instance' \in [Hosts -> Instance \cup {Missing}]
    BY <1>1, <1>4, <2>1 DEF ShutDownInstance
  <2>3. QED
    BY <1>4, <2>2 DEF ShutDownInstance
<1>5. QED
  BY <1>2, <1>3, <1>4

\* Statements on the rows.
LEMMA RowsStepType ==
  ASSUME TypeOK, NEW h \in Hosts, Place(h),
         \/ SelectRows(h) \/ InsertRow(h) \/ UpdateRows(h) \/ ShutDownRows(h)
         \/ \E p \in Pools : Indicate(h, p)
  PROVE  TypeOK'
<1> USE DEF TypeOK, store, process, registry, handler, console
<1>1. \A r \in Row, s \in {"RUNNING", "SHUTDOWN"} : WithStatus(r, s) \in Row
  BY SettingsAccepted DEF WithStatus, Row
<1>2. \A r \in Row, v \in Settings : [r EXCEPT !.value = v] \in Row
  BY DEF Row
<1>3. CASE SelectRows(h)
  <2>1. found'[h] = {rows[i].name : i \in RowsOf(h)}
    BY <1>3 DEF SelectRows
  <2>2. \A p \in found'[h] : (CHOOSE i \in RowsOf(h) : rows[i].name = p) \in DOMAIN rows
    BY <2>1 DEF RowsOf
  <2>3. ids'[h] \in [Pools -> DOMAIN rows \cup {Missing}]
    BY <1>3, <2>2 DEF SelectRows
  <2>4. ids' \in [Hosts -> [Pools -> DOMAIN rows \cup {Missing}]]
    BY <1>3, <2>3 DEF SelectRows
  <2>5. found'[h] \in SUBSET Pools
    BY <2>1, RowsType DEF RowsOf
  <2>6. found' \in [Hosts -> SUBSET Pools]
    BY <1>3, <2>5 DEF SelectRows
  <2>7. todo' \in [Hosts -> SUBSET DOMAIN PoolList]
    BY <1>3 DEF SelectRows
  <2>8. copy' \in [Hosts -> Config \cup {Missing}]
    BY <1>3 DEF SelectRows
  <2>9. QED
    BY <1>3, <2>4, <2>6, <2>7, <2>8 DEF SelectRows, Goto
<1>4. CASE InsertRow(h)
  <2>1. PICK k \in todo[h] :
          /\ rows' = Append(rows, [host |-> h, name |-> PoolList[k], status |-> "RUNNING",
                                   value |-> copy[h][k]])
          /\ ids' = [ids EXCEPT ![h][PoolList[k]] = Len(rows) + 1]
          /\ todo' = [todo EXCEPT ![h] = @ \ {k}]
    BY <1>4 DEF InsertRow
  <2> DEFINE p == PoolList[k]
  <2>2. p \in Pools
        /\ [host |-> h, name |-> p, status |-> "RUNNING", value |-> copy[h][k]] \in Row
    <3>1. copy[h] \in Config /\ k \in DOMAIN PoolList
      BY <1>4 DEF InsertRow, Place
    <3>2. copy[h][k] \in Settings
      BY <3>1 DEF Config
    <3>3. p \in Pools
      BY <3>1, PoolListType
    <3>4. QED
      BY <3>2, <3>3 DEF Row
  <2>3. rows' \in Seq(Row) /\ DOMAIN rows' = 1..(Len(rows) + 1)
        /\ DOMAIN rows \subseteq DOMAIN rows'
    BY <2>1, <2>2, RowsType
  <2>4. ids' \in [Hosts -> [Pools -> DOMAIN rows' \cup {Missing}]]
    BY <2>1, <2>2, <2>3, RowsType
  <2>5. todo' \in [Hosts -> SUBSET DOMAIN PoolList]
    BY <2>1
  <2>6. QED
    BY <1>4, <2>3, <2>4, <2>5 DEF InsertRow
<1>5. CASE UpdateRows(h)
  <2>1. rows' \in [DOMAIN rows -> Row]
    BY <1>1, <1>5, RowsType DEF UpdateRows
  <2>2. rows' \in Seq(Row) /\ DOMAIN rows' = DOMAIN rows
    BY <2>1, RowsType
  <2>3. QED
    BY <1>5, <2>2 DEF UpdateRows, Goto
<1>6. CASE ShutDownRows(h)
  <2>1. rows' \in [DOMAIN rows -> Row]
    BY <1>1, <1>6, RowsType DEF ShutDownRows
  <2>2. rows' \in Seq(Row) /\ DOMAIN rows' = DOMAIN rows
    BY <2>1, RowsType
  <2>3. QED
    BY <1>6, <2>2 DEF ShutDownRows
<1>7. ASSUME NEW p \in Pools, Indicate(h, p) PROVE TypeOK'
  <2>1. rows' \in [DOMAIN rows -> Row]
    BY <1>2, <1>7, RowsType, SettingsAccepted DEF Indicate
  <2>2. rows' \in Seq(Row) /\ DOMAIN rows' = DOMAIN rows
    BY <2>1, RowsType
  <2>3. QED
    BY <1>7, <2>2 DEF Indicate
<1>8. QED
  BY <1>3, <1>4, <1>5, <1>6, <1>7

\* Steps of the console.
LEMMA ConsoleType ==
  ASSUME TypeOK, RowsInv, NEW u \in Users,
         EditBegin(u) \/ Edit(u) \/ EditNotPublished(u) \/ EditRowFails(u)
  PROVE  TypeOK'
<1> USE DEF TypeOK, store, process, registry, handler, console
<1>1. CASE EditBegin(u)
  <2>1. PICK i \in DOMAIN rows : \E v \in Settings :
          request' = [request EXCEPT ![u] =
            [id |-> i, name |-> rows[i].name, value |-> v,
             executors |-> instance[rows[i].host].executors]]
    <3>1. PICK i \in DOMAIN rows : \E v \in Accepted \cup {rows[i].value} :
            request' = [request EXCEPT ![u] =
              [id |-> i, name |-> rows[i].name, value |-> v,
               executors |-> instance[rows[i].host].executors]]
      BY <1>1 DEF EditBegin
    <3>2. Accepted \cup {rows[i].value} \subseteq Settings
      BY RowsType, SettingsAccepted
    <3>3. QED
      BY <3>1, <3>2
  <2> PICK v \in Settings : request' = [request EXCEPT ![u] =
            [id |-> i, name |-> rows[i].name, value |-> v,
             executors |-> instance[rows[i].host].executors]]
    BY <2>1
  <2>2. instance[rows[i].host] \in Instance
    BY RowsType DEF RowsInv
  <2>3. [id |-> i, name |-> rows[i].name, value |-> v,
         executors |-> instance[rows[i].host].executors] \in Request
    BY <2>2, RowsType DEF Request, Instance
  <2>4. request'[u] \in Request /\ request'[u].id \in DOMAIN rows
    BY <2>3
  <2>5. request' \in [Users -> Request \cup {Missing}]
    BY <2>3
  <2>6. \A w \in Users : edit'[w] # "idle"
          => request'[w] \in Request /\ request'[w].id \in DOMAIN rows
    BY <1>1, <2>4 DEF EditBegin
  <2>7. edits' \in 0..MaxEdits
    BY <1>1, BoundsAssumption DEF EditBegin
  <2>8. QED
    BY <1>1, <2>5, <2>6, <2>7 DEF EditBegin
<1>2. CASE EditPublish(u)
  <2>1. request[u] \in Request
    BY <1>2 DEF EditPublish
  <2>2. request[u].executors \in Config /\ request[u].name \in Pools
        /\ request[u].value \in Settings
    BY <2>1 DEF Request
  <2>3. nacos' \in Config /\ wanted' \in [Pools -> Settings \cup {Missing}]
    BY <1>2, <2>2 DEF EditPublish, Config
  <2>4. QED
    BY <1>2, <2>3 DEF EditPublish
<1>3. CASE EditRow(u)
  <2>1. request[u] \in Request /\ request[u].id \in DOMAIN rows
    BY <1>3 DEF EditRow
  <2>2. request[u].value \in Settings
    BY <2>1 DEF Request
  <2>3. \A r \in Row, v \in Settings : [r EXCEPT !.value = v] \in Row
    BY DEF Row
  <2>4. rows' \in [DOMAIN rows -> Row]
    BY <1>3, <2>1, <2>2, <2>3, RowsType DEF EditRow
  <2>5. rows' \in Seq(Row) /\ DOMAIN rows' = DOMAIN rows
    BY <2>4, RowsType
  <2>6. QED
    BY <1>3, <2>5 DEF EditRow, EditDone
<1>4. CASE EditNotPublished(u)
  BY <1>4, BoundsAssumption DEF EditNotPublished
<1>5. CASE EditRowFails(u)
  BY <1>5, BoundsAssumption DEF EditRowFails, EditDone
<1>6. QED
  BY <1>1, <1>2, <1>3, <1>4, <1>5 DEF Edit

LEMMA TypeStep ==
  ASSUME Inv, [Next]_vars
  PROVE  TypeOK'
<1> USE DEF Inv, HostInv
<1>1. CASE UNCHANGED vars
  BY <1>1 DEF TypeOK, vars, store, process, registry, handler, console
<1>2. CASE Next
  BY <1>2, ProcessType, InstanceType, RowsStepType, ConsoleType DEF Next, Register, Handle
<1>3. QED
  BY <1>1, <1>2

-----------------------------------------------------------------------------
(***************************************************************************)
(* What a step leaves alone.                                               *)
(***************************************************************************)

\* The process of g, and its row in the table of instances.
SameProcess(g) ==
  /\ up'[g] = up[g] /\ reg'[g] = reg[g] /\ copy'[g] = copy[g] /\ ids'[g] = ids[g]
  /\ found'[g] = found[g] /\ todo'[g] = todo[g]
  /\ instanceId'[g] = instanceId[g] /\ poolIds'[g] = poolIds[g]
  /\ term'[g] = term[g] /\ target'[g] = target[g] /\ told'[g] = told[g]
  /\ instance'[g] = instance[g]

\* The rows there are stay in their places, and those of g keep their status.
SameRows(g) ==
  /\ DOMAIN rows \subseteq DOMAIN rows'
  /\ \A i \in DOMAIN rows :
       /\ rows'[i].host = rows[i].host /\ rows'[i].name = rows[i].name
       /\ rows[i].host = g => rows'[i].status = rows[i].status

\* None is added to those of g.
NoNewRow(g) == \A i \in DOMAIN rows' : i \notin DOMAIN rows => rows'[i].host # g

\* The numbers that Room compares.
LEMMA Sizes ==
  ASSUME TypeOK, NEW g \in Hosts, NEW p \in Pools
  PROVE  /\ IsFiniteSet(Named(g, p)) /\ Cardinality(Named(g, p)) \in Nat
         /\ IsFiniteSet(Awaiting(g, p)) /\ Cardinality(Awaiting(g, p)) \in Nat
<1>1. IsFiniteSet(DOMAIN rows)
  BY RowsType, FS_Interval DEF TypeOK
<1>2. Named(g, p) \in SUBSET DOMAIN rows
  BY DEF Named, RowsOf
<1>3. IsFiniteSet(Named(g, p))
  BY <1>1, <1>2, FS_Subset
<1>4. Awaiting(g, p) \in SUBSET Entries(p)
  BY DEF Awaiting
<1>5. IsFiniteSet(Awaiting(g, p))
  BY <1>4, EntriesType, FS_Subset
<1>6. QED
  BY <1>3, <1>5, FS_CardinalityType

\* Rows stay those of their pools, and no entry is awaited that was not.
LEMMA RoomKept ==
  ASSUME TypeOK, NEW g \in Hosts, Room(g), todo'[g] \subseteq todo[g],
         RowsOf(g)' = RowsOf(g), \A i \in RowsOf(g) : rows'[i].name = rows[i].name
  PROVE  Room(g)'
<1>1. SUFFICES ASSUME NEW p \in Pools
               PROVE  Cardinality(Named(g, p)') + Cardinality(Awaiting(g, p)')
                        <= Cardinality(Entries(p))
  BY DEF Room, Entries
<1>2. Named(g, p)' = Named(g, p)
  BY DEF Named
<1>3. Awaiting(g, p)' \in SUBSET Awaiting(g, p)
  BY DEF Awaiting, Entries
<1>4. Cardinality(Awaiting(g, p)') <= Cardinality(Awaiting(g, p))
      /\ Cardinality(Awaiting(g, p)') \in Nat
  BY <1>3, Sizes, FS_Subset, FS_CardinalityType
<1>5. Cardinality(Named(g, p)) + Cardinality(Awaiting(g, p)) <= Cardinality(Entries(p))
  BY DEF Room
<1>6. QED
  BY <1>2, <1>4, <1>5, Sizes, EntriesType

\* A host that a step is not about.
LEMMA Elsewhere ==
  ASSUME TypeOK, NEW g \in Hosts, HostInv(g), SameProcess(g), SameRows(g), NoNewRow(g)
  PROVE  HostInv(g)'
<1> USE DEF HostInv, SameProcess
<1>1. \A p \in Pools : /\ ids[g][p] # Missing => ids[g][p] \in DOMAIN rows
                       /\ poolIds[g][p] # Missing => poolIds[g][p] \in DOMAIN rows
  BY DEF TypeOK
<1>2. RowsOf(g)' = RowsOf(g)
  BY DEF RowsOf, SameRows, NoNewRow
<1>3. \A i \in RowsOf(g) : i \in DOMAIN rows /\ rows'[i].name = rows[i].name
                           /\ rows'[i].status = rows[i].status
  BY DEF RowsOf, SameRows
<1>4. Place(g)'
  BY DEF Place
<1>5. Known(g)'
  BY <1>1, <1>2, <1>3 DEF Known, IsRowOf, SameRows
<1>6. Room(g)'
  BY <1>2, <1>3, RoomKept
<1>7. Running(g)'
  BY <1>2, <1>3 DEF Running
<1>8. Ending(g)'
  BY <1>2, <1>3 DEF Ending
<1>9. QED
  BY <1>4, <1>5, <1>6, <1>7, <1>8

\* The rows as a whole.
LEMMA RowsKept ==
  ASSUME TypeOK, RowsInv, DOMAIN rows' = DOMAIN rows,
         \A i \in DOMAIN rows : rows'[i].host = rows[i].host,
         \A g \in Hosts : instance[g] # Missing => instance'[g] # Missing
  PROVE  RowsInv'
<1>1. \A i \in DOMAIN rows : rows[i].host \in Hosts
  BY RowsType DEF TypeOK
<1>2. QED
  BY <1>1 DEF RowsInv

\* A step that leaves the rows and the instances alone, of the process of h.
LEMMA ProcessOnly ==
  ASSUME Inv, NEW h \in Hosts, UNCHANGED <<rows, instance>>, todo'[h] \subseteq todo[h],
         \A g \in Hosts : g # h => SameProcess(g),
         Place(h)', Known(h)', Running(h)', Ending(h)'
  PROVE  RowsInv' /\ \A g \in Hosts : HostInv(g)'
<1>1. RowsInv'
  BY RowsKept DEF Inv
<1>2. \A g \in Hosts : SameRows(g) /\ NoNewRow(g)
  BY DEF SameRows, NoNewRow
<1>3. Room(h)'
  <2>1. RowsOf(h)' = RowsOf(h)
    BY DEF RowsOf
  <2>2. QED
    BY <2>1, RoomKept DEF Inv, HostInv
<1>4. HostInv(h)'
  BY <1>3 DEF HostInv
<1>5. \A g \in Hosts : HostInv(g)'
  BY <1>2, <1>4, Elsewhere DEF Inv
<1>6. QED
  BY <1>1, <1>5

-----------------------------------------------------------------------------
(***************************************************************************)
(* The steps of a process.                                                 *)
(***************************************************************************)

LEMMA StartStep ==
  ASSUME Inv, NEW h \in Hosts, Start(h)
  PROVE  RowsInv' /\ \A g \in Hosts : HostInv(g)'
<1> USE DEF Start, store, process, registry, handler, console
<1>1. \A g \in Hosts : g # h => SameProcess(g)
  BY DEF SameProcess, Inv, TypeOK
<1>2. /\ reg[h] = "off" /\ reg'[h] = "begin" /\ told'[h] = "no" /\ up'[h]
      /\ ids[h] = NoIds /\ poolIds[h] = NoIds /\ instanceId[h] = Missing
  BY DEF Inv, TypeOK, HostInv, Place
<1>3. Place(h)'
  BY <1>2 DEF Inv, HostInv, Place
<1>4. Known(h)' /\ Running(h)' /\ Ending(h)'
  BY <1>2 DEF Known, Running, Ending, NoIds
<1>5. QED
  BY <1>1, <1>3, <1>4, ProcessOnly

\* A process that is gone knows nothing, and what it has recorded stays.
LEMMA ForgetStep ==
  ASSUME Inv, NEW h \in Hosts, Crash(h) \/ Exit(h)
  PROVE  RowsInv' /\ \A g \in Hosts : HostInv(g)'
<1> USE DEF Forget, store, process, registry, handler, console
<1>0. UNCHANGED <<rows, instance>> /\ Forget(h)
  BY DEF Crash, Exit
<1>1. \A g \in Hosts : g # h => SameProcess(g)
  BY DEF SameProcess, Inv, TypeOK, Crash, Exit
<1>2. /\ ~up'[h] /\ reg'[h] = "off" /\ term'[h] = "none" /\ target'[h] = Missing
      /\ ids'[h] = NoIds /\ poolIds'[h] = NoIds /\ instanceId'[h] = Missing
      /\ todo'[h] = {}
  BY <1>0 DEF Inv, TypeOK
<1>3. Place(h)'
  BY <1>2 DEF Place
<1>4. Known(h)' /\ Running(h)'
  BY <1>2 DEF Known, Running, NoIds
<1>5. Ending(h)'
  <2>1. CASE Crash(h)
    <3>1. told'[h] = "no"
      BY <2>1 DEF Crash, Inv, TypeOK
    <3>2. QED
      BY <3>1 DEF Ending
  <2>2. CASE Exit(h)
    <3>1. told' = told /\ term[h] = "exit"
      BY <2>2 DEF Exit
    <3>2. /\ told[h] \in {"known", "registered"} => instance[h] # Missing /\ instance[h].status = "SHUTDOWN"
          /\ told[h] = "registered" => \A i \in RowsOf(h) : rows[i].status = "SHUTDOWN"
      BY <3>1 DEF Inv, HostInv, Ending
    <3>3. QED
      BY <1>0, <1>2, <3>1, <3>2 DEF Ending, RowsOf
  <2>3. QED
    BY <2>1, <2>2
<1>6. QED
  BY <1>0, <1>1, <1>2, <1>3, <1>4, <1>5, ProcessOnly

LEMMA SignalStep ==
  ASSUME Inv, NEW h \in Hosts, Signal(h)
  PROVE  RowsInv' /\ \A g \in Hosts : HostInv(g)'
<1> USE DEF Signal, store, process, registry, handler, console
<1>1. \A g \in Hosts : g # h => SameProcess(g)
  BY DEF SameProcess, Inv, TypeOK
<1>2. /\ up[h] /\ term'[h] = "instance" /\ target'[h] = instanceId[h]
      /\ UNCHANGED <<rows, instance, up, registry>>
      /\ told'[h] = IF reg[h] = "done" THEN "registered"
                    ELSE IF instanceId[h] # Missing THEN "known" ELSE "unknown"
  BY DEF Inv, TypeOK
<1>3. Place(h)'
  BY <1>2 DEF Inv, HostInv, Place
<1>4. Known(h)' /\ Running(h)'
  BY <1>2 DEF Inv, HostInv, Known, Running, IsRowOf, RowsOf
<1>5. Ending(h)'
  <2>1. Place(h)
    BY DEF Inv, HostInv
  <2>2. told'[h] = "registered" => reg[h] = "done"
    BY <1>2
  <2>3. told'[h] \in {"known", "registered"} => instanceId[h] = h /\ instance[h] # Missing
    BY <1>2, <2>1 DEF Place
  <2>4. QED
    BY <1>2, <2>2, <2>3 DEF Ending
<1>6. QED
  BY <1>1, <1>2, <1>3, <1>4, <1>5, ProcessOnly

\* The steps of the registration that only look at the table of instances, or fail.
LEMMA RegisterLookStep ==
  ASSUME Inv, NEW h \in Hosts, RegisterBegin(h) \/ SelectInstance(h) \/ RegisterFails(h)
  PROVE  RowsInv' /\ \A g \in Hosts : HostInv(g)'
<1> USE DEF RegisterBegin, SelectInstance, RegisterFails, Goto, store, process, registry,
            handler, console
<1>1. \A g \in Hosts : g # h => SameProcess(g)
  BY DEF SameProcess, Inv, TypeOK
<1>2. UNCHANGED <<rows, instance, up, ids, poolIds, found, todo, term, target, told>>
  OBVIOUS
<1>3. Place(h) /\ Known(h) /\ Running(h) /\ Ending(h)
  BY DEF Inv, HostInv
<1>4. /\ reg[h] # "done" /\ reg[h] # "off"
      /\ reg'[h] = "failed" \/ (reg'[h] \in {"instance", "update", "insert"}
                                /\ reg[h] \in {"begin", "instance"})
      /\ reg'[h] = "insert" => instance[h] = Missing
      /\ reg'[h] = "update" => instance[h] # Missing
      /\ reg'[h] # "failed" => copy'[h] \in Config
      /\ instanceId'[h] = instanceId[h]
         \/ (instanceId'[h] = h /\ reg[h] = "select" /\ reg'[h] = "failed")
  BY <1>3 DEF Inv, TypeOK, Place
<1>5. Place(h)'
  BY <1>2, <1>3, <1>4 DEF Place
<1>6. Known(h)'
  BY <1>2, <1>3, <1>4 DEF Known, IsRowOf
<1>7. Running(h)'
  BY <1>2, <1>4 DEF Running
<1>8. Ending(h)'
  BY <1>2, <1>3, <1>4 DEF Place, Ending, RowsOf
<1>9. QED
  BY <1>1, <1>2, <1>5, <1>6, <1>7, <1>8, ProcessOnly


\* A list that names every pool once leaves at most one row of a name.
LEMMA OneEntryOneRow ==
  ASSUME TypeOK, NEW h \in Hosts, Room(h), IsInjective(PoolList)
  PROVE  NamesDiffer(h)
<1>1. SUFFICES ASSUME NEW i \in RowsOf(h), NEW j \in RowsOf(h), rows[i].name = rows[j].name
               PROVE  i = j
  BY DEF NamesDiffer
<1> DEFINE p == rows[i].name
<1>2. p \in Pools
  BY RowsType DEF RowsOf, TypeOK
<1>3. \A k, m \in DOMAIN PoolList : PoolList[k] = PoolList[m] => k = m
  BY DEF IsInjective
<1>4. PICK k \in DOMAIN PoolList : PoolList[k] = p
  BY <1>2, PoolListType
<1>5. Entries(p) = {k}
  BY <1>3, <1>4 DEF Entries
<1>6. Cardinality(Entries(p)) = 1
  BY <1>5, FS_Singleton
<1>7. i \in Named(h, p) /\ j \in Named(h, p)
  BY <1>1 DEF Named
<1>8. Cardinality(Named(h, p)) + Cardinality(Awaiting(h, p)) <= Cardinality(Entries(p))
  BY <1>2 DEF Room
<1>9. IsFiniteSet(Named(h, p)) /\ Cardinality(Named(h, p)) \in {0, 1}
  <2> HIDE DEF p
  <2>1. QED
    BY <1>2, <1>6, <1>8, Sizes
<1>10. Cardinality(Named(h, p)) = 1
  BY <1>7, <1>9, FS_EmptySet
<1>11. \E x : Named(h, p) = {x}
  BY <1>9, <1>10, FS_Singleton
<1>12. QED
  BY <1>7, <1>11

LEMMA SelectRowsThrowsStep ==
  ASSUME Inv, NEW h \in Hosts, SelectRowsThrows(h)
  PROVE  RowsInv' /\ \A g \in Hosts : HostInv(g)'
<1> USE DEF SelectRowsThrows, Goto, store, process, registry, handler, console
<1>1. \A g \in Hosts : g # h => SameProcess(g)
  BY DEF SameProcess, Inv, TypeOK
<1>2. /\ reg[h] = "select" /\ reg'[h] = "thrown" /\ instanceId'[h] = h
      /\ UNCHANGED <<rows, instance, up, copy, ids, poolIds, found, todo, term, target, told>>
  BY DEF Inv, TypeOK
<1>3. Place(h) /\ Known(h) /\ Ending(h)
  BY DEF Inv, HostInv
<1>4. ~IsInjective(PoolList)
  BY OneEntryOneRow DEF Inv, HostInv
<1>5. Place(h)'
  BY <1>2, <1>3, <1>4 DEF Place
<1>6. Known(h)'
  BY <1>2, <1>3 DEF Known, IsRowOf
<1>7. Running(h)'
  BY <1>2 DEF Running
<1>8. Ending(h)'
  BY <1>2, <1>3 DEF Place, Ending
<1>9. QED
  BY <1>1, <1>2, <1>5, <1>6, <1>7, <1>8, ProcessOnly

LEMMA SelectRowsStep ==
  ASSUME Inv, NEW h \in Hosts, SelectRows(h)
  PROVE  RowsInv' /\ \A g \in Hosts : HostInv(g)'
<1> USE DEF SelectRows, Goto, store, process, registry, handler, console
<1>1. \A g \in Hosts : g # h => SameProcess(g) /\ SameRows(g) /\ NoNewRow(g)
  BY DEF SameProcess, SameRows, NoNewRow, Inv, TypeOK
<1>2. /\ reg[h] = "select" /\ reg'[h] = "each" /\ instanceId'[h] = h
      /\ found'[h] = {rows[i].name : i \in RowsOf(h)}
      /\ todo'[h] = {k \in DOMAIN PoolList : PoolList[k] \notin found'[h]}
      /\ copy'[h] = bound[h] /\ bound[h] \in Config
      /\ UNCHANGED <<rows, instance, up, poolIds, term, target, told>>
  BY DEF Inv, TypeOK
<1>3. \A p \in Pools : IF p \in found'[h]
        THEN ids'[h][p] \in RowsOf(h) /\ rows[ids'[h][p]].name = p
        ELSE ids'[h][p] = Missing
  <2>1. ids'[h] = [p \in Pools |->
          IF p \in found'[h] THEN CHOOSE i \in RowsOf(h) : rows[i].name = p ELSE Missing]
    BY DEF Inv, TypeOK
  <2>2. \A p \in found'[h] : \E i \in RowsOf(h) : rows[i].name = p
    BY <1>2
  <2>3. QED
    BY <2>1, <2>2
<1>4. \A i \in RowsOf(h) : i \in DOMAIN rows /\ rows[i].host = h /\ rows[i].name \in Pools
                           /\ i # Missing
  BY RowsType, MissingAssumption DEF RowsOf, Inv, TypeOK
<1>5. /\ Place(h) /\ Known(h) /\ Room(h) /\ Running(h) /\ Ending(h) /\ TypeOK
  BY DEF Inv, HostInv
<1>6. RowsOf(h)' = RowsOf(h)
  BY <1>2 DEF RowsOf
<1>7. Place(h)'
  BY <1>2, <1>5 DEF Place
<1>8. Known(h)'
  <2>1. \A p \in Pools : poolIds[h][p] = Missing
    BY <1>2, <1>5 DEF Place, NoIds
  <2>2. \A p \in Pools : ids'[h][p] # Missing => IsRowOf(ids[h][p], h, p)'
    BY <1>2, <1>3, <1>4 DEF IsRowOf
  <2>3. \A k \in DOMAIN PoolList : IF k \in todo'[h] THEN PoolList[k] \notin found'[h]
                                                     ELSE ids'[h][PoolList[k]] # Missing
    BY <1>2, <1>3, <1>4, PoolListType
  <2>4. \A i \in RowsOf(h) : ids'[h][rows[i].name] = i
    <3>1. ASSUME NEW i \in RowsOf(h) PROVE ids'[h][rows[i].name] = i
      <4>1. rows[i].name \in found'[h]
        BY <1>2
      <4>2. ids'[h][rows[i].name] \in RowsOf(h) /\ rows[ids'[h][rows[i].name]].name = rows[i].name
        BY <1>3, <1>4, <4>1
      <4>3. QED
        BY <4>2 DEF NamesDiffer
    <3>2. QED
      BY <3>1
  <2>5. QED
    BY <1>2, <1>6, <2>1, <2>2, <2>3, <2>4 DEF Known
<1>9. Room(h)'
  <2>1. SUFFICES ASSUME NEW p \in Pools
                 PROVE  Cardinality(Named(h, p)') + Cardinality(Awaiting(h, p)')
                          <= Cardinality(Entries(p))
    BY DEF Room, Entries
  <2>2. Named(h, p)' = Named(h, p)
    BY <1>2, <1>6 DEF Named
  <2>3. CASE p \in found'[h]
    <3>1. Awaiting(h, p)' = {}
      BY <1>2, <2>3 DEF Awaiting, Entries
    <3>2. Cardinality(Awaiting(h, p)') = 0
      BY <3>1, FS_EmptySet
    <3>3. Cardinality(Named(h, p)) + Cardinality(Awaiting(h, p)) <= Cardinality(Entries(p))
      BY <1>5 DEF Room
    <3>4. QED
      BY <1>5, <2>2, <3>2, <3>3, Sizes, EntriesType
  <2>4. CASE p \notin found'[h]
    <3>1. Named(h, p) = {}
      BY <1>2, <2>4 DEF Named
    <3>2. Awaiting(h, p)' \in SUBSET Entries(p)
      BY DEF Awaiting, Entries
    <3>3. Cardinality(Awaiting(h, p)') <= Cardinality(Entries(p))
          /\ Cardinality(Awaiting(h, p)') \in Nat
      BY <3>2, EntriesType, FS_Subset, FS_CardinalityType
    <3>4. Cardinality(Named(h, p)') = 0
      BY <2>2, <3>1, FS_EmptySet
    <3>5. QED
      BY <3>3, <3>4, EntriesType
  <2>5. QED
    BY <2>3, <2>4
<1>10. Running(h)'
  <2>1. \A i \in RowsOf(h) : rows[i].name \in found'[h]
    BY <1>2
  <2>2. QED
    BY <1>2, <1>5, <1>6, <2>1 DEF Running
<1>11. Ending(h)'
  BY <1>2, <1>5 DEF Place, Ending
<1>12. RowsInv'
  BY <1>2 DEF Inv, RowsInv
<1>13. QED
  BY <1>1, <1>7, <1>8, <1>9, <1>10, <1>11, <1>12, Elsewhere DEF HostInv, Inv

\* The handler's statements fail: whatever was recorded, the process goes on.
LEMMA ShutDownFailsStep ==
  ASSUME Inv, NEW h \in Hosts, ShutDownFails(h)
  PROVE  RowsInv' /\ \A g \in Hosts : HostInv(g)'
<1> USE DEF ShutDownFails, store, process, registry, handler, console
<1>1. \A g \in Hosts : g # h => SameProcess(g)
  BY DEF SameProcess, Inv, TypeOK
<1>2. /\ UNCHANGED <<rows, instance, up, reg, copy, ids, poolIds, found, todo, instanceId, told>>
      /\ term'[h] = "failed" /\ target'[h] = Missing
      /\ term[h] # "none"
  BY DEF Inv, TypeOK
<1>3. Place(h)'
  BY <1>2 DEF Inv, HostInv, Place
<1>4. Known(h)' /\ Running(h)'
  BY <1>2 DEF Inv, HostInv, Known, Running, IsRowOf, RowsOf
<1>5. Ending(h)'
  BY <1>2 DEF Inv, HostInv, Place, Ending
<1>6. QED
  BY <1>1, <1>2, <1>3, <1>4, <1>5, ProcessOnly

\* A step on the instance of h, of its own process; the rows stay.
LEMMA InstanceStep ==
  ASSUME Inv, NEW h \in Hosts, UNCHANGED <<rows, todo>>,
         \A g \in Hosts : g # h => SameProcess(g),
         instance[h] # Missing => instance'[h] # Missing,
         Place(h)', Known(h)', Running(h)', Ending(h)'
  PROVE  RowsInv' /\ \A g \in Hosts : HostInv(g)'
<1>1. \A g \in Hosts : instance[g] # Missing => instance'[g] # Missing
  BY DEF SameProcess
<1>2. RowsInv'
  BY <1>1, RowsKept DEF Inv
<1>3. \A g \in Hosts : SameRows(g) /\ NoNewRow(g)
  BY DEF SameRows, NoNewRow
<1>4. Room(h)'
  <2>1. RowsOf(h)' = RowsOf(h)
    BY DEF RowsOf
  <2>2. QED
    BY <2>1, RoomKept DEF Inv, HostInv
<1>5. \A g \in Hosts : HostInv(g)'
  <2>1. HostInv(h)'
    BY <1>4 DEF HostInv
  <2>2. QED
    BY <1>3, <2>1, Elsewhere DEF Inv
<1>6. QED
  BY <1>2, <1>5

LEMMA RegisterInstanceStep ==
  ASSUME Inv, NEW h \in Hosts, UpdateInstance(h) \/ InsertInstance(h)
  PROVE  RowsInv' /\ \A g \in Hosts : HostInv(g)'
<1> USE DEF UpdateInstance, InsertInstance, Goto, store, process, registry, handler, console
<1>1. \A g \in Hosts : g # h => SameProcess(g)
  BY DEF SameProcess, Inv, TypeOK
<1>2. /\ reg[h] \in {"update", "insert"} /\ reg'[h] = "select"
      /\ UNCHANGED <<rows, up, ids, poolIds, found, todo, instanceId, term, target, told>>
  BY DEF Inv, TypeOK
<1>3. instance'[h].status = "RUNNING" /\ instance'[h] # Missing
  <2>1. CASE UpdateInstance(h)
    <3>1. instance[h] \in Instance
      BY <2>1 DEF Inv, HostInv, Place, TypeOK
    <3>2. instance'[h] = [instance[h] EXCEPT !.status = "RUNNING"]
      BY <2>1 DEF Inv, TypeOK
    <3>3. [instance[h] EXCEPT !.status = "RUNNING"] \in Instance
      BY <3>1 DEF Instance
    <3>4. QED
      BY <3>1, <3>2, <3>3, MissingAssumption DEF Instance
  <2>2. CASE InsertInstance(h)
    <3>1. instance'[h] = [status |-> "RUNNING", executors |-> copy[h]] /\ copy[h] \in Config
      BY <2>2 DEF Inv, HostInv, Place, TypeOK
    <3>2. instance'[h] \in Instance
      BY <3>1 DEF Instance
    <3>3. QED
      BY <3>1, <3>2, MissingAssumption
  <2>3. QED
    BY <2>1, <2>2
<1>4. /\ Place(h) /\ Known(h) /\ Running(h) /\ Ending(h)
  BY DEF Inv, HostInv
<1>5. Place(h)'
  BY <1>2, <1>3, <1>4 DEF Place
<1>6. Known(h)'
  BY <1>2, <1>4 DEF Known, IsRowOf
<1>7. Running(h)'
  BY <1>2, <1>3 DEF Running
<1>8. Ending(h)'
  <2>1. h # Missing /\ up[h] /\ instanceId[h] = Missing
    BY <1>2, <1>4, MissingAssumption DEF Place
  <2>2. told[h] \notin {"known", "registered"}
    BY <1>4, <2>1 DEF Ending
  <2>3. QED
    BY <1>2, <2>2 DEF Ending
<1>9. QED
  BY <1>1, <1>2, <1>3, <1>5, <1>6, <1>7, <1>8, InstanceStep

LEMMA ShutDownInstanceStep ==
  ASSUME Inv, NEW h \in Hosts, ShutDownInstance(h)
  PROVE  RowsInv' /\ \A g \in Hosts : HostInv(g)'
<1> USE DEF ShutDownInstance, store, process, registry, handler, console
<1>1. /\ Place(h) /\ Known(h) /\ Running(h) /\ Ending(h)
  BY DEF Inv, HostInv
<1>2. target[h] = Missing \/ target[h] = h
  BY <1>1 DEF Place
<1>3. \A g \in Hosts : g # h => SameProcess(g)
  BY <1>2 DEF SameProcess, Inv, TypeOK
<1>4. /\ term[h] = "instance" /\ term'[h] = "rows"
      /\ UNCHANGED <<rows, up, reg, copy, ids, poolIds, found, todo, instanceId, target, told>>
  BY DEF Inv, TypeOK
<1>5. IF target[h] = Missing THEN instance'[h] = instance[h]
      ELSE instance[h] # Missing /\ instance'[h].status = "SHUTDOWN" /\ instance'[h] # Missing
  <2>1. CASE target[h] # Missing
    <3>1. instance[h] \in Instance
      BY <1>1, <2>1 DEF Inv, Place, TypeOK
    <3>2. instance'[h] = [instance[h] EXCEPT !.status = "SHUTDOWN"]
      BY <1>2, <2>1 DEF Inv, TypeOK
    <3>3. [instance[h] EXCEPT !.status = "SHUTDOWN"] \in Instance
      BY <3>1 DEF Instance
    <3>4. QED
      BY <2>1, <3>1, <3>2, <3>3, MissingAssumption DEF Instance
  <2>2. QED
    BY <2>1
<1>6. Place(h)'
  BY <1>1, <1>4, <1>5 DEF Place
<1>7. Known(h)'
  BY <1>1, <1>4 DEF Known, IsRowOf, RowsOf
<1>8. Running(h)'
  BY <1>4 DEF Running
<1>9. Ending(h)'
  <2>1. told[h] \in {"known", "registered"} => target[h] = h /\ up[h]
    BY <1>1, <1>4 DEF Ending, Place
  <2>2. h # Missing
    BY MissingAssumption
  <2>3. QED
    BY <1>1, <1>4, <1>5, <2>1, <2>2 DEF Ending
<1>10. QED
  BY <1>3, <1>4, <1>5, <1>6, <1>7, <1>8, <1>9, InstanceStep


-----------------------------------------------------------------------------
(***************************************************************************)
(* Statements on the rows.                                                 *)
(***************************************************************************)

\* A step on the rows of h, of its own process, that keeps their number.
LEMMA RowsOnly ==
  ASSUME Inv, NEW h \in Hosts, UNCHANGED <<instance, todo>>, DOMAIN rows' = DOMAIN rows,
         \A i \in DOMAIN rows :
           /\ rows'[i].host = rows[i].host /\ rows'[i].name = rows[i].name
           /\ rows[i].host # h => rows'[i].status = rows[i].status,
         \A g \in Hosts : g # h => SameProcess(g),
         Place(h)', Known(h)', Running(h)', Ending(h)'
  PROVE  RowsInv' /\ \A g \in Hosts : HostInv(g)'
<1>1. RowsInv'
  BY RowsKept DEF Inv
<1>2. \A g \in Hosts : g # h => SameRows(g) /\ NoNewRow(g)
  BY DEF SameRows, NoNewRow
<1>3. Room(h)'
  <2>1. RowsOf(h)' = RowsOf(h) /\ \A i \in RowsOf(h) : rows'[i].name = rows[i].name
    BY DEF RowsOf
  <2>2. QED
    BY <2>1, RoomKept DEF Inv, HostInv
<1>4. HostInv(h)'
  BY <1>3 DEF HostInv
<1>5. \A g \in Hosts : HostInv(g)'
  BY <1>2, <1>4, Elsewhere DEF Inv
<1>6. QED
  BY <1>1, <1>5

LEMMA UpdateRowsStep ==
  ASSUME Inv, NEW h \in Hosts, UpdateRows(h)
  PROVE  RowsInv' /\ \A g \in Hosts : HostInv(g)'
<1> USE DEF UpdateRows, Goto, store, process, registry, handler, console
<1>1. /\ Place(h) /\ Known(h) /\ Running(h) /\ Ending(h) /\ TypeOK
  BY DEF Inv, HostInv
<1>2. \A g \in Hosts : g # h => SameProcess(g)
  BY <1>1 DEF SameProcess, TypeOK
<1>3. /\ reg[h] = "each" /\ reg'[h] = "done" /\ poolIds'[h] = ids[h] /\ todo[h] = {}
      /\ UNCHANGED <<instance, up, copy, ids, found, todo, instanceId, term, target, told>>
  BY <1>1 DEF TypeOK
<1>4. found[h] \in SUBSET Pools
      /\ \A p \in Pools : ids[h][p] # Missing /\ ids[h][p] \in DOMAIN rows
  BY <1>1, <1>3, PoolListType DEF TypeOK, Known
<1>5. \A r \in Row : /\ WithStatus(r, "RUNNING").host = r.host
                     /\ WithStatus(r, "RUNNING").name = r.name
                     /\ WithStatus(r, "RUNNING").status = "RUNNING"
  BY DEF WithStatus, Row
<1>6. /\ DOMAIN rows' = DOMAIN rows
      /\ \A i \in DOMAIN rows : rows'[i] = IF \E p \in found[h] : ids[h][p] = i
                                           THEN WithStatus(rows[i], "RUNNING") ELSE rows[i]
  OBVIOUS
<1>7. \A i \in DOMAIN rows :
        /\ rows'[i].host = rows[i].host /\ rows'[i].name = rows[i].name
        /\ (\E p \in found[h] : ids[h][p] = i) => rows'[i].status = "RUNNING"
        /\ rows'[i].status = "RUNNING" \/ rows'[i].status = rows[i].status
        /\ rows[i].host # h => rows'[i].status = rows[i].status
  <2>1. ASSUME NEW i \in DOMAIN rows
        PROVE  /\ rows'[i].host = rows[i].host /\ rows'[i].name = rows[i].name
               /\ (\E p \in found[h] : ids[h][p] = i) => rows'[i].status = "RUNNING"
               /\ rows'[i].status = "RUNNING" \/ rows'[i].status = rows[i].status
    BY <1>1, <1>5, <1>6, RowsType DEF TypeOK
  <2>2. ASSUME NEW i \in DOMAIN rows, rows[i].host # h PROVE rows'[i] = rows[i]
    <3>1. ~(\E p \in found[h] : ids[h][p] = i)
      BY <1>1, <1>4, <2>2 DEF Known, IsRowOf
    <3>2. QED
      BY <1>6, <3>1
  <2>3. QED
    BY <2>1, <2>2
<1>8. RowsOf(h)' = RowsOf(h) /\ \A i \in RowsOf(h) : i \in DOMAIN rows
  BY <1>6, <1>7 DEF RowsOf
<1>9. Place(h)'
  BY <1>1, <1>3 DEF Place
<1>10. Known(h)'
  BY <1>1, <1>3, <1>4, <1>7 DEF Known, IsRowOf
<1>11. Running(h)'
  <2>1. ASSUME NEW i \in RowsOf(h), term[h] = "none"
        PROVE  rows'[i].status = "RUNNING"
    <3>1. CASE rows[i].name \in found[h]
      BY <1>1, <1>3, <1>7, <1>8, <3>1 DEF Known
    <3>2. CASE rows[i].name \notin found[h]
      BY <1>1, <1>3, <1>7, <1>8, <2>1, <3>2 DEF Running
    <3>3. QED
      BY <3>1, <3>2
  <2>2. QED
    BY <1>1, <1>3, <1>8, <2>1 DEF Running
<1>12. Ending(h)'
  <2>1. told[h] = "registered" => ~up[h]
    BY <1>1, <1>3 DEF Ending
  <2>2. up[h]
    BY <1>1, <1>3 DEF Place
  <2>3. QED
    BY <1>1, <1>3, <2>1, <2>2 DEF Ending
<1>13. QED
  BY <1>2, <1>3, <1>6, <1>7, <1>9, <1>10, <1>11, <1>12, RowsOnly

LEMMA ShutDownRowsStep ==
  ASSUME Inv, NEW h \in Hosts, ShutDownRows(h)
  PROVE  RowsInv' /\ \A g \in Hosts : HostInv(g)'
<1> USE DEF ShutDownRows, store, process, registry, handler, console
<1>1. /\ Place(h) /\ Known(h) /\ Running(h) /\ Ending(h) /\ TypeOK
  BY DEF Inv, HostInv
<1>2. \A g \in Hosts : g # h => SameProcess(g)
  BY <1>1 DEF SameProcess, TypeOK
<1>3. /\ term[h] = "rows" /\ term'[h] = "exit"
      /\ UNCHANGED <<instance, up, reg, copy, ids, poolIds, found, todo, instanceId, target, told>>
  BY <1>1 DEF TypeOK
<1>4. \A r \in Row : /\ WithStatus(r, "SHUTDOWN").host = r.host
                     /\ WithStatus(r, "SHUTDOWN").name = r.name
                     /\ WithStatus(r, "SHUTDOWN").status = "SHUTDOWN"
  BY DEF WithStatus, Row
<1>5. /\ DOMAIN rows' = DOMAIN rows
      /\ \A i \in DOMAIN rows : rows'[i] = IF rows[i].host = target[h]
                                           THEN WithStatus(rows[i], "SHUTDOWN") ELSE rows[i]
  OBVIOUS
<1>6. target[h] \in {h, Missing}
  BY <1>1 DEF Place
<1>7. \A i \in DOMAIN rows :
        /\ rows'[i].host = rows[i].host /\ rows'[i].name = rows[i].name
        /\ rows[i].host # h => rows'[i].status = rows[i].status
        /\ rows[i].host = target[h] => rows'[i].status = "SHUTDOWN"
  BY <1>1, <1>4, <1>5, <1>6, RowsType, MissingAssumption DEF TypeOK
<1>8. RowsOf(h)' = RowsOf(h) /\ \A i \in RowsOf(h) : i \in DOMAIN rows /\ rows[i].host = h
  BY <1>5, <1>7 DEF RowsOf
<1>9. Place(h)'
  BY <1>1, <1>3 DEF Place
<1>10. Known(h)'
  <2>1. \A p \in Pools : /\ ids[h][p] # Missing => ids[h][p] \in DOMAIN rows
                         /\ poolIds[h][p] # Missing => poolIds[h][p] \in DOMAIN rows
    BY <1>1 DEF TypeOK
  <2>2. QED
    BY <1>1, <1>3, <1>7, <1>8, <2>1 DEF Known, IsRowOf
<1>11. Running(h)'
  BY <1>3 DEF Running
<1>12. Ending(h)'
  <2>1. told[h] \in {"known", "registered"} => target[h] = h
    BY <1>1, <1>3 DEF Ending
  <2>2. QED
    BY <1>1, <1>3, <1>7, <1>8, <2>1 DEF Ending
<1>13. QED
  BY <1>2, <1>3, <1>5, <1>7, <1>9, <1>10, <1>11, <1>12, RowsOnly

\* The row inserted is that of an entry that was awaited, and is no longer.
LEMMA InsertRowStep ==
  ASSUME Inv, NEW h \in Hosts, InsertRow(h)
  PROVE  RowsInv' /\ \A g \in Hosts : HostInv(g)'
<1> USE DEF store, process, registry, handler, console
<1>1. /\ Place(h) /\ Known(h) /\ Room(h) /\ Running(h) /\ Ending(h) /\ TypeOK /\ RowsInv
  BY DEF Inv, HostInv
<1>2. PICK k \in todo[h] :
        /\ rows' = Append(rows, [host |-> h, name |-> PoolList[k], status |-> "RUNNING",
                                 value |-> copy[h][k]])
        /\ ids' = [ids EXCEPT ![h][PoolList[k]] = Len(rows) + 1]
        /\ todo' = [todo EXCEPT ![h] = @ \ {k}]
  BY DEF InsertRow
<1> DEFINE new == Len(rows) + 1
           p == PoolList[k]
           row == [host |-> h, name |-> p, status |-> "RUNNING", value |-> copy[h][k]]
<1>3. reg[h] = "each" /\ k \in DOMAIN PoolList /\ p \in Pools /\ row \in Row
  <2>1. reg[h] = "each" /\ copy[h] \in Config /\ k \in DOMAIN PoolList
    BY <1>1 DEF InsertRow, Place, TypeOK
  <2>2. copy[h][k] \in Settings /\ p \in Pools
    BY <2>1, PoolListType DEF Config
  <2>3. QED
    BY <2>1, <2>2 DEF Row
<1>4. /\ Len(rows) \in Nat /\ DOMAIN rows = 1..Len(rows) /\ DOMAIN rows' = 1..new
      /\ rows'[new] = row /\ \A i \in DOMAIN rows : rows'[i] = rows[i]
  BY <1>1, <1>2, <1>3, RowsType DEF TypeOK
<1>5. \A g \in Hosts : g # h => SameProcess(g)
  BY <1>1, <1>2 DEF InsertRow, SameProcess, TypeOK
<1>6. \A g \in Hosts : SameRows(g) /\ (g # h => NoNewRow(g))
  BY <1>4 DEF SameRows, NoNewRow
<1>7. /\ todo'[h] = todo[h] \ {k}
      /\ UNCHANGED <<instance, up, reg, copy, found, poolIds, instanceId, term, target, told>>
  BY <1>1, <1>2 DEF InsertRow, TypeOK
<1>8. /\ ids'[h][p] = new /\ new \notin DOMAIN rows /\ new # Missing
      /\ \A q \in Pools : q # p => ids'[h][q] = ids[h][q]
      /\ \A q \in Pools : /\ ids[h][q] # Missing => ids[h][q] \in DOMAIN rows
                          /\ poolIds[h][q] # Missing => poolIds[h][q] \in DOMAIN rows
  BY <1>1, <1>2, <1>3, <1>4, MissingAssumption DEF TypeOK
<1>9. RowsOf(h)' = RowsOf(h) \cup {new} /\ new \notin RowsOf(h)
  BY <1>4, <1>8 DEF RowsOf
<1>10. \A i \in RowsOf(h) : i \in DOMAIN rows /\ rows'[i] = rows[i] /\ rows[i].name \in Pools
  BY <1>1, <1>4, RowsType DEF RowsOf, TypeOK
<1>11. p \notin found[h]
  BY <1>1, <1>3 DEF Known
<1>12. RowsInv'
  BY <1>1, <1>3, <1>4, <1>7 DEF RowsInv, Place
<1>13. Place(h)'
  BY <1>1, <1>3, <1>7 DEF Place
<1>14. Known(h)'
  <2>1. \A q \in Pools : /\ ids'[h][q] # Missing => IsRowOf(ids[h][q], h, q)'
                         /\ poolIds[h][q] # Missing => IsRowOf(poolIds[h][q], h, q)'
    BY <1>1, <1>4, <1>7, <1>8 DEF Known, IsRowOf
  <2>2. ASSUME NEW m \in DOMAIN PoolList
        PROVE  IF m \in todo'[h] THEN PoolList[m] \notin found[h]
                                 ELSE ids'[h][PoolList[m]] # Missing
    <3>1. CASE m \in todo'[h]
      BY <1>1, <1>3, <1>7, <3>1 DEF Known
    <3>2. CASE PoolList[m] = p
      BY <1>8, <1>11, <3>2
    <3>3. CASE m \notin todo'[h] /\ PoolList[m] # p
      <4>1. m \notin todo[h] /\ PoolList[m] \in Pools
        BY <1>7, <3>3, PoolListType
      <4>2. ids[h][PoolList[m]] # Missing
        BY <1>1, <1>3, <4>1 DEF Known
      <4>3. QED
        BY <1>8, <3>3, <4>1, <4>2
    <3>4. QED
      BY <3>1, <3>2, <3>3
  <2>3. ASSUME NEW i \in RowsOf(h)', rows'[i].name \in found[h]
        PROVE  ids'[h][rows'[i].name] = i
    <3>1. i # new
      BY <1>4, <1>11, <2>3
    <3>2. i \in RowsOf(h) /\ rows'[i] = rows[i] /\ rows[i].name \in Pools
      BY <1>9, <1>10, <3>1
    <3>3. ids[h][rows[i].name] = i
      BY <1>1, <1>3, <2>3, <3>2 DEF Known
    <3>4. QED
      BY <1>8, <1>11, <2>3, <3>2, <3>3
  <2>4. QED
    BY <1>3, <1>7, <2>1, <2>2, <2>3 DEF Known
<1>15. Room(h)'
  <2>1. SUFFICES ASSUME NEW q \in Pools
                 PROVE  Cardinality(Named(h, q)') + Cardinality(Awaiting(h, q)')
                          <= Cardinality(Entries(q))
    BY DEF Room, Entries
  <2>2. Cardinality(Named(h, q)) + Cardinality(Awaiting(h, q)) <= Cardinality(Entries(q))
    BY <1>1 DEF Room
  <2>3. CASE q = p
    <3>1. Named(h, q)' = Named(h, q) \cup {new} /\ new \notin Named(h, q)
      BY <1>4, <1>9, <1>10, <2>3 DEF Named
    <3>2. Awaiting(h, q)' = Awaiting(h, q) \ {k} /\ k \in Awaiting(h, q)
      BY <1>3, <1>7, <2>3 DEF Awaiting, Entries
    <3>3. Cardinality(Named(h, q)') = Cardinality(Named(h, q)) + 1
      BY <1>1, <3>1, Sizes, FS_AddElement
    <3>4. Cardinality(Awaiting(h, q)') = Cardinality(Awaiting(h, q)) - 1
      BY <1>1, <3>2, Sizes, FS_RemoveElement
    <3>5. QED
      BY <1>1, <2>2, <3>3, <3>4, Sizes, EntriesType
  <2>4. CASE q # p
    <3>1. Named(h, q)' = Named(h, q)
      BY <1>4, <1>9, <1>10, <2>4 DEF Named
    <3>2. Awaiting(h, q)' = Awaiting(h, q)
      BY <1>7, <2>4 DEF Awaiting, Entries
    <3>3. QED
      BY <2>2, <3>1, <3>2
  <2>5. QED
    BY <2>3, <2>4
<1>16. Running(h)'
  <2>1. ASSUME NEW i \in RowsOf(h)', rows'[i].name \notin found[h], term[h] = "none"
        PROVE  rows'[i].status = "RUNNING"
    <3>1. CASE i = new
      BY <1>4, <3>1
    <3>2. CASE i # new
      BY <1>1, <1>3, <1>9, <1>10, <2>1, <3>2 DEF Running
    <3>3. QED
      BY <3>1, <3>2
  <2>2. QED
    BY <1>1, <1>3, <1>7, <2>1 DEF Running
<1>17. Ending(h)'
  <2>1. told[h] # "registered"
    BY <1>1, <1>3 DEF Ending, Place
  <2>2. QED
    BY <1>1, <1>7, <2>1 DEF Ending
<1>18. \A g \in Hosts : HostInv(g)'
  BY <1>1, <1>5, <1>6, <1>13, <1>14, <1>15, <1>16, <1>17, Elsewhere DEF Inv, HostInv
<1>19. QED
  BY <1>12, <1>18


\* Steps that concern the settings only: a refresh, the indicators and the console.
LEMMA SettingsStep ==
  ASSUME Inv,
         \/ \E h \in Hosts : Refresh(h) \/ \E p \in Pools : Indicate(h, p)
         \/ \E u \in Users : EditBegin(u) \/ Edit(u) \/ EditNotPublished(u) \/ EditRowFails(u)
  PROVE  RowsInv' /\ \A g \in Hosts : HostInv(g)'
<1> USE DEF store, process, registry, handler, console
<1>1. /\ UNCHANGED <<instance, up, registry, handler, told>>
      /\ rows' = rows \/ \E i \in DOMAIN rows, v \in Settings : rows' = [rows EXCEPT ![i].value = v]
  <2>1. CASE \E h \in Hosts : Refresh(h)
    BY <2>1 DEF Refresh
  <2>2. CASE \E h \in Hosts : \E p \in Pools : Indicate(h, p)
    <3>1. PICK h \in Hosts, p \in Pools : Indicate(h, p)
      BY <2>2
    <3>2. poolIds[h][p] \in DOMAIN rows
      BY <3>1 DEF Indicate, Inv, TypeOK
    <3>3. rows' = [rows EXCEPT ![poolIds[h][p]].value = 0]
          /\ UNCHANGED <<instance, up, registry, handler, told>>
      BY <3>1 DEF Indicate
    <3>4. QED
      BY <3>2, <3>3, SettingsAccepted
  <2>3. CASE \E u \in Users : EditBegin(u) \/ EditPublish(u)
    BY <2>3 DEF EditBegin, EditPublish
  <2>4. ASSUME NEW u \in Users, EditRow(u)
        PROVE  /\ UNCHANGED <<instance, up, registry, handler, told>>
               /\ \E i \in DOMAIN rows, v \in Settings : rows' = [rows EXCEPT ![i].value = v]
    <3>1. request[u] \in Request /\ request[u].id \in DOMAIN rows
      BY <2>4 DEF EditRow, Inv, TypeOK
    <3>2. request[u].value \in Settings
      BY <3>1 DEF Request
    <3>3. QED
      BY <2>4, <3>1, <3>2 DEF EditRow
  <2>5. CASE \E u \in Users : EditNotPublished(u) \/ EditRowFails(u)
    BY <2>5 DEF EditNotPublished, EditRowFails
  <2>6. QED
    BY <2>1, <2>2, <2>3, <2>4, <2>5 DEF Edit
<1>2. DOMAIN rows' = DOMAIN rows
  BY <1>1
<1>3. \A i \in DOMAIN rows : /\ rows'[i].host = rows[i].host /\ rows'[i].name = rows[i].name
                             /\ rows'[i].status = rows[i].status
  <2>1. \A r \in Row, v \in Settings : LET s == [r EXCEPT !.value = v]
                                       IN  s.host = r.host /\ s.name = r.name /\ s.status = r.status
    BY DEF Row
  <2>2. \A i \in DOMAIN rows : rows[i] \in Row
    BY RowsType DEF Inv, TypeOK
  <2>3. CASE rows' = rows
    BY <2>3
  <2>4. ASSUME NEW j \in DOMAIN rows, NEW v \in Settings, rows' = [rows EXCEPT ![j].value = v],
               NEW i \in DOMAIN rows
        PROVE  /\ rows'[i].host = rows[i].host /\ rows'[i].name = rows[i].name
               /\ rows'[i].status = rows[i].status
    <3>1. rows'[i] = IF i = j THEN [rows[i] EXCEPT !.value = v] ELSE rows[i]
      BY <2>4
    <3>2. QED
      BY <2>1, <2>2, <3>1
  <2>5. QED
    BY <1>1, <2>3, <2>4
<1>4. RowsInv'
  BY <1>1, <1>2, <1>3, RowsKept DEF Inv
<1>5. \A g \in Hosts : SameProcess(g) /\ SameRows(g) /\ NoNewRow(g)
  BY <1>1, <1>2, <1>3 DEF SameProcess, SameRows, NoNewRow
<1>6. \A g \in Hosts : HostInv(g)'
  BY <1>5, Elsewhere DEF Inv
<1>7. QED
  BY <1>4, <1>6

-----------------------------------------------------------------------------
(***************************************************************************)
(* Theorems.                                                               *)
(***************************************************************************)

LEMMA InvStep ==
  ASSUME Inv, [Next]_vars
  PROVE  Inv'
<1>1. TypeOK'
  BY TypeStep
<1>2. RowsInv' /\ \A g \in Hosts : HostInv(g)'
  <2>1. CASE UNCHANGED vars
    BY <2>1 DEF Inv, RowsInv, HostInv, Place, Known, IsRowOf, Room, Named, Awaiting, Entries,
                Running, Ending, RowsOf, vars, store, process, registry, handler, console
  <2>2. CASE Next
    BY <2>2, StartStep, ForgetStep, SignalStep, RegisterLookStep, SelectRowsStep,
       SelectRowsThrowsStep, ShutDownFailsStep, RegisterInstanceStep, ShutDownInstanceStep, UpdateRowsStep,
       ShutDownRowsStep, InsertRowStep, SettingsStep DEF Next, Register, Handle
  <2>3. QED
    BY <2>1, <2>2
<1>3. QED
  BY <1>1, <1>2 DEF Inv

THEOREM Invariance == Spec => []Inv
<1>1. Init => Inv
  BY InitInv
<1>2. Inv /\ [Next]_vars => Inv'
  BY InvStep
<1>3. QED
  BY <1>1, <1>2, PTL DEF Spec

\* Every variable keeps its type, in particular an identifier that a process or a
\* request holds is that of a row, and what an edit publishes is a configuration.
THEOREM TypeCorrectness == Spec => []TypeOK
<1>1. Inv => TypeOK
  BY DEF Inv
<1>2. QED
  BY <1>1, Invariance, PTL

\* Registering again after a crash or a failed statement at any point inserts no row
\* beyond the entries that the list has for a pool.
THEOREM RowsStayWithinList == Spec => []RowsWithinList
<1>1. Inv => RowsWithinList
  <2>1. SUFFICES ASSUME Inv, NEW h \in Hosts, NEW p \in Pools
                 PROVE  Cardinality(Named(h, p)) <= Cardinality(Entries(p))
    BY DEF RowsWithinList, Named
  <2>2. Cardinality(Named(h, p)) + Cardinality(Awaiting(h, p)) <= Cardinality(Entries(p))
    BY <2>1 DEF Inv, HostInv, Room
  <2>3. QED
    BY <2>1, <2>2, Sizes, EntriesType DEF Inv
<1>2. QED
  BY <1>1, Invariance, PTL

\* The selection of an instance's rows throws only if the list names a pool twice: for
\* other lists, no history of the host leaves two rows of one pool.
OnlyDuplicatesThrow == \A h \in Hosts : reg[h] = "thrown" => ~IsInjective(PoolList)

THEOREM DistinctNamesRegister == Spec => []OnlyDuplicatesThrow
<1>1. Inv => OnlyDuplicatesThrow
  BY DEF Inv, HostInv, Place, OnlyDuplicatesThrow
<1>2. QED
  BY <1>1, Invariance, PTL

\* The identifiers that executors have are those of the rows of their own pools, and
\* every row is one of an instance in its table.
THEOREM IdentifiersBelong == Spec => []RowsBelong
<1>1. Inv => RowsBelong
  BY DEF Inv, RowsInv, HostInv, Known, IsRowOf, RowsBelong
<1>2. QED
  BY <1>1, Invariance, PTL

\* A registered process that nothing told to stop is RUNNING with all its rows, also
\* when statements of earlier registrations of its host failed.
THEOREM RegisteredProcessesRun == Spec => []RegisteredIsRunning
<1>1. Inv => RegisteredIsRunning
  <2>1. SUFFICES ASSUME Inv, NEW h \in Hosts, reg[h] = "done", term[h] = "none"
                 PROVE  /\ instance[h].status = "RUNNING"
                        /\ \A i \in RowsOf(h) : rows[i].status = "RUNNING"
                        /\ \A p \in Pools : poolIds[h][p] # Missing
    BY DEF RegisteredIsRunning
  <2>2. Known(h) /\ Running(h)
    BY <2>1 DEF Inv, HostInv
  <2>3. QED
    BY <2>1, <2>2 DEF Known, Running
<1>2. QED
  BY <1>1, Invariance, PTL

\* A process that a signal has stopped left its instance SHUTDOWN if it knew the
\* identifier, and its rows as well if it was registered.
THEOREM StoppedProcessesAreRecorded == Spec => []ShutdownRecorded
<1>1. Inv => ShutdownRecorded
  BY DEF Inv, HostInv, Ending, ShutdownRecorded
<1>2. QED
  BY <1>1, Invariance, PTL
=============================================================================
