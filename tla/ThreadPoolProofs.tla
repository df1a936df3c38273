--------------------------- MODULE ThreadPoolProofs ---------------------------
(***************************************************************************)
(* Proofs about ThreadPool, for any set of submitting threads, any         *)
(* configurations, and any number of tasks, of refreshes and of workers    *)
(* that the configurations allow: where tasks are, who is there for a      *)
(* queued one, what is counted, and how deep the discarding policy recurs. *)
(***************************************************************************)
EXTENDS ThreadPool, NumbersAndLists

-----------------------------------------------------------------------------
(***************************************************************************)
(* Sums.                                                                   *)
(***************************************************************************)

LEMMA CountedElements ==
  ASSUME NEW D, NEW f \in [D -> Nat], NEW e
  PROVE  e \in Counted(f) <=> \E x \in D, i \in Nat : e = <<x, i>> /\ 1 <= i /\ i <= f[x]
<1>1. e \in Counted(f) <=> \E x \in D : e \in {x} \X (1..f[x])
  BY DEF Counted
<1>2. ASSUME NEW x \in D
      PROVE  e \in {x} \X (1..f[x]) <=> \E i \in Nat : e = <<x, i>> /\ 1 <= i /\ i <= f[x]
  <2>1. f[x] \in Nat
    OBVIOUS
  <2>2. \A i : i \in 1..f[x] <=> i \in Nat /\ 1 <= i /\ i <= f[x]
    BY <2>1
  <2>3. e \in {x} \X (1..f[x]) <=> \E i \in 1..f[x] : e = <<x, i>>
    OBVIOUS
  <2>4. QED
    BY <2>2, <2>3
<1>3. QED
  BY <1>1, <1>2

\* One more at x.
LEMMA CountedIncrement ==
  ASSUME NEW D, NEW f \in [D -> Nat], NEW x \in D
  PROVE  LET g == [f EXCEPT ![x] = @ + 1]
         IN  /\ Counted(g) = Counted(f) \cup {<<x, f[x] + 1>>}
             /\ <<x, f[x] + 1>> \notin Counted(f)
<1> DEFINE g == [f EXCEPT ![x] = @ + 1]
<1>1. g \in [D -> Nat] /\ g[x] = f[x] + 1 /\ \A y \in D : y # x => g[y] = f[y]
  OBVIOUS
<1> HIDE DEF g
<1>2. ASSUME NEW e PROVE e \in Counted(g) <=> e \in Counted(f) \/ e = <<x, f[x] + 1>>
  <2>1. e \in Counted(f) <=> \E y \in D, i \in Nat : e = <<y, i>> /\ 1 <= i /\ i <= f[y]
    BY CountedElements
  <2>2. e \in Counted(g) <=> \E y \in D, i \in Nat : e = <<y, i>> /\ 1 <= i /\ i <= g[y]
    BY <1>1, CountedElements
  <2>3. \A y \in D, i \in Nat : i <= g[y] <=> i <= f[y] \/ (y = x /\ i = f[x] + 1)
    BY <1>1
  <2>4. f[x] + 1 \in Nat /\ 1 <= f[x] + 1
    OBVIOUS
  <2>5. QED
    BY <2>1, <2>2, <2>3, <2>4
<1>3. <<x, f[x] + 1>> \notin Counted(f)
  <2>1. <<x, f[x] + 1>> \in Counted(f) =>
          \E y \in D, i \in Nat : <<x, f[x] + 1>> = <<y, i>> /\ 1 <= i /\ i <= f[y]
    BY CountedElements
  <2>2. ~(f[x] + 1 <= f[x])
    OBVIOUS
  <2>3. QED
    BY <2>1, <2>2
<1>4. QED
  BY <1>2, <1>3 DEF g

LEMMA TotalIncrement ==
  ASSUME NEW D, NEW f \in [D -> Nat], NEW x \in D, IsFiniteSet(Counted(f))
  PROVE  LET g == [f EXCEPT ![x] = @ + 1]
         IN  g \in [D -> Nat] /\ IsFiniteSet(Counted(g)) /\ Total(g) = Total(f) + 1
<1> DEFINE g == [f EXCEPT ![x] = @ + 1]
           e == <<x, f[x] + 1>>
<1>1. Counted(g) = Counted(f) \cup {e} /\ e \notin Counted(f)
  BY CountedIncrement
<1>2. g \in [D -> Nat]
  OBVIOUS
<1> HIDE DEF g, e
<1>3. IsFiniteSet(Counted(f) \cup {e}) /\ Cardinality(Counted(f) \cup {e}) = Cardinality(Counted(f)) + 1
  BY <1>1, FS_AddElement
<1>4. QED
  BY <1>1, <1>2, <1>3 DEF Total, g

\* One less at x.
LEMMA TotalDecrement ==
  ASSUME NEW D, NEW f \in [D -> Nat], NEW x \in D, f[x] > 0, IsFiniteSet(Counted(f))
  PROVE  LET g == [f EXCEPT ![x] = @ - 1]
         IN  g \in [D -> Nat] /\ IsFiniteSet(Counted(g)) /\ Total(g) = Total(f) - 1
<1> DEFINE g == [f EXCEPT ![x] = @ - 1]
<1> DEFINE h == [g EXCEPT ![x] = @ + 1]
<1>1. g \in [D -> Nat] /\ f = h
  <2>1. g \in [D -> Nat] /\ g[x] = f[x] - 1 /\ \A y \in D : y # x => g[y] = f[y]
    OBVIOUS
  <2> HIDE DEF g
  <2>2. h \in [D -> Nat] /\ h[x] = f[x] /\ \A y \in D : y # x => h[y] = f[y]
    BY <2>1
  <2> HIDE DEF h
  <2>3. QED
    BY <2>1, <2>2
<1> HIDE DEF g
<1>2. Counted(h) = Counted(g) \cup {<<x, g[x] + 1>>}
  BY <1>1, CountedIncrement
<1>3. Counted(g) \in SUBSET Counted(f)
  BY <1>1, <1>2
<1>4. IsFiniteSet(Counted(g))
  BY <1>3, FS_Subset
<1>5. Total(h) = Total(g) + 1
  <2>1. g \in [D -> Nat]
    BY <1>1
  <2>2. QED
    BY <2>1, <1>4, TotalIncrement
<1>6. Total(g) \in Nat
  BY <1>4, FS_CardinalityType DEF Total
<1> HIDE DEF h
<1>7. QED
  BY <1>1, <1>4, <1>5, <1>6 DEF g

LEMMA TotalReset ==
  ASSUME NEW D, NEW f \in [D -> Nat], NEW x \in D, IsFiniteSet(Counted(f))
  PROVE  LET g == [f EXCEPT ![x] = 0]
         IN  g \in [D -> Nat] /\ IsFiniteSet(Counted(g)) /\ (f[x] = 0 => g = f)
<1> DEFINE g == [f EXCEPT ![x] = 0]
<1>1. g \in [D -> Nat] /\ \A y \in D : g[y] <= f[y]
  OBVIOUS
<1>2. f[x] = 0 => g = f
  OBVIOUS
<1> HIDE DEF g
<1>3. ASSUME NEW e \in Counted(g) PROVE e \in Counted(f)
  <2>1. PICK y \in D : \E i \in Nat : e = <<y, i>> /\ 1 <= i /\ i <= g[y]
    BY <1>1, CountedElements
  <2>2. PICK i \in Nat : e = <<y, i>> /\ 1 <= i /\ i <= g[y]
    BY <2>1
  <2>3. i <= f[y]
    BY <1>1, <2>2
  <2>4. QED
    BY <2>2, <2>3, CountedElements
<1>4. Counted(g) \in SUBSET Counted(f)
  BY <1>3
<1>5. IsFiniteSet(Counted(g))
  BY <1>4, FS_Subset
<1>6. QED
  BY <1>1, <1>2, <1>5 DEF g

LEMMA TotalZero ==
  ASSUME NEW D
  PROVE  LET f == [x \in D |-> 0]
         IN  f \in [D -> Nat] /\ IsFiniteSet(Counted(f)) /\ Total(f) = 0
<1> DEFINE f == [x \in D |-> 0]
<1>1. f \in [D -> Nat] /\ \A x \in D : f[x] = 0
  OBVIOUS
<1> HIDE DEF f
<1>2. ASSUME NEW e \in Counted(f) PROVE FALSE
  <2>1. PICK x \in D : \E i \in Nat : e = <<x, i>> /\ 1 <= i /\ i <= f[x]
    BY <1>1, CountedElements
  <2>2. QED
    BY <1>1, <2>1
<1>3. Counted(f) = {}
  BY <1>2
<1>4. QED
  BY <1>1, <1>3, FS_EmptySet DEF Total, f

\* What is counted at one place is at most the sum.
LEMMA TotalType ==
  ASSUME NEW D, NEW f \in [D -> Nat], IsFiniteSet(Counted(f))
  PROVE  Total(f) \in Nat /\ \A x \in D : f[x] <= Total(f)
<1>1. Total(f) \in Nat
  BY FS_CardinalityType DEF Total
<1>2. ASSUME NEW x \in D PROVE f[x] <= Total(f)
  <2> DEFINE here == {x} \X (1..f[x])
             at == [i \in 1..f[x] |-> <<x, i>>]
  <2>1. here \in SUBSET Counted(f)
    BY DEF Counted
  <2>2. IsFiniteSet(here) /\ Cardinality(here) <= Cardinality(Counted(f))
    BY <2>1, FS_Subset
  <2>3. at \in Injection(1..f[x], here)
    BY DEF Injection, IsInjective
  <2>4. Cardinality(1..f[x]) <= Cardinality(here)
    <3> HIDE DEF here, at
    <3>1. QED
      BY <2>2, <2>3, FS_Injection
  <2>5. Cardinality(1..f[x]) = f[x]
    <3>1. f[x] \in Nat
      OBVIOUS
    <3>2. QED
      BY <3>1, FS_Interval
  <2>6. Cardinality(here) \in Nat /\ f[x] \in Nat
    BY <2>2, FS_CardinalityType
  <2> HIDE DEF here
  <2>7. QED
    BY <1>1, <2>2, <2>4, <2>5, <2>6 DEF Total
<1>3. QED
  BY <1>1, <1>2

-----------------------------------------------------------------------------
(***************************************************************************)
(* Types, sizes, and where calls of execute are.                           *)
(***************************************************************************)

\* No more workers than the largest size there may be, whatever is refreshed.
CountInv ==
  /\ IsFiniteSet(Counted(leaving))
  /\ core <= Limit /\ max <= Limit /\ WorkerCount <= Limit
  /\ stage # "none" => plan \in Configs

\* A thread has a task while it is in execute, and returns to the policy only if the
\* policy has called.
CallOK(s) ==
  /\ pc[s] = "idle" => depth[s] = 0
  /\ pc[s] = "return" => depth[s] > 0
  /\ pc[s] # "idle" => task[s] \in Tasks

CallsInv == \A s \in Submitters : CallOK(s)

Inv == TypeOK /\ CountInv /\ CallsInv

LEMMA LimitBounds ==
  Limit \in Nat /\ \A c \in Configs : c.core <= Limit /\ c.max <= Limit
<1> DEFINE cores == [c \in Configs |-> c.core]
           maxes == [c \in Configs |-> c.max]
           A == {c.core : c \in Configs}
           B == {c.max : c \in Configs}
<1>1. \A c \in Configs : c.core \in Nat /\ c.max \in Nat
  BY ConfigsAssumption
<1>2. cores \in Surjection(Configs, A) /\ maxes \in Surjection(Configs, B)
  BY DEF Surjection
<1>3. IsFiniteSet(A) /\ IsFiniteSet(B)
  <2> HIDE DEF A, B, cores, maxes
  <2>1. QED
    BY <1>2, FS_Surjection, ConfigsAssumption
<1>4. IsFiniteSet(A \cup B)
  <2> HIDE DEF A, B
  <2>1. QED
    BY <1>3, FS_Union
<1>5. A \cup B \in SUBSET Nat /\ A \cup B # {}
  BY <1>1, ConfigsAssumption
<1>6. Max(A \cup B) \in A \cup B /\ \A n \in A \cup B : n <= Max(A \cup B)
  <2> HIDE DEF A, B
  <2>1. QED
    BY <1>4, <1>5, MaxOfFinite
<1>7. \A c \in Configs : c.core \in A \cup B /\ c.max \in A \cup B
  OBVIOUS
<1>8. Limit = Max(A \cup B)
  BY DEF Limit
<1> HIDE DEF A, B
<1>9. QED
  BY <1>5, <1>6, <1>7, <1>8

LEMMA TasksFinite ==
  ASSUME NEW S \in SUBSET Tasks
  PROVE  IsFiniteSet(S) /\ Cardinality(S) \in Nat /\ Cardinality(S) <= MaxTasks
<1>1. IsFiniteSet(Tasks) /\ Cardinality(Tasks) <= MaxTasks
  BY BoundsAssumption, FS_Interval DEF Tasks
<1>2. IsFiniteSet(S) /\ Cardinality(S) <= Cardinality(Tasks)
  BY <1>1, FS_Subset
<1>3. Cardinality(S) \in Nat /\ Cardinality(Tasks) \in Nat
  BY <1>1, <1>2, FS_CardinalityType
<1>4. QED
  BY <1>1, <1>2, <1>3, BoundsAssumption

\* One task more, or less, of those in S.
LEMMA OneTask ==
  ASSUME NEW S \in SUBSET Tasks, NEW k \in Tasks
  PROVE  /\ Cardinality(S \cup {k}) = IF k \in S THEN Cardinality(S) ELSE Cardinality(S) + 1
         /\ Cardinality(S \ {k}) = IF k \in S THEN Cardinality(S) - 1 ELSE Cardinality(S)
  BY TasksFinite, FS_AddElement, FS_RemoveElement

LEMMA WorkerCountType ==
  ASSUME TypeOK, IsFiniteSet(Counted(leaving))
  PROVE  /\ Cardinality(running) \in Nat /\ Total(leaving) \in Nat /\ WorkerCount \in Nat
         /\ idle \in Nat /\ idle <= WorkerCount
         /\ leaving \in [1..Limit -> Nat] /\ \A n \in 1..Limit : idle + leaving[n] <= WorkerCount
<1>1. idle \in Nat /\ leaving \in [1..Limit -> Nat] /\ running \in SUBSET Tasks
  BY LimitBounds DEF TypeOK
<1>2. Total(leaving) \in Nat /\ \A n \in 1..Limit : leaving[n] <= Total(leaving)
  BY <1>1, TotalType
<1>3. Cardinality(running) \in Nat
  BY <1>1, TasksFinite
<1>4. QED
  BY <1>1, <1>2, <1>3 DEF WorkerCount

LEMMA InitInv == Init => Inv
<1> SUFFICES ASSUME Init PROVE Inv
  OBVIOUS
<1>1. PICK c \in Initial :
        core = c.core /\ max = c.max /\ policy = c.policy /\ capacity = c.capacity
  BY DEF Init
<1>2. c \in Configs
  BY ConfigsAssumption
<1>3. c \in [core : Nat, max : Nat \ {0}, policy : Policies, capacity : Nat]
  BY <1>2, ConfigsAssumption
<1>4. Limit \in Nat /\ core <= Limit /\ max <= Limit
  BY <1>1, <1>2, LimitBounds
<1>5. TypeOK
  <2>1. core \in Nat /\ max \in Nat \ {0} /\ policy \in Policies /\ capacity \in Nat
    BY <1>1, <1>3
  <2>2. /\ queue \in Seq(Tasks)
        /\ idle \in 0..Limit /\ running \subseteq Tasks /\ exiting \in Nat
        /\ leaving \in [1..Limit -> 0..Limit]
    BY <1>4 DEF Init
  <2>3. /\ pc \in [Submitters -> {"idle", "core", "offer", "recheck", "grow", "reject", "run", "return"}]
        /\ task \in [Submitters -> Tasks \cup {0}] /\ depth \in [Submitters -> Nat]
    BY DEF Init
  <2>4. /\ plan \in Configs \cup {None}
        /\ stage \in {"none", "core", "prestart", "policy", "capacity"}
        /\ prestart \in Nat /\ refreshes \in 0..MaxRefreshes
    BY BoundsAssumption DEF Init
  <2>5. /\ submitted \in 0..MaxTasks /\ finished \subseteq Tasks /\ dropped \subseteq Tasks
        /\ rejectCount \in Nat
    BY BoundsAssumption DEF Init
  <2>6. shut \in BOOLEAN /\ unwound \in BOOLEAN
    BY Zenon DEF Init
  <2>7. QED
    BY <2>1, <2>2, <2>3, <2>4, <2>5, <2>6 DEF TypeOK
<1>6. IsFiniteSet(Counted(leaving)) /\ Total(leaving) = 0
  <2>1. leaving = [n \in 1..Limit |-> 0]
    BY DEF Init
  <2>2. QED
    BY <2>1, TotalZero
<1>7. WorkerCount = 0
  BY <1>6, FS_EmptySet DEF Init, WorkerCount
<1>8. CountInv
  BY <1>4, <1>6, <1>7 DEF CountInv, Init
<1>9. CallsInv
  BY DEF CallsInv, CallOK, Init
<1>10. QED
  BY <1>5, <1>8, <1>9 DEF Inv

-----------------------------------------------------------------------------
\* The parts of TypeOK.
SettingsType == core \in Nat /\ max \in Nat \ {0} /\ policy \in Policies /\ capacity \in Nat
WorkersType ==
  /\ idle \in 0..Limit /\ running \subseteq Tasks /\ exiting \in Nat
  /\ leaving \in [1..Limit -> 0..Limit]
Labels == {"idle", "core", "offer", "recheck", "grow", "reject", "run", "return"}
CallersType ==
  pc \in [Submitters -> Labels] /\ task \in [Submitters -> Tasks \cup {0}] /\ depth \in [Submitters -> Nat]
RefreshType ==
  /\ plan \in Configs \cup {None} /\ stage \in {"none", "core", "prestart", "policy", "capacity"}
  /\ prestart \in Nat /\ refreshes \in 0..MaxRefreshes
EndsType ==
  submitted \in 0..MaxTasks /\ finished \subseteq Tasks /\ dropped \subseteq Tasks /\ rejectCount \in Nat

LEMMA TypeParts ==
  TypeOK <=> /\ SettingsType /\ queue \in Seq(Tasks) /\ WorkersType /\ CallersType
             /\ RefreshType /\ EndsType /\ shut \in BOOLEAN /\ unwound \in BOOLEAN
  BY Zenon DEF TypeOK, SettingsType, WorkersType, CallersType, Labels, RefreshType, EndsType

\* What a step leaves alone keeps its type.
LEMMA TypeFrame ==
  ASSUME TypeOK
  PROVE  /\ UNCHANGED settings => SettingsType'
         /\ UNCHANGED queue => queue' \in Seq(Tasks)
         /\ UNCHANGED workers => WorkersType'
         /\ UNCHANGED callers => CallersType'
         /\ UNCHANGED refresh => RefreshType'
         /\ UNCHANGED ends => EndsType' /\ unwound' \in BOOLEAN
         /\ UNCHANGED shut => shut' \in BOOLEAN
<1>1. UNCHANGED settings => SettingsType'
  BY TypeParts DEF settings, SettingsType
<1>2. UNCHANGED workers => WorkersType'
  BY TypeParts DEF workers, WorkersType, Limit
<1>3. UNCHANGED callers => CallersType'
  BY TypeParts DEF callers, CallersType
<1>4. UNCHANGED refresh => RefreshType'
  BY TypeParts DEF refresh, RefreshType
<1>5. UNCHANGED ends => EndsType' /\ UNCHANGED unwound
  BY TypeParts DEF ends, EndsType
<1>6. /\ UNCHANGED unwound => unwound' \in BOOLEAN
      /\ UNCHANGED queue => queue' \in Seq(Tasks)
      /\ UNCHANGED shut => shut' \in BOOLEAN
  BY Zenon, TypeParts
<1>7. QED
  BY <1>1, <1>2, <1>3, <1>4, <1>5, <1>6

\* A submitting thread goes on in execute.
LEMMA GotoStep ==
  ASSUME CallersType, CallsInv, NEW s \in Submitters, pc[s] # "idle",
         NEW l \in Labels \ {"idle", "return"}, Goto(s, l), UNCHANGED <<task, depth>>
  PROVE  CallersType' /\ CallsInv'
  BY DEF CallersType, CallsInv, CallOK, Goto

\* execute returns.
LEMMA ReturnsStep ==
  ASSUME CallersType, CallsInv, NEW s \in Submitters, pc[s] # "idle", Returns(s), UNCHANGED depth
  PROVE  CallersType' /\ CallsInv'
<1>1. CASE depth[s] > 0
  BY <1>1 DEF CallersType, CallsInv, CallOK, Goto, Returns, Labels
<1>2. CASE ~(depth[s] > 0)
  <2>1. depth[s] = 0
    BY <1>2 DEF CallersType
  <2>2. QED
    BY <1>2, <2>1 DEF CallersType, CallsInv, CallOK, Goto, Returns, Labels
<1>3. QED
  BY <1>1, <1>2

LEMMA CallersStep ==
  ASSUME Inv, NEW s \in Submitters, Execute(s) \/ Submit(s)
  PROVE  CallersType' /\ CallsInv'
<1>1. CallersType /\ CallsInv /\ submitted \in 0..MaxTasks
  BY TypeParts DEF Inv, EndsType
<1>2. CASE Submit(s)
  <2>1. submitted + 1 \in Tasks
    BY <1>1, <1>2, BoundsAssumption DEF Submit, Tasks
  <2>2. QED
    BY <1>1, <1>2, <2>1 DEF Submit, Goto, CallersType, CallsInv, CallOK, Labels
<1>3. CASE AddCoreWorker(s)
  BY <1>1, <1>3, ReturnsStep DEF AddCoreWorker, RunInWorker
<1>4. CASE CoreFull(s)
  BY <1>1, <1>4, GotoStep DEF CoreFull, Labels
<1>5. CASE Offer(s)
  BY <1>1, <1>5, GotoStep DEF Offer, Labels
<1>6. CASE Recheck(s)
  BY <1>1, <1>6, GotoStep, ReturnsStep DEF Recheck, Labels
<1>7. CASE AddWorker(s)
  BY <1>1, <1>7, GotoStep, ReturnsStep DEF AddWorker, RunInWorker, Labels
<1>8. CASE Abort(s)
  BY <1>1, <1>8 DEF Abort, Goto, CallersType, CallsInv, CallOK, Labels
<1>9. CASE Discard(s)
  BY <1>1, <1>9, ReturnsStep DEF Discard
<1>10. CASE CallerRuns(s)
  BY <1>1, <1>10, GotoStep, ReturnsStep DEF CallerRuns, Labels
<1>11. CASE Run(s)
  BY <1>1, <1>11, ReturnsStep DEF Run
<1>12. CASE DiscardOldest(s)
  <2>1. CASE shut
    BY <1>1, <1>12, <2>1, ReturnsStep DEF DiscardOldest
  <2>2. CASE ~shut
    BY <1>1, <1>12, <2>2 DEF DiscardOldest, Goto, CallersType, CallsInv, CallOK, Labels
  <2>3. QED
    BY <2>1, <2>2
<1>13. CASE CountAndReturn(s)
  <2>1. CASE depth[s] > 1
    BY <1>1, <1>13, <2>1 DEF CountAndReturn, CallersType, CallsInv, CallOK, Labels
  <2>2. CASE ~(depth[s] > 1)
    BY <1>1, <1>13, <2>2 DEF CountAndReturn, Goto, CallersType, CallsInv, CallOK, Labels
  <2>3. QED
    BY <2>1, <2>2
<1>14. QED
  BY <1>2, <1>3, <1>4, <1>5, <1>6, <1>7, <1>8, <1>9, <1>10, <1>11, <1>12, <1>13 DEF Execute

-----------------------------------------------------------------------------
\* The queue is changed only by Offer, Recheck, DiscardOldest and Take.
LEMMA QueueStep ==
  ASSUME Inv, Next
  PROVE  queue' \in Seq(Tasks)
<1>1. queue \in Seq(Tasks) /\ CallersType
  BY TypeParts DEF Inv
<1>2. queue # <<>> => Tail(queue) \in Seq(Tasks)
  BY <1>1, TailOnce
<1>3. <<>> \in Seq(Tasks)
  OBVIOUS
<1>4. ASSUME NEW s \in Submitters, Execute(s) \/ Submit(s)
      PROVE  queue' \in Seq(Tasks)
  <2>1. pc[s] # "idle" => task[s] \in Tasks
    BY DEF Inv, CallsInv, CallOK
  <2>2. CASE Offer(s)
    <3>1. Append(queue, task[s]) \in Seq(Tasks)
      BY <1>1, <2>1, <2>2, AppendOnce DEF Offer
    <3>2. QED
      BY <1>1, <2>2, <3>1 DEF Offer
  <2>3. CASE Recheck(s)
    <3>1. \A i \in DOMAIN queue : RemoveAt(queue, i) \in Seq(Tasks)
      BY <1>1, RemoveAtElements
    <3>2. QED
      BY <1>1, <2>3, <3>1, Zenon DEF Recheck
  <2>4. CASE DiscardOldest(s)
    BY <1>1, <1>2, <1>3, <2>4 DEF DiscardOldest
  <2>5. CASE /\ ~(Offer(s) \/ Recheck(s) \/ DiscardOldest(s))
    BY <1>1, <1>4, <2>5 DEF Execute, Submit, AddCoreWorker, CoreFull, AddWorker, Abort, Discard,
       CallerRuns, Run, CountAndReturn
  <2>6. QED
    BY <2>2, <2>3, <2>4, <2>5
<1>5. CASE Worker
  BY <1>1, <1>2, <1>5 DEF Worker, Take, Decide, Leave, LeaveAtShutdown, Exit
<1>6. CASE Refresh
  BY <1>1, <1>6 DEF Refresh, SetCore, Prestart, SetMax, SetPolicy, SetCapacity
<1>7. CASE (\E k \in running : Finish(k)) \/ BeginRefresh \/ Shutdown
  BY <1>1, <1>7 DEF Finish, BeginRefresh, Shutdown
<1>8. QED
  BY <1>4, <1>5, <1>6, <1>7 DEF Next, System

\* A refresh puts in force what was published, which is of its type.
LEMMA SettingsStep ==
  ASSUME Inv, Next
  PROVE  SettingsType' /\ core' <= Limit /\ max' <= Limit
<1>1. SettingsType /\ core <= Limit /\ max <= Limit
  BY TypeParts DEF Inv, CountInv
<1>2. stage # "none" => plan \in Configs
  BY DEF Inv, CountInv
<1>3. \A c \in Configs : /\ c.core \in Nat /\ c.max \in Nat \ {0} /\ c.policy \in Policies
                         /\ c.capacity \in Nat /\ c.core <= Limit /\ c.max <= Limit
  <2>1. \A c \in Configs : c \in [core : Nat, max : Nat \ {0}, policy : Policies, capacity : Nat]
    BY ConfigsAssumption
  <2>2. QED
    BY <2>1, LimitBounds
<1>4. CASE SetCore
  BY <1>1, <1>2, <1>3, <1>4 DEF SetCore, SettingsType
<1>5. CASE SetMax
  BY <1>1, <1>2, <1>3, <1>5 DEF SetMax, SettingsType
<1>6. CASE SetPolicy
  BY <1>1, <1>2, <1>3, <1>6 DEF SetPolicy, SettingsType
<1>7. CASE SetCapacity
  BY <1>1, <1>2, <1>3, <1>7 DEF SetCapacity, SettingsType
<1>8. ASSUME UNCHANGED settings
      PROVE  SettingsType' /\ core' <= Limit /\ max' <= Limit
  BY <1>1, <1>8 DEF settings, SettingsType
<1>9. CASE \E s \in Submitters : Execute(s) \/ Submit(s)
  <2>1. UNCHANGED settings
    BY <1>9 DEF Execute, Submit, AddCoreWorker, CoreFull, Offer, Recheck, AddWorker, Abort,
       Discard, CallerRuns, Run, DiscardOldest, CountAndReturn
  <2>2. QED
    BY <1>8, <2>1
<1>10. CASE Worker \/ (\E k \in running : Finish(k)) \/ Prestart \/ BeginRefresh \/ Shutdown
  <2>1. UNCHANGED settings
    BY <1>10 DEF Worker, Take, Decide, Leave, LeaveAtShutdown, Exit, Finish, Prestart,
       BeginRefresh, Shutdown
  <2>2. QED
    BY <1>8, <2>1
<1>11. QED
  BY <1>4, <1>5, <1>6, <1>7, <1>9, <1>10 DEF Next, System, Refresh

LEMMA RefreshStep ==
  ASSUME Inv, Next
  PROVE  RefreshType' /\ (stage' # "none" => plan' \in Configs)
<1>1. /\ RefreshType /\ SettingsType /\ queue \in Seq(Tasks)
      /\ stage # "none" => plan \in Configs
  BY TypeParts DEF Inv, CountInv
<1>2. CASE BeginRefresh
  BY <1>1, <1>2, BoundsAssumption DEF BeginRefresh, RefreshType
<1>3. CASE SetCore
  <2>1. plan \in Configs /\ plan.core \in Nat /\ core \in Nat /\ Len(queue) \in Nat
    BY <1>1, <1>3, ConfigsAssumption DEF SetCore, SettingsType
  <2>2. plan.core > core => Min({plan.core - core, Len(queue)}) \in Nat
    <3>1. plan.core > core => plan.core - core \in Nat
      BY <2>1
    <3>2. QED
      BY <2>1, <3>1, MinOfTwo
  <2>3. prestart' \in Nat
    BY <1>3, <2>2 DEF SetCore
  <2>4. stage' = "prestart" /\ UNCHANGED <<plan, refreshes>>
    BY <1>3 DEF SetCore
  <2>5. QED
    BY <1>1, <2>1, <2>3, <2>4 DEF RefreshType
<1>4. CASE Prestart
  <2>1. prestart' \in Nat /\ UNCHANGED <<plan, stage, refreshes>>
    BY <1>1, <1>4 DEF Prestart, RefreshType
  <2>2. QED
    BY <1>1, <2>1 DEF RefreshType
<1>5. CASE SetMax
  BY <1>1, <1>5 DEF SetMax, RefreshType
<1>6. CASE SetPolicy \/ SetCapacity
  BY <1>1, <1>6 DEF SetPolicy, SetCapacity, RefreshType
<1>7. ASSUME UNCHANGED refresh
      PROVE  RefreshType' /\ (stage' # "none" => plan' \in Configs)
  BY <1>1, <1>7 DEF refresh, RefreshType
<1>8. CASE \E s \in Submitters : Execute(s) \/ Submit(s)
  <2>1. UNCHANGED refresh
    BY <1>8 DEF Execute, Submit, AddCoreWorker, CoreFull, Offer, Recheck, AddWorker, Abort,
       Discard, CallerRuns, Run, DiscardOldest, CountAndReturn
  <2>2. QED
    BY <1>7, <2>1
<1>9. CASE Worker \/ (\E k \in running : Finish(k)) \/ Shutdown
  <2>1. UNCHANGED refresh
    BY <1>9 DEF Worker, Take, Decide, Leave, LeaveAtShutdown, Exit, Finish, Shutdown
  <2>2. QED
    BY <1>7, <2>1
<1>10. QED
  BY <1>2, <1>3, <1>4, <1>5, <1>6, <1>8, <1>9 DEF Next, System, Refresh

\* Where tasks end.
LEMMA EndsStep ==
  ASSUME Inv, Next
  PROVE  EndsType' /\ shut' \in BOOLEAN /\ unwound' \in BOOLEAN
<1>1. /\ EndsType /\ queue \in Seq(Tasks) /\ running \subseteq Tasks
      /\ shut \in BOOLEAN /\ unwound \in BOOLEAN
  BY TypeParts DEF Inv, WorkersType
<1>2. shut' \in BOOLEAN
  BY <1>1, Zenon DEF Next, System, Execute, Submit, AddCoreWorker, CoreFull, Offer, Recheck, AddWorker,
     Abort, Discard, CallerRuns, Run, DiscardOldest, CountAndReturn, Worker, Take, Decide, Leave,
     LeaveAtShutdown, Exit, Finish, Refresh, SetCore, Prestart, SetMax, SetPolicy, SetCapacity,
     BeginRefresh, Shutdown
<1>3. ASSUME UNCHANGED ends
      PROVE  EndsType' /\ unwound' \in BOOLEAN
  BY <1>3, TypeFrame DEF Inv
<1>4. ASSUME NEW s \in Submitters, Execute(s) \/ Submit(s)
      PROVE  EndsType' /\ unwound' \in BOOLEAN
  <2>1. pc[s] # "idle" => task[s] \in Tasks
    BY DEF Inv, CallsInv, CallOK
  <2>2. queue # <<>> => Head(queue) \in Tasks
    BY <1>1, TailOnce
  <2>3. CASE Submit(s)
    BY <1>1, <2>3, BoundsAssumption DEF Submit, EndsType
  <2>4. CASE Abort(s)
    <3>1. unwound' \in BOOLEAN
      BY <2>4, Zenon DEF Abort
    <3>2. EndsType'
      BY <1>1, <2>1, <2>4 DEF Abort, Drop, EndsType
    <3>3. QED
      BY <3>1, <3>2
  <2>5. CASE Discard(s) \/ Run(s) \/ CountAndReturn(s)
    BY <1>1, <2>1, <2>5 DEF Discard, Run, CountAndReturn, Drop, EndsType
  <2>6. CASE CallerRuns(s)
    BY <1>1, <2>1, <2>6 DEF CallerRuns, Drop, EndsType
  <2>7. CASE DiscardOldest(s)
    BY <1>1, <2>1, <2>2, <2>7 DEF DiscardOldest, Drop, EndsType
  <2>8. CASE AddCoreWorker(s) \/ CoreFull(s) \/ Offer(s) \/ Recheck(s) \/ AddWorker(s)
    BY <1>3, <2>8 DEF AddCoreWorker, CoreFull, Offer, Recheck, AddWorker
  <2>9. QED
    BY <1>4, <2>3, <2>4, <2>5, <2>6, <2>7, <2>8 DEF Execute
<1>5. CASE \E k \in running : Finish(k)
  BY <1>1, <1>5 DEF Finish, EndsType
<1>6. CASE Worker \/ Refresh \/ BeginRefresh \/ Shutdown
  <2>1. UNCHANGED ends
    BY <1>6 DEF Worker, Take, Decide, Leave, LeaveAtShutdown, Exit, Refresh, SetCore, Prestart,
       SetMax, SetPolicy, SetCapacity, BeginRefresh, Shutdown
  <2>2. QED
    BY <1>2, <1>3, <2>1
<1>7. QED
  BY <1>2, <1>4, <1>5, <1>6 DEF Next, System

-----------------------------------------------------------------------------
\* The workers, and how many of them there are.
WorkersInv == WorkersType /\ IsFiniteSet(Counted(leaving)) /\ WorkerCount <= Limit

\* What the workers are taken from.
LEMMA WorkersFacts ==
  ASSUME Inv
  PROVE  /\ WorkersInv /\ WorkersType /\ Limit \in Nat /\ core <= Limit /\ max <= Limit
         /\ core \in Nat /\ max \in Nat
         /\ Cardinality(running) \in Nat /\ Total(leaving) \in Nat /\ WorkerCount \in Nat
         /\ WorkerCount = idle + Cardinality(running) + Total(leaving) /\ WorkerCount <= Limit
         /\ idle \in Nat /\ idle <= WorkerCount
         /\ leaving \in [1..Limit -> Nat] /\ IsFiniteSet(Counted(leaving))
         /\ \A n \in 1..Limit : idle + leaving[n] <= WorkerCount
  BY TypeParts, LimitBounds, WorkerCountType DEF Inv, CountInv, WorkersInv, SettingsType, WorkerCount

LEMMA WorkersSum ==
  ASSUME Inv
  PROVE  /\ idle \in Nat /\ Cardinality(running) \in Nat /\ Total(leaving) \in Nat /\ Limit \in Nat
         /\ WorkerCount = idle + Cardinality(running) + Total(leaving) /\ WorkerCount <= Limit
  BY WorkersFacts

LEMMA WorkersQuiet ==
  ASSUME WorkersInv, UNCHANGED workers
  PROVE  WorkersInv' /\ WorkerCount' = WorkerCount
  BY DEF WorkersInv, WorkersType, WorkerCount, workers, Limit

\* A worker more that waits, or one less.
LEMMA IdleStep ==
  ASSUME Inv, exiting' \in Nat, UNCHANGED <<running, leaving>>,
         \/ idle' = idle + 1 /\ (WorkerCount < core \/ WorkerCount < max)
         \/ idle' = idle - 1 /\ idle > 0
         \/ idle' = idle
  PROVE  WorkersInv' /\ WorkerCount' = WorkerCount + (idle' - idle)
<1>1. WorkerCount' = idle' + Cardinality(running) + Total(leaving)
  BY DEF WorkerCount
<1>2. WorkerCount' = WorkerCount + (idle' - idle)
  <2>1. idle \in Nat /\ idle' \in Int /\ Cardinality(running) \in Nat /\ Total(leaving) \in Nat
    BY WorkersFacts
  <2>2. WorkerCount = idle + Cardinality(running) + Total(leaving)
    BY WorkersFacts
  <2>3. QED
    BY <1>1, <2>1, <2>2
<1>3. idle' \in 0..Limit /\ WorkerCount' <= Limit
  <2>1. /\ Limit \in Nat /\ core \in Nat /\ max \in Nat /\ core <= Limit /\ max <= Limit
        /\ WorkerCount \in Nat /\ WorkerCount <= Limit /\ idle \in Nat /\ idle <= WorkerCount
    BY WorkersFacts
  <2>2. QED
    BY <1>2, <2>1
<1>4. Limit' = Limit
  BY DEF Limit
<1>5. WorkersType'
  <2>1. running \subseteq Tasks /\ leaving \in [1..Limit -> 0..Limit]
    BY WorkersFacts DEF WorkersType
  <2>2. running' \subseteq Tasks /\ leaving' \in [1..Limit' -> 0..Limit']
    BY <1>4, <2>1
  <2>3. idle' \in 0..Limit' /\ exiting' \in Nat
    BY <1>3, <1>4
  <2>4. QED
    BY <2>2, <2>3 DEF WorkersType
<1>6. IsFiniteSet(Counted(leaving'))
  BY WorkersFacts
<1>7. QED
  BY <1>2, <1>3, <1>4, <1>5, <1>6 DEF WorkersInv

\* A task gets a worker of its own.
LEMMA RunningStep ==
  ASSUME Inv, NEW k \in Tasks, WorkerCount < core \/ WorkerCount < max,
         running' = running \cup {k}, UNCHANGED <<idle, leaving, exiting>>
  PROVE  WorkersInv' /\ WorkerCount' >= WorkerCount /\ WorkerCount' > 0
<1>1. running \in SUBSET Tasks /\ running' \in SUBSET Tasks
  BY WorkersFacts DEF WorkersType
<1>2. Cardinality(running') = IF k \in running THEN Cardinality(running) ELSE Cardinality(running) + 1
  BY <1>1, OneTask
<1>3. Cardinality(running') > 0
  <2>1. IsFiniteSet(running') /\ Cardinality(running') \in Nat /\ running' # {}
    BY <1>1, TasksFinite
  <2>2. QED
    BY <2>1, FS_EmptySet
<1>4. WorkerCount' = idle + Cardinality(running') + Total(leaving)
  BY DEF WorkerCount
<1>5. WorkerCount' \in Nat /\ WorkerCount' >= WorkerCount /\ WorkerCount' > 0 /\ WorkerCount' <= Limit
  BY <1>2, <1>3, <1>4, WorkersFacts
<1>6. Limit' = Limit
  BY DEF Limit
<1>7. WorkersType'
  BY <1>1, <1>6, WorkersFacts DEF WorkersType
<1>8. QED
  BY <1>5, <1>6, <1>7, WorkersFacts DEF WorkersInv

LEMMA CallerWorkers ==
  ASSUME Inv, NEW s \in Submitters, Execute(s) \/ Submit(s)
  PROVE  WorkersInv' /\ WorkerCount' >= WorkerCount
<1>1. pc[s] # "idle" => task[s] \in Tasks
  BY DEF Inv, CallsInv, CallOK
<1>2. ASSUME UNCHANGED workers PROVE WorkersInv' /\ WorkerCount' >= WorkerCount
  BY <1>2, WorkersFacts, WorkersQuiet
<1>3. CASE AddCoreWorker(s)
  BY <1>1, <1>3, RunningStep DEF AddCoreWorker, RunInWorker
<1>4. CASE AddWorker(s)
  <2>1. CASE ~shut /\ WorkerCount < max
    BY <1>1, <1>4, <2>1, RunningStep DEF AddWorker, RunInWorker
  <2>2. CASE ~(~shut /\ WorkerCount < max)
    BY <1>2, <1>4, <2>2 DEF AddWorker, workers
  <2>3. QED
    BY <2>1, <2>2
<1>5. CASE Recheck(s)
  <2>1. exiting' \in Nat /\ UNCHANGED <<running, leaving>>
    BY <1>5, WorkersFacts DEF Recheck, WorkersType
  <2>2. idle' = idle \/ (idle' = idle + 1 /\ WorkerCount < max)
    BY <1>5 DEF Recheck, MayAddIdle
  <2>3. WorkersInv' /\ WorkerCount' = WorkerCount + (idle' - idle)
    BY <2>1, <2>2, IdleStep
  <2>4. QED
    BY <2>2, <2>3, WorkersFacts
<1>6. CASE ~(AddCoreWorker(s) \/ AddWorker(s) \/ Recheck(s))
  <2>1. UNCHANGED workers
    BY <1>6 DEF Execute, Submit, CoreFull, Offer, Abort, Discard, CallerRuns, Run, DiscardOldest,
       CountAndReturn
  <2>2. QED
    BY <1>2, <2>1
<1>7. QED
  BY <1>3, <1>4, <1>5, <1>6

LEMMA TakeStep ==
  ASSUME Inv, Take
  PROVE  WorkersInv' /\ WorkerCount' > 0
<1> DEFINE k == Head(queue)
<1>1. queue \in Seq(Tasks) /\ queue # <<>>
  BY TypeParts DEF Inv, Take
<1>2. k \in Tasks
  BY <1>1, TailOnce
<1>3. running' = running \cup {k} /\ idle' = idle - 1 /\ idle > 0 /\ UNCHANGED <<leaving, exiting>>
  BY DEF Take
<1> HIDE DEF k
<1>4. running \in SUBSET Tasks /\ running' \in SUBSET Tasks
  BY <1>2, <1>3, WorkersFacts DEF WorkersType
<1>5. Cardinality(running') = IF k \in running THEN Cardinality(running) ELSE Cardinality(running) + 1
  BY <1>2, <1>3, <1>4, OneTask
<1>6. Cardinality(running') \in Nat /\ Cardinality(running') > 0
  <2>1. IsFiniteSet(running') /\ Cardinality(running') \in Nat /\ running' # {}
    BY <1>3, <1>4, TasksFinite
  <2>2. QED
    BY <2>1, FS_EmptySet
<1>7. WorkerCount' = idle' + Cardinality(running') + Total(leaving)
  BY <1>3 DEF WorkerCount
<1>8. idle' \in 0..Limit /\ WorkerCount' > 0 /\ WorkerCount' <= Limit
  BY <1>3, <1>5, <1>6, <1>7, WorkersSum
<1>9. Limit' = Limit
  BY DEF Limit
<1>10. exiting' \in Nat /\ leaving' \in [1..Limit' -> 0..Limit']
  BY <1>3, <1>9, WorkersFacts DEF WorkersType
<1>11. IsFiniteSet(Counted(leaving'))
  BY <1>3, WorkersFacts
<1>12. QED
  BY <1>4, <1>8, <1>9, <1>10, <1>11 DEF WorkersInv, WorkersType

LEMMA FinishStep ==
  ASSUME Inv, NEW k \in running, Finish(k)
  PROVE  WorkersInv' /\ WorkerCount' = WorkerCount
<1>1. running' = running \ {k} /\ idle' = idle + 1 /\ UNCHANGED <<leaving, exiting>>
  BY DEF Finish
<1>2. running \in SUBSET Tasks /\ running' \in SUBSET Tasks /\ k \in Tasks
  BY <1>1, WorkersFacts DEF WorkersType
<1>3. Cardinality(running') = Cardinality(running) - 1 /\ Cardinality(running') \in Nat
  BY <1>1, <1>2, OneTask, TasksFinite
<1>4. WorkerCount' = idle' + Cardinality(running') + Total(leaving)
  BY <1>1 DEF WorkerCount
<1>5. idle' \in 0..Limit /\ WorkerCount' = WorkerCount /\ WorkerCount' <= Limit
  BY <1>1, <1>3, <1>4, WorkersFacts
<1>6. Limit' = Limit
  BY DEF Limit
<1>7. exiting' \in Nat /\ leaving' \in [1..Limit' -> 0..Limit']
  BY <1>1, <1>6, WorkersFacts DEF WorkersType
<1>8. IsFiniteSet(Counted(leaving'))
  BY <1>1, WorkersFacts
<1>9. QED
  BY <1>2, <1>5, <1>6, <1>7, <1>8 DEF WorkersInv, WorkersType

LEMMA DecideStep ==
  ASSUME Inv, Decide
  PROVE  WorkersInv' /\ WorkerCount' = WorkerCount
<1> DEFINE n == WorkerCount
           more == [leaving EXCEPT ![n] = @ + 1]
<1>1. idle' = idle - 1 /\ idle > 0 /\ leaving' = more /\ UNCHANGED <<running, exiting>>
  BY DEF Decide
<1>2. n \in 1..Limit /\ idle + leaving[n] <= n
  BY <1>1, WorkersFacts
<1>3. more \in [1..Limit -> Nat] /\ IsFiniteSet(Counted(more)) /\ Total(more) = Total(leaving) + 1
  <2> HIDE DEF n
  <2>1. leaving \in [1..Limit -> Nat] /\ IsFiniteSet(Counted(leaving)) /\ n \in 1..Limit
    BY <1>2, WorkersFacts
  <2>2. QED
    BY <2>1, TotalIncrement
<1>4. leaving \in [1..Limit -> 0..Limit] /\ leaving[n] + 1 \in 0..Limit
  BY <1>1, <1>2, WorkersFacts DEF WorkersType
<1>5. more \in [1..Limit -> 0..Limit]
  <2> HIDE DEF n
  <2>1. QED
    BY <1>2, <1>4
<1>6. WorkerCount' = idle' + Cardinality(running) + Total(more)
  BY <1>1 DEF WorkerCount
<1> HIDE DEF more, n
<1>7. idle' \in 0..Limit /\ WorkerCount' = WorkerCount
  BY <1>1, <1>3, <1>6, WorkersFacts
<1>8. Limit' = Limit
  BY DEF Limit
<1>9. running' \subseteq Tasks /\ exiting' \in Nat
  BY <1>1, WorkersFacts DEF WorkersType
<1>10. WorkersType'
  BY <1>1, <1>5, <1>7, <1>8, <1>9 DEF WorkersType
<1>11. QED
  BY <1>1, <1>3, <1>7, <1>8, <1>10, WorkersFacts DEF WorkersInv

LEMMA LeaveStep ==
  ASSUME Inv, NEW n \in 1..Limit, Leave(n)
  PROVE  /\ WorkersInv'
         /\ \/ exiting' = exiting + 1 /\ WorkerCount' = WorkerCount - 1
            \/ UNCHANGED exiting /\ WorkerCount' = WorkerCount
<1> DEFINE less == [leaving EXCEPT ![n] = @ - 1]
<1>1. /\ leaving[n] > 0 /\ leaving' = less /\ UNCHANGED running
      /\ \/ exiting' = exiting + 1 /\ UNCHANGED idle
         \/ UNCHANGED exiting /\ idle' = idle + 1
  BY DEF Leave
<1>2. less \in [1..Limit -> Nat] /\ IsFiniteSet(Counted(less)) /\ Total(less) = Total(leaving) - 1
  <2>1. leaving \in [1..Limit -> Nat] /\ IsFiniteSet(Counted(leaving)) /\ leaving[n] > 0
    BY <1>1, WorkersFacts
  <2>2. QED
    BY <2>1, TotalDecrement
<1>3. less \in [1..Limit -> 0..Limit]
  <2>1. leaving \in [1..Limit -> 0..Limit] /\ leaving[n] - 1 \in 0..Limit
    <3>1. leaving \in [1..Limit -> 0..Limit] /\ Limit \in Nat
      BY WorkersFacts DEF WorkersType
    <3>2. leaving[n] \in 0..Limit /\ leaving[n] > 0
      BY <1>1, <3>1
    <3>3. QED
      BY <3>1, <3>2
  <2>2. QED
    BY <2>1
<1>4. WorkerCount' = idle' + Cardinality(running) + Total(less)
  BY <1>1 DEF WorkerCount
<1> HIDE DEF less
<1>5. WorkerCount' = idle' + Cardinality(running) + Total(leaving) - 1
  BY <1>1, <1>2, <1>4, WorkersFacts
<1>6. /\ \/ exiting' = exiting + 1 /\ WorkerCount' = WorkerCount - 1
         \/ UNCHANGED exiting /\ WorkerCount' = WorkerCount
      /\ WorkerCount' <= Limit
  BY <1>1, <1>5, WorkersSum
<1>7. idle' \in 0..Limit
  <2>1. idle + leaving[n] <= Limit /\ leaving[n] >= 1 /\ leaving[n] \in Nat
    BY <1>1, WorkersFacts
  <2>2. QED
    BY <1>1, <2>1, WorkersFacts
<1>8. Limit' = Limit
  BY DEF Limit
<1>9. running' \subseteq Tasks /\ exiting' \in Nat
  BY <1>1, WorkersFacts DEF WorkersType
<1>10. WorkersType'
  BY <1>1, <1>3, <1>7, <1>8, <1>9 DEF WorkersType
<1>11. QED
  BY <1>1, <1>2, <1>6, <1>8, <1>10 DEF WorkersInv

LEMMA WorkersStep ==
  ASSUME Inv, Next
  PROVE  WorkersInv'
<1>1. ASSUME UNCHANGED workers PROVE WorkersInv'
  BY <1>1, WorkersFacts, WorkersQuiet
<1>2. CASE \E s \in Submitters : Execute(s) \/ Submit(s)
  BY <1>2, CallerWorkers
<1>3. CASE LeaveAtShutdown \/ Exit \/ Prestart
  <2>1. exiting' \in Nat /\ UNCHANGED <<running, leaving>>
    BY <1>3, WorkersFacts DEF LeaveAtShutdown, Exit, Prestart, WorkersType
  <2>2. \/ idle' = idle + 1 /\ (WorkerCount < core \/ WorkerCount < max)
        \/ idle' = idle - 1 /\ idle > 0
        \/ idle' = idle
    BY <1>3 DEF LeaveAtShutdown, Exit, Prestart, MayAddIdle
  <2>3. QED
    BY <2>1, <2>2, IdleStep
<1>4. CASE Take \/ Decide \/ (\E n \in 1..Limit : Leave(n)) \/ (\E k \in running : Finish(k))
  BY <1>4, TakeStep, DecideStep, LeaveStep, FinishStep
<1>5. CASE SetCore \/ SetMax \/ SetPolicy \/ SetCapacity \/ BeginRefresh \/ Shutdown
  BY <1>1, <1>5 DEF SetCore, SetMax, SetPolicy, SetCapacity, BeginRefresh, Shutdown
<1>6. QED
  BY <1>2, <1>3, <1>4, <1>5 DEF Next, System, Worker, Refresh

LEMMA InvStep == Inv /\ [Next]_vars => Inv'
<1> SUFFICES ASSUME Inv, [Next]_vars PROVE Inv'
  OBVIOUS
<1>1. CASE Next
  <2>1. CallersType' /\ CallsInv'
    <3>1. CASE \E s \in Submitters : Execute(s) \/ Submit(s)
      BY <3>1, CallersStep
    <3>2. CASE ~(\E s \in Submitters : Execute(s) \/ Submit(s))
      <4>1. UNCHANGED callers
        BY <1>1, <3>2 DEF Next, System, Worker, Take, Decide, Leave, LeaveAtShutdown, Exit, Finish,
           Refresh, SetCore, Prestart, SetMax, SetPolicy, SetCapacity, BeginRefresh, Shutdown
      <4>2. CallsInv'
        BY <4>1 DEF Inv, CallsInv, CallOK, callers
      <4>3. QED
        BY <4>1, <4>2, TypeFrame DEF Inv
    <3>3. QED
      BY <3>1, <3>2
  <2>2. TypeOK'
    <3>1. /\ SettingsType' /\ queue' \in Seq(Tasks) /\ WorkersType' /\ RefreshType' /\ EndsType'
          /\ shut' \in BOOLEAN /\ unwound' \in BOOLEAN
      BY <1>1, QueueStep, SettingsStep, RefreshStep, EndsStep, WorkersStep DEF WorkersInv
    <3>2. QED
      BY <2>1, <3>1, Zenon DEF TypeOK, SettingsType, WorkersType, CallersType, Labels, RefreshType, EndsType
  <2>3. CountInv'
    <3>1. core' <= Limit /\ max' <= Limit /\ Limit' = Limit
      BY <1>1, SettingsStep DEF Limit
    <3>2. QED
      BY <1>1, <3>1, RefreshStep, WorkersStep DEF CountInv, WorkersInv
  <2>4. QED
    BY <2>1, <2>2, <2>3 DEF Inv
<1>2. CASE UNCHANGED vars
  BY <1>2 DEF vars, settings, workers, callers, refresh, ends, Inv, TypeOK, CountInv, CallsInv, CallOK,
     WorkerCount, Limit
<1>3. QED
  BY <1>1, <1>2

LEMMA Invariance == Spec => []Inv
  BY InitInv, InvStep, PTL DEF Spec

\* Every variable keeps its type: no more workers wait, or are about to leave, than the
\* largest size that was published, and what a worker takes or a submitter holds is a task.
THEOREM TypeCorrectness == Spec => []TypeOK
  BY Invariance, PTL DEF Inv

-----------------------------------------------------------------------------
(***************************************************************************)
(* Where tasks are.                                                        *)
(***************************************************************************)

\* The places of tasks that no submitter holds.
Places == [i \in 1..4 |-> CASE i = 1 -> ToSet(queue) [] i = 2 -> running
                            [] i = 3 -> finished [] i = 4 -> dropped]
Holds == [s \in Submitters |-> Held(s)]

\* Each of the tasks 1..n is in one of the places P, or with one of the holders in H.
OnePlace(n, P, H) ==
  /\ \A k : k \in 1..n <=> (\E i \in 1..4 : k \in P[i]) \/ (\E s \in Submitters : k \in H[s])
  /\ \A i, j \in 1..4 : \A k : k \in P[i] /\ k \in P[j] => i = j
  /\ \A s \in Submitters, i \in 1..4 : \A k : k \in H[s] => k \notin P[i]
  /\ \A s, t \in Submitters : \A k : k \in H[s] /\ k \in H[t] => s = t

TaskInv == OnePlace(submitted, Places, Holds) /\ IsInjective(queue)

\* A new task.
LEMMA NewTask ==
  ASSUME NEW n \in Nat, NEW P, NEW H, OnePlace(n, P, H), NEW s \in Submitters, H[s] = {},
         NEW H2, H2[s] = {n + 1}, \A t \in Submitters \ {s} : H2[t] = H[t]
  PROVE  OnePlace(n + 1, P, H2)
<1>1. \A k : k \in 1..(n + 1) <=> k \in 1..n \/ k = n + 1
  OBVIOUS
<1>2. n + 1 \notin 1..n
  OBVIOUS
<1>3. QED
  BY <1>1, <1>2 DEF OnePlace

\* A holder puts its task in place i.
LEMMA FromHolder ==
  ASSUME NEW n, NEW P, NEW H, OnePlace(n, P, H), NEW s \in Submitters, NEW k, H[s] = {k},
         NEW i \in 1..4, NEW P2, P2[i] = P[i] \cup {k}, \A j \in (1..4) \ {i} : P2[j] = P[j],
         NEW H2, H2[s] = {}, \A t \in Submitters \ {s} : H2[t] = H[t]
  PROVE  OnePlace(n, P2, H2)
<1>1. \A x : x \in 1..n <=> (\E j \in 1..4 : x \in P2[j]) \/ (\E t \in Submitters : x \in H2[t])
  BY DEF OnePlace
<1>2. \A j, l \in 1..4 : \A x : x \in P2[j] /\ x \in P2[l] => j = l
  BY DEF OnePlace
<1>3. \A t \in Submitters, j \in 1..4 : \A x : x \in H2[t] => x \notin P2[j]
  BY DEF OnePlace
<1>4. \A t, u \in Submitters : \A x : x \in H2[t] /\ x \in H2[u] => t = u
  BY DEF OnePlace
<1>5. QED
  BY <1>1, <1>2, <1>3, <1>4 DEF OnePlace

\* A holder takes a task back.
LEMMA ToHolder ==
  ASSUME NEW n, NEW P, NEW H, OnePlace(n, P, H), NEW s \in Submitters, H[s] = {},
         NEW i \in 1..4, NEW k \in P[i],
         NEW P2, P2[i] = P[i] \ {k}, \A j \in (1..4) \ {i} : P2[j] = P[j],
         NEW H2, H2[s] = {k}, \A t \in Submitters \ {s} : H2[t] = H[t]
  PROVE  OnePlace(n, P2, H2)
<1>1. \A x : x \in 1..n <=> (\E j \in 1..4 : x \in P2[j]) \/ (\E t \in Submitters : x \in H2[t])
  BY DEF OnePlace
<1>2. \A j, l \in 1..4 : \A x : x \in P2[j] /\ x \in P2[l] => j = l
  BY DEF OnePlace
<1>3. \A t \in Submitters, j \in 1..4 : \A x : x \in H2[t] => x \notin P2[j]
  BY DEF OnePlace
<1>4. \A t, u \in Submitters : \A x : x \in H2[t] /\ x \in H2[u] => t = u
  BY DEF OnePlace
<1>5. QED
  BY <1>1, <1>2, <1>3, <1>4 DEF OnePlace

\* A task moves from place i to place j.
LEMMA BetweenPlaces ==
  ASSUME NEW n, NEW P, NEW H, OnePlace(n, P, H),
         NEW i \in 1..4, NEW j \in 1..4, i # j, NEW k \in P[i],
         NEW P2, P2[i] = P[i] \ {k}, P2[j] = P[j] \cup {k}, \A l \in (1..4) \ {i, j} : P2[l] = P[l]
  PROVE  OnePlace(n, P2, H)
<1>1. \A x : (\E l \in 1..4 : x \in P2[l]) <=> (\E l \in 1..4 : x \in P[l])
  OBVIOUS
<1>2. \A l, m \in 1..4 : \A x : x \in P2[l] /\ x \in P2[m] => l = m
  BY DEF OnePlace
<1>3. \A t \in Submitters, l \in 1..4 : \A x : x \in H[t] => x \notin P2[l]
  BY DEF OnePlace
<1>4. QED
  BY <1>1, <1>2, <1>3 DEF OnePlace

LEMMA PlacesAre ==
  /\ Places[1] = ToSet(queue) /\ Places[2] = running /\ Places[3] = finished /\ Places[4] = dropped
  /\ 1..4 = {1, 2, 3, 4}
  BY DEF Places

LEMMA HoldsAre ==
  ASSUME CallersType, NEW s \in Submitters
  PROVE  /\ pc[s] \in {"core", "offer", "grow", "reject", "run"} => Holds[s] = {task[s]}
         /\ pc[s] \in {"idle", "recheck", "return"} => Holds[s] = {}
  BY DEF Holds, Held, CallersType, Labels

\* The invariant says the same as TasksConserved.
LEMMA TaskInvMeans == TaskInv => TasksConserved
<1> SUFFICES ASSUME TaskInv PROVE TasksConserved
  OBVIOUS
<1> DEFINE P == <<ToSet(queue), running, finished, dropped>>
<1>1. /\ P[1] = ToSet(queue) /\ P[2] = running /\ P[3] = finished /\ P[4] = dropped
      /\ 1..4 = {1, 2, 3, 4}
  OBVIOUS
<1>2. \A i \in 1..4 : P[i] = Places[i]
  BY <1>1, PlacesAre
<1>3. \A s \in Submitters : Holds[s] = Held(s)
  BY DEF Holds
<1> DEFINE placed == UNION {P[i] : i \in 1..4}
<1>4. /\ 1..submitted = placed \cup UNION {Held(s) : s \in Submitters}
      /\ \A i, j \in 1..4 : i # j => P[i] \cap P[j] = {}
      /\ \A s \in Submitters : Held(s) \cap placed = {}
      /\ \A s, t \in Submitters : s # t => Held(s) \cap Held(t) = {}
  <2> HIDE DEF P
  <2>1. 1..submitted = placed \cup UNION {Held(s) : s \in Submitters}
    <3>1. \A k : k \in placed <=> \E i \in 1..4 : k \in Places[i]
      BY <1>2
    <3>2. \A k : k \in UNION {Held(s) : s \in Submitters} <=> \E s \in Submitters : k \in Holds[s]
      BY <1>3
    <3> HIDE DEF placed
    <3>3. \A k : k \in 1..submitted <=> k \in placed \/ k \in UNION {Held(s) : s \in Submitters}
      BY <3>1, <3>2 DEF TaskInv, OnePlace
    <3>4. QED
      BY <3>3
  <2>2. \A i, j \in 1..4 : i # j => P[i] \cap P[j] = {}
    BY <1>2 DEF TaskInv, OnePlace
  <2>3. \A s \in Submitters : Held(s) \cap placed = {}
    BY <1>2, <1>3 DEF TaskInv, OnePlace
  <2>4. \A s, t \in Submitters : s # t => Held(s) \cap Held(t) = {}
    BY <1>3 DEF TaskInv, OnePlace
  <2>5. QED
    BY <2>1, <2>2, <2>3, <2>4
<1>5. IsInjective(queue)
  BY DEF TaskInv
<1>6. QED
  BY <1>4, <1>5, Zenon DEF TasksConserved

LEMMA InitTasks == Init => TaskInv
<1> SUFFICES ASSUME Init PROVE TaskInv
  OBVIOUS
<1>1. queue = <<>> /\ running = {} /\ finished = {} /\ dropped = {} /\ submitted = 0
  BY DEF Init
<1>2. ToSet(queue) = {} /\ IsInjective(queue)
  BY <1>1 DEF ToSet, IsInjective
<1>3. \A i \in 1..4 : Places[i] = {}
  BY <1>1, <1>2, PlacesAre
<1>4. \A s \in Submitters : Holds[s] = {}
  BY InitInv, TypeParts, HoldsAre DEF Init, Inv
<1>5. 1..submitted = {}
  BY <1>1
<1>6. QED
  BY <1>2, <1>3, <1>4, <1>5 DEF TaskInv, OnePlace

\* Nothing moves.
LEMMA TasksStay ==
  ASSUME TaskInv, UNCHANGED <<queue, running, finished, dropped, submitted>>,
         \A s \in Submitters : Holds'[s] = Holds[s]
  PROVE  TaskInv'
<1>1. \A i \in 1..4 : Places'[i] = Places[i]
  BY DEF Places
<1>2. QED
  BY <1>1 DEF TaskInv, OnePlace

\* Who holds what after a move of s from one label to another.
LEMMA HoldsGoto ==
  ASSUME CallersType, CallersType', NEW s \in Submitters, NEW l \in Labels, Goto(s, l),
         task' = task \/ task' = [task EXCEPT ![s] = 0]
  PROVE  /\ \A t \in Submitters \ {s} : Holds'[t] = Holds[t]
         /\ l \in {"idle", "recheck", "return"} => Holds'[s] = {}
         /\ l \notin {"idle", "recheck", "return"} => Holds'[s] = {task'[s]}
<1>1. \A t \in Submitters \ {s} : pc'[t] = pc[t] /\ task'[t] = task[t]
  BY DEF CallersType, Goto
<1>2. pc'[s] = l
  BY DEF CallersType, Goto
<1>3. QED
  BY <1>1, <1>2 DEF Holds, Held, Labels

LEMMA HoldsReturns ==
  ASSUME CallersType, CallersType', NEW s \in Submitters, Returns(s)
  PROVE  Holds'[s] = {} /\ \A t \in Submitters \ {s} : Holds'[t] = Holds[t]
  BY HoldsGoto DEF Returns, Labels

LEMMA HoldsQuiet ==
  ASSUME UNCHANGED <<pc, task>>
  PROVE  \A s \in Submitters : Holds'[s] = Holds[s]
  BY DEF Holds, Held

\* The submitter s puts its task in place i.
LEMMA PutsTask ==
  ASSUME Inv, Inv', TaskInv, NEW s \in Submitters,
         pc[s] \in {"core", "offer", "grow", "reject", "run"},
         Holds'[s] = {}, \A t \in Submitters \ {s} : Holds'[t] = Holds[t],
         NEW i \in 1..4, Places'[i] = Places[i] \cup {task[s]},
         \A j \in (1..4) \ {i} : Places'[j] = Places[j],
         UNCHANGED submitted, IsInjective(queue')
  PROVE  TaskInv'
<1>1. CallersType /\ Holds[s] = {task[s]}
  BY TypeParts, HoldsAre DEF Inv
<1>2. OnePlace(submitted, Places, Holds)
  BY DEF TaskInv
<1>3. OnePlace(submitted, Places', Holds')
  BY <1>1, <1>2, FromHolder
<1>4. QED
  BY <1>3 DEF TaskInv, OnePlace

LEMMA CallerTasks ==
  ASSUME Inv, Inv', TaskInv, NEW s \in Submitters, Execute(s) \/ Submit(s)
  PROVE  TaskInv'
<1>1. /\ CallersType /\ CallersType' /\ queue \in Seq(Tasks) /\ submitted \in Nat
      /\ IsInjective(queue) /\ OnePlace(submitted, Places, Holds)
  <2>1. CallersType /\ queue \in Seq(Tasks) /\ submitted \in Nat
    BY TypeParts DEF Inv, EndsType
  <2>2. CallersType'
    BY DEF Inv, TypeOK, CallersType, Labels
  <2>3. QED
    BY <2>1, <2>2 DEF TaskInv
<1>2. pc[s] # "idle" => task[s] \in Tasks
  BY DEF Inv, CallsInv, CallOK
<1>3. pc[s] \in {"core", "offer", "grow", "reject", "run"} => Holds[s] = {task[s]} /\ task[s] \notin ToSet(queue)
  <2>1. \A k : k \in Holds[s] => k \notin Places[1]
    BY <1>1 DEF OnePlace
  <2>2. QED
    BY <1>1, <2>1, HoldsAre, PlacesAre
<1>4. ASSUME UNCHANGED <<queue, running, finished, dropped, submitted>>,
             \E l \in {"core", "offer", "grow", "reject", "run"} : Goto(s, l),
             pc[s] \in {"core", "offer", "grow", "reject", "run"}, UNCHANGED task
      PROVE  TaskInv'
  BY <1>1, <1>3, <1>4, HoldsGoto, TasksStay DEF Labels
<1>5. CASE Submit(s)
  <2>1. Holds[s] = {}
    BY <1>1, <1>5, HoldsAre DEF Submit
  <2>2. task'[s] = submitted + 1 /\ pc'[s] = "core"
    BY <1>1, <1>5 DEF Submit, Goto, CallersType
  <2>3. \A t \in Submitters \ {s} : pc'[t] = pc[t] /\ task'[t] = task[t]
    BY <1>1, <1>5 DEF Submit, Goto, CallersType
  <2>4. Holds'[s] = {submitted + 1} /\ \A t \in Submitters \ {s} : Holds'[t] = Holds[t]
    BY <2>2, <2>3 DEF Holds, Held
  <2>5. OnePlace(submitted + 1, Places, Holds')
    BY <1>1, <2>1, <2>4, NewTask
  <2>6. submitted' = submitted + 1 /\ UNCHANGED <<queue, running, finished, dropped>>
    BY <1>5 DEF Submit, workers
  <2>7. Places' = Places
    BY <2>6 DEF Places
  <2>8. QED
    BY <1>1, <2>5, <2>6, <2>7 DEF TaskInv
<1>6. CASE AddCoreWorker(s) \/ (AddWorker(s) /\ RunInWorker(s))
  <2>1. /\ pc[s] \in {"core", "grow"} /\ running' = running \cup {task[s]} /\ Returns(s)
        /\ UNCHANGED <<queue, finished, dropped, submitted>>
    BY <1>6 DEF AddCoreWorker, AddWorker, RunInWorker, ends
  <2>2. Places'[2] = Places[2] \cup {task[s]} /\ \A j \in (1..4) \ {2} : Places'[j] = Places[j]
    BY <2>1 DEF Places
  <2>3. IsInjective(queue')
    BY <1>1, <2>1
  <2>4. Holds'[s] = {} /\ \A t \in Submitters \ {s} : Holds'[t] = Holds[t]
    BY <1>1, <2>1, HoldsReturns
  <2>5. QED
    BY <2>1, <2>2, <2>3, <2>4, PutsTask
<1>7. CASE CoreFull(s) \/ (AddWorker(s) /\ ~RunInWorker(s))
  BY <1>4, <1>7 DEF CoreFull, AddWorker, workers, ends
<1>8. CASE Offer(s)
  <2>1. CASE Len(queue) < capacity
    <3>1. /\ pc[s] = "offer" /\ queue' = Append(queue, task[s]) /\ Goto(s, "recheck")
          /\ UNCHANGED <<task, running, finished, dropped, submitted>>
      BY <1>8, <2>1 DEF Offer, workers, ends
    <3>2. ToSet(queue') = ToSet(queue) \cup {task[s]} /\ IsInjective(queue')
      BY <1>1, <1>2, <1>3, <3>1, AppendOnce
    <3>3. Places'[1] = Places[1] \cup {task[s]} /\ \A j \in (1..4) \ {1} : Places'[j] = Places[j]
      BY <3>1, <3>2 DEF Places
    <3>4. Holds'[s] = {} /\ \A t \in Submitters \ {s} : Holds'[t] = Holds[t]
      BY <1>1, <3>1, HoldsGoto DEF Labels
    <3>5. QED
      BY <3>1, <3>2, <3>3, <3>4, PutsTask
  <2>2. CASE ~(Len(queue) < capacity)
    BY <1>4, <1>8, <2>2 DEF Offer, workers, ends
  <2>3. QED
    BY <2>1, <2>2
<1>9. CASE Recheck(s)
  <2>1. /\ pc[s] = "recheck" /\ Holds[s] = {}
        /\ UNCHANGED <<running, finished, dropped, submitted>>
    BY <1>1, <1>9, HoldsAre DEF Recheck, ends
  <2>2. CASE shut /\ task[s] \in ToSet(queue)
    <3>1. PICK i \in DOMAIN queue : queue[i] = task[s] /\ queue' = RemoveAt(queue, i)
      BY <1>9, <2>2, Zenon DEF Recheck
    <3>2. Goto(s, "reject") /\ UNCHANGED task
      BY <1>9, <2>2, Zenon DEF Recheck
    <3>3. ToSet(queue') = ToSet(queue) \ {task[s]} /\ IsInjective(queue')
      BY <1>1, <3>1, RemoveAtOnce
    <3>4. task[s] \in Places[1] /\ Places'[1] = Places[1] \ {task[s]}
          /\ \A j \in (1..4) \ {1} : Places'[j] = Places[j]
      BY <2>1, <2>2, <3>3 DEF Places
    <3>5. Holds'[s] = {task[s]} /\ \A t \in Submitters \ {s} : Holds'[t] = Holds[t]
      BY <1>1, <3>2, HoldsGoto DEF Labels
    <3>6. OnePlace(submitted, Places', Holds')
      BY <1>1, <2>1, <3>4, <3>5, ToHolder
    <3>7. QED
      BY <2>1, <3>3, <3>6 DEF TaskInv
  <2>3. CASE ~(shut /\ task[s] \in ToSet(queue))
    <3>1. UNCHANGED queue /\ Returns(s)
      BY <1>9, <2>3, Zenon DEF Recheck
    <3>2. Holds'[s] = {} /\ \A t \in Submitters \ {s} : Holds'[t] = Holds[t]
      BY <1>1, <3>1, HoldsReturns
    <3>3. QED
      BY <2>1, <3>1, <3>2, TasksStay
  <2>4. QED
    BY <2>2, <2>3
<1>10. ASSUME pc[s] \in {"reject"}, Drop({task[s]}), UNCHANGED <<queue, running, finished, submitted>>,
              Returns(s) \/ (Goto(s, "idle") /\ task' = [task EXCEPT ![s] = 0])
       PROVE  TaskInv'
  <2>1. Places'[4] = Places[4] \cup {task[s]} /\ \A j \in (1..4) \ {4} : Places'[j] = Places[j]
    BY <1>10 DEF Places, Drop
  <2>2. Holds'[s] = {} /\ \A t \in Submitters \ {s} : Holds'[t] = Holds[t]
    BY <1>1, <1>10, HoldsReturns, HoldsGoto DEF Labels
  <2>3. QED
    BY <1>1, <1>10, <2>1, <2>2, PutsTask
<1>11. CASE Abort(s) \/ Discard(s)
  BY <1>10, <1>11 DEF Abort, Discard, workers
<1>12. CASE CallerRuns(s)
  <2>1. CASE shut
    BY <1>10, <1>12, <2>1 DEF CallerRuns, workers
  <2>2. CASE ~shut
    BY <1>4, <1>12, <2>2 DEF CallerRuns, workers
  <2>3. QED
    BY <2>1, <2>2
<1>13. CASE Run(s)
  <2>1. /\ pc[s] = "run" /\ finished' = finished \cup {task[s]} /\ Returns(s)
        /\ UNCHANGED <<queue, running, dropped, submitted>>
    BY <1>13 DEF Run, workers
  <2>2. Places'[3] = Places[3] \cup {task[s]} /\ \A j \in (1..4) \ {3} : Places'[j] = Places[j]
    BY <2>1 DEF Places
  <2>3. Holds'[s] = {} /\ \A t \in Submitters \ {s} : Holds'[t] = Holds[t]
    BY <1>1, <2>1, HoldsReturns
  <2>4. QED
    BY <1>1, <2>1, <2>2, <2>3, PutsTask
<1>14. CASE DiscardOldest(s)
  <2>1. CASE shut
    BY <1>10, <1>14, <2>1 DEF DiscardOldest, workers
  <2>2. CASE ~shut /\ queue = <<>>
    <3>1. /\ pc[s] = "reject" /\ Drop({}) /\ queue' = queue /\ Goto(s, "core")
          /\ UNCHANGED <<task, running, finished, submitted>>
      BY <1>14, <2>2 DEF DiscardOldest, workers
    <3>2. UNCHANGED dropped
      BY <3>1 DEF Drop
    <3>3. QED
      BY <1>4, <3>1, <3>2
  <2>3. CASE ~shut /\ queue # <<>>
    <3>1. /\ pc[s] = "reject" /\ dropped' = dropped \cup {Head(queue)} /\ queue' = Tail(queue)
          /\ Goto(s, "core") /\ UNCHANGED <<task, running, finished, submitted>>
      BY <1>14, <2>3 DEF DiscardOldest, Drop, workers
    <3>2. /\ Head(queue) \in ToSet(queue) /\ ToSet(queue') = ToSet(queue) \ {Head(queue)}
          /\ IsInjective(queue')
      BY <1>1, <2>3, <3>1, TailOnce
    <3>3. /\ Head(queue) \in Places[1] /\ Places'[1] = Places[1] \ {Head(queue)}
          /\ Places'[4] = Places[4] \cup {Head(queue)}
          /\ \A j \in (1..4) \ {1, 4} : Places'[j] = Places[j]
      BY <3>1, <3>2 DEF Places
    <3>4. \A t \in Submitters : Holds'[t] = Holds[t]
      BY <1>1, <1>3, <3>1, HoldsGoto DEF Labels
    <3>5. OnePlace(submitted, Places', Holds)
      BY <1>1, <3>3, BetweenPlaces
    <3>6. QED
      BY <3>1, <3>2, <3>4, <3>5 DEF TaskInv, OnePlace
  <2>4. QED
    BY <2>1, <2>2, <2>3
<1>15. CASE CountAndReturn(s)
  <2>1. pc[s] = "return" /\ UNCHANGED <<queue, running, finished, dropped, submitted>>
    BY <1>15 DEF CountAndReturn, workers
  <2>2. \A t \in Submitters : Holds'[t] = Holds[t]
    <3>1. CASE UNCHANGED <<pc, task>>
      BY <3>1, HoldsQuiet
    <3>2. CASE Goto(s, "idle") /\ task' = [task EXCEPT ![s] = 0]
      BY <1>1, <2>1, <3>2, HoldsAre, HoldsGoto DEF Labels
    <3>3. QED
      BY <1>15, <3>1, <3>2 DEF CountAndReturn
  <2>3. QED
    BY <2>1, <2>2, TasksStay
<1>16. QED
  BY <1>5, <1>6, <1>7, <1>8, <1>9, <1>11, <1>12, <1>13, <1>14, <1>15 DEF Execute

LEMMA TasksStep == Inv /\ Inv' /\ TaskInv /\ [Next]_vars => TaskInv'
<1> SUFFICES ASSUME Inv, Inv', TaskInv, [Next]_vars PROVE TaskInv'
  OBVIOUS
<1>1. /\ queue \in Seq(Tasks) /\ IsInjective(queue) /\ OnePlace(submitted, Places, Holds)
  BY TypeParts DEF Inv, TaskInv
<1>2. CASE \E s \in Submitters : Execute(s) \/ Submit(s)
  BY <1>2, CallerTasks
<1>3. CASE Take
  <2>1. /\ queue # <<>> /\ running' = running \cup {Head(queue)} /\ queue' = Tail(queue)
        /\ UNCHANGED <<pc, task, finished, dropped, submitted>>
    BY <1>3 DEF Take, callers, ends
  <2>2. /\ Head(queue) \in ToSet(queue) /\ ToSet(queue') = ToSet(queue) \ {Head(queue)}
        /\ IsInjective(queue')
    BY <1>1, <2>1, TailOnce
  <2>3. /\ Head(queue) \in Places[1] /\ Places'[1] = Places[1] \ {Head(queue)}
        /\ Places'[2] = Places[2] \cup {Head(queue)}
        /\ \A j \in (1..4) \ {1, 2} : Places'[j] = Places[j]
    BY <2>1, <2>2 DEF Places
  <2>4. OnePlace(submitted, Places', Holds)
    BY <1>1, <2>3, BetweenPlaces
  <2>5. QED
    BY <2>1, <2>2, <2>4, HoldsQuiet DEF TaskInv, OnePlace
<1>4. CASE \E k \in running : Finish(k)
  <2>1. PICK k \in running : Finish(k)
    BY <1>4
  <2>2. /\ running' = running \ {k} /\ finished' = finished \cup {k}
        /\ UNCHANGED <<pc, task, queue, dropped, submitted>>
    BY <2>1 DEF Finish, callers
  <2>3. /\ k \in Places[2] /\ Places'[2] = Places[2] \ {k} /\ Places'[3] = Places[3] \cup {k}
        /\ \A j \in (1..4) \ {2, 3} : Places'[j] = Places[j]
    BY <2>2 DEF Places
  <2>4. OnePlace(submitted, Places', Holds)
    BY <1>1, <2>3, BetweenPlaces
  <2>5. QED
    BY <1>1, <2>2, <2>4, HoldsQuiet DEF TaskInv, OnePlace
<1>5. CASE \/ Decide \/ (\E n \in 1..Limit : Leave(n)) \/ LeaveAtShutdown \/ Exit
           \/ Refresh \/ BeginRefresh \/ Shutdown \/ UNCHANGED vars
  <2>1. UNCHANGED <<pc, task, queue, running, finished, dropped, submitted>>
    BY <1>5 DEF Decide, Leave, LeaveAtShutdown, Exit, Refresh, SetCore, Prestart, SetMax, SetPolicy,
       SetCapacity, BeginRefresh, Shutdown, vars, callers, ends, workers
  <2>2. QED
    BY <2>1, HoldsQuiet, TasksStay
<1>6. QED
  BY <1>2, <1>3, <1>4, <1>5 DEF Next, System, Worker

\* Every submitted task is in one place, whatever is refreshed, shut down or discarded
\* in the meantime: none is lost, none runs twice, and none runs that was dropped.
THEOREM TasksAreConserved == Spec => []TasksConserved
<1>1. Spec => []TaskInv
  BY Invariance, InitTasks, TasksStep, PTL DEF Spec
<1>2. QED
  BY <1>1, TaskInvMeans, PTL

-----------------------------------------------------------------------------
(***************************************************************************)
(* What is counted.                                                        *)
(***************************************************************************)

\* What is still to be counted is finite.
DropInv == IsFiniteSet(Counted(depth)) /\ DropsCounted

LEMMA InitDrops == Init => DropInv
<1> SUFFICES ASSUME Init PROVE DropInv
  OBVIOUS
<1>1. IsFiniteSet(Counted(depth)) /\ Total(depth) = 0
  <2>1. depth = [s \in Submitters |-> 0]
    BY DEF Init
  <2>2. QED
    BY <2>1, TotalZero
<1>2. Cardinality(dropped) = 0 /\ rejectCount = 0
  BY FS_EmptySet DEF Init
<1>3. QED
  BY <1>1, <1>2 DEF DropInv, DropsCounted

\* At most one task more is dropped.
LEMMA OneDrop ==
  ASSUME TypeOK, NEW k \in Tasks
  PROVE  /\ Cardinality(dropped) \in Nat /\ Cardinality(dropped \cup {k}) \in Nat
         /\ Cardinality(dropped \cup {k}) <= Cardinality(dropped) + 1
<1>1. dropped \in SUBSET Tasks /\ dropped \cup {k} \in SUBSET Tasks
  BY TypeParts DEF EndsType
<1>2. Cardinality(dropped) \in Nat /\ Cardinality(dropped \cup {k}) \in Nat
  BY <1>1, TasksFinite
<1>3. Cardinality(dropped \cup {k}) = IF k \in dropped THEN Cardinality(dropped) ELSE Cardinality(dropped) + 1
  BY <1>1, OneTask
<1>4. QED
  BY <1>2, <1>3

LEMMA DropsStep == Inv /\ DropInv /\ [Next]_vars => DropInv'
<1> SUFFICES ASSUME Inv, DropInv, [Next]_vars PROVE DropInv'
  OBVIOUS
<1>1. /\ TypeOK /\ depth \in [Submitters -> Nat] /\ rejectCount \in Nat /\ queue \in Seq(Tasks)
      /\ dropped \in SUBSET Tasks
  BY TypeParts DEF Inv, CallersType, EndsType
<1>2. IsFiniteSet(Counted(depth)) /\ Total(depth) \in Nat /\ Cardinality(dropped) \in Nat
  BY <1>1, TotalType, TasksFinite DEF DropInv
<1>3. ~shut /\ ~unwound => Cardinality(dropped) <= rejectCount + Total(depth)
  BY DEF DropInv, DropsCounted
<1>4. ASSUME UNCHANGED <<dropped, rejectCount, depth>>, ~shut' /\ ~unwound' => ~shut /\ ~unwound
      PROVE  DropInv'
  BY <1>2, <1>3, <1>4 DEF DropInv, DropsCounted
<1>5. ASSUME NEW s \in Submitters, Execute(s) \/ Submit(s)
      PROVE  DropInv'
  <2>1. /\ pc[s] # "idle" => task[s] \in Tasks
        /\ pc[s] = "return" => depth[s] > 0
    BY <1>5 DEF Inv, CallsInv, CallOK
  <2>2. UNCHANGED shut
    BY <1>5 DEF Execute, Submit, AddCoreWorker, CoreFull, Offer, Recheck, AddWorker, Abort, Discard,
       CallerRuns, Run, DiscardOldest, CountAndReturn
  <2>3. CASE Abort(s)
    <3>1. /\ rejectCount' = rejectCount + 1 /\ dropped' = dropped \cup {task[s]}
          /\ depth' = [depth EXCEPT ![s] = 0] /\ task[s] \in Tasks
      BY <2>1, <2>3 DEF Abort, Drop
    <3>2. ~unwound' => ~unwound /\ ~(depth[s] > 0)
      BY <2>3, Zenon DEF Abort
    <3>3. IsFiniteSet(Counted(depth')) /\ (depth[s] = 0 => depth' = depth)
      <4>1. depth \in [Submitters -> Nat] /\ IsFiniteSet(Counted(depth))
        BY <1>1, <1>2
      <4>2. /\ IsFiniteSet(Counted([depth EXCEPT ![s] = 0]))
            /\ depth[s] = 0 => [depth EXCEPT ![s] = 0] = depth
        BY <4>1, TotalReset
      <4>3. QED
        BY <3>1, <4>2, Zenon
    <3>4. ~unwound' => ~unwound /\ depth' = depth
      BY <1>1, <3>2, <3>3
    <3>5. Cardinality(dropped') \in Nat /\ Cardinality(dropped') <= Cardinality(dropped) + 1
      BY <1>1, <3>1, OneDrop
    <3>6. ASSUME ~shut', ~unwound' PROVE Cardinality(dropped') <= rejectCount' + Total(depth')
      <4>1. ~shut /\ ~unwound /\ depth' = depth
        BY <2>2, <3>4, <3>6
      <4>2. Cardinality(dropped) <= rejectCount + Total(depth)
        BY <1>3, <4>1
      <4>3. Total(depth') = Total(depth) /\ rejectCount' = rejectCount + 1
        BY <3>1, <4>1
      <4>4. QED
        BY <1>1, <1>2, <3>5, <4>2, <4>3
    <3>7. QED
      BY <3>3, <3>6 DEF DropInv, DropsCounted
  <2>4. CASE Discard(s)
    <3>1. /\ rejectCount' = rejectCount + 1 /\ dropped' = dropped \cup {task[s]}
          /\ depth' = depth /\ task[s] \in Tasks
      BY <2>1, <2>4 DEF Discard, Drop
    <3>2. UNCHANGED unwound
      BY <2>4 DEF Discard
    <3>3. Cardinality(dropped') \in Nat /\ Cardinality(dropped') <= Cardinality(dropped) + 1
      BY <1>1, <3>1, OneDrop
    <3>4. ASSUME ~shut', ~unwound' PROVE Cardinality(dropped') <= rejectCount' + Total(depth')
      BY <1>1, <1>2, <1>3, <2>2, <3>1, <3>2, <3>3, <3>4
    <3>5. QED
      BY <1>2, <3>1, <3>4 DEF DropInv, DropsCounted
  <2>5. CASE shut /\ (CallerRuns(s) \/ DiscardOldest(s))
    <3>1. shut' /\ UNCHANGED depth
      BY <2>2, <2>5 DEF CallerRuns, DiscardOldest, callers
    <3>2. QED
      BY <1>2, <3>1 DEF DropInv, DropsCounted
  <2>6. CASE ~shut /\ DiscardOldest(s)
    <3>1. /\ depth' = [depth EXCEPT ![s] = @ + 1] /\ UNCHANGED rejectCount
          /\ dropped' = dropped \cup (IF queue = <<>> THEN {} ELSE {Head(queue)})
      BY <2>6 DEF DiscardOldest, Drop
    <3>2. UNCHANGED unwound
      BY <2>6 DEF DiscardOldest
    <3>3. IsFiniteSet(Counted(depth')) /\ Total(depth') = Total(depth) + 1
      BY <1>1, <1>2, <3>1, TotalIncrement
    <3>4. Cardinality(dropped') \in Nat /\ Cardinality(dropped') <= Cardinality(dropped) + 1
      <4>1. CASE queue = <<>>
        <5>1. dropped' = dropped
          BY <3>1, <4>1
        <5>2. QED
          BY <1>2, <5>1
      <4>2. CASE queue # <<>>
        <5>1. Head(queue) \in Tasks /\ dropped' = dropped \cup {Head(queue)}
          BY <1>1, <3>1, <4>2, TailOnce
        <5>2. QED
          BY <1>1, <5>1, OneDrop
      <4>3. QED
        BY <4>1, <4>2
    <3>5. ASSUME ~shut', ~unwound' PROVE Cardinality(dropped') <= rejectCount' + Total(depth')
      BY <1>1, <1>2, <1>3, <2>2, <3>1, <3>2, <3>3, <3>4, <3>5
    <3>6. QED
      BY <3>3, <3>5 DEF DropInv, DropsCounted
  <2>7. CASE CountAndReturn(s)
    <3>1. /\ depth' = [depth EXCEPT ![s] = @ - 1] /\ rejectCount' = rejectCount + 1
          /\ UNCHANGED dropped /\ depth[s] > 0
      BY <2>1, <2>7 DEF CountAndReturn
    <3>2. UNCHANGED unwound
      BY <2>7 DEF CountAndReturn
    <3>3. IsFiniteSet(Counted(depth')) /\ Total(depth') = Total(depth) - 1
      BY <1>1, <1>2, <3>1, TotalDecrement
    <3>4. ASSUME ~shut', ~unwound' PROVE Cardinality(dropped') <= rejectCount' + Total(depth')
      BY <1>1, <1>2, <1>3, <2>2, <3>1, <3>2, <3>3, <3>4
    <3>5. QED
      BY <3>3, <3>4 DEF DropInv, DropsCounted
  <2>8. CASE /\ ~(Abort(s) \/ Discard(s) \/ DiscardOldest(s) \/ CountAndReturn(s))
             /\ ~(shut /\ CallerRuns(s))
    <3>1. UNCHANGED <<dropped, rejectCount, depth>> /\ UNCHANGED <<unwound, shut>>
      BY <1>5, <2>8 DEF Execute, Submit, AddCoreWorker, CoreFull, Offer, Recheck, AddWorker, CallerRuns,
         Run, ends
    <3>2. QED
      BY <1>4, <3>1
  <2>9. QED
    BY <2>3, <2>4, <2>5, <2>6, <2>7, <2>8
<1>6. CASE \/ Worker \/ (\E k \in running : Finish(k)) \/ Refresh \/ BeginRefresh \/ Shutdown
           \/ UNCHANGED vars
  <2>1. UNCHANGED <<dropped, rejectCount, depth>> /\ UNCHANGED unwound
    BY <1>6 DEF Worker, Take, Decide, Leave, LeaveAtShutdown, Exit, Finish, Refresh, SetCore, Prestart,
       SetMax, SetPolicy, SetCapacity, BeginRefresh, Shutdown, vars, callers, ends
  <2>2. ~shut' => ~shut
    BY <1>6, Zenon DEF Worker, Take, Decide, Leave, LeaveAtShutdown, Exit, Finish, Refresh, SetCore,
       Prestart, SetMax, SetPolicy, SetCapacity, BeginRefresh, Shutdown, vars
  <2>3. QED
    BY <1>4, <2>1, <2>2
<1>7. QED
  BY <1>5, <1>6 DEF Next, System

\* A dropped task is counted, or a call of the discarding policy that has not returned
\* will count it, unless an exception passed through it or the pool was shut down.
THEOREM DropsAreCounted == Spec => []DropsCounted
<1>1. Spec => []DropInv
  BY Invariance, InitDrops, DropsStep, PTL DEF Spec
<1>2. QED
  BY <1>1, PTL DEF DropInv

-----------------------------------------------------------------------------
(***************************************************************************)
(* Who is there for a queued task.                                         *)
(***************************************************************************)

\* Without a worker, every queued task has its own submitter still to recheck: one of
\* them would not be enough, as its task may be the one that it takes back.
QueuedInv ==
  WorkerCount = 0 /\ exiting = 0 =>
    \A k \in ToSet(queue) : \E s \in Submitters : pc[s] = "recheck" /\ task[s] = k

\* Submitters that recheck go on to do so while they, or the queue, are left alone.
LEMMA QueuedFrame ==
  ASSUME QueuedInv, WorkerCount' = 0 /\ exiting' = 0 => WorkerCount = 0 /\ exiting = 0,
         ToSet(queue') \subseteq ToSet(queue),
         \A t \in Submitters : pc[t] = "recheck" /\ task[t] \in ToSet(queue')
                               => pc'[t] = "recheck" /\ task'[t] = task[t]
  PROVE  QueuedInv'
  BY DEF QueuedInv

LEMMA InitQueued == Init => QueuedInv
  BY DEF Init, QueuedInv, ToSet

LEMMA CallerQueued ==
  ASSUME Inv, TaskInv, QueuedInv, NEW s \in Submitters, Execute(s) \/ Submit(s)
  PROVE  QueuedInv'
<1>1. /\ CallersType /\ queue \in Seq(Tasks) /\ IsInjective(queue) /\ max \in Nat \ {0}
      /\ WorkerCount \in Nat
  BY TypeParts, WorkersFacts DEF Inv, TaskInv, SettingsType
<1>2. pc[s] # "idle" => task[s] \in Tasks
  BY DEF Inv, CallsInv, CallOK
<1>3. UNCHANGED exiting
  BY DEF Execute, Submit, AddCoreWorker, CoreFull, Offer, Recheck, AddWorker, Abort, Discard,
     CallerRuns, Run, DiscardOldest, CountAndReturn, RunInWorker, workers
<1>4. WorkerCount' = 0 /\ exiting' = 0 => WorkerCount = 0 /\ exiting = 0
  <2>1. WorkerCount' >= WorkerCount
    BY CallerWorkers
  <2>2. QED
    BY <1>1, <1>3, <2>1
<1>5. \A t \in Submitters \ {s} : pc'[t] = pc[t] /\ task'[t] = task[t]
  BY <1>1 DEF Execute, Submit, AddCoreWorker, CoreFull, Offer, Recheck, AddWorker, Abort, Discard,
     CallerRuns, Run, DiscardOldest, CountAndReturn, RunInWorker, Returns, Goto, CallersType
<1>6. CASE Offer(s)
  <2>1. CASE Len(queue) < capacity
    <3>1. /\ pc'[s] = "recheck" /\ UNCHANGED task /\ queue' = Append(queue, task[s])
          /\ pc[s] = "offer" /\ task[s] \in Tasks
      BY <1>1, <1>2, <1>6, <2>1 DEF Offer, Goto, CallersType
    <3>2. ToSet(queue') = ToSet(queue) \cup {task[s]}
      BY <1>1, <3>1, AppendOnce
    <3>3. QED
      BY <1>4, <1>5, <3>1, <3>2 DEF QueuedInv
  <2>2. CASE ~(Len(queue) < capacity)
    <3>1. pc[s] # "recheck" /\ UNCHANGED queue
      BY <1>6, <2>2 DEF Offer
    <3>2. QED
      BY <1>4, <1>5, <3>1, QueuedFrame
  <2>3. QED
    BY <2>1, <2>2
<1>7. CASE Recheck(s)
  <2>1. CASE shut /\ task[s] \in ToSet(queue)
    <3>1. PICK i \in DOMAIN queue : queue[i] = task[s] /\ queue' = RemoveAt(queue, i)
      BY <1>7, <2>1, Zenon DEF Recheck
    <3>2. ToSet(queue') = ToSet(queue) \ {task[s]}
      BY <1>1, <3>1, RemoveAtOnce
    <3>3. \A t \in Submitters : task[t] \in ToSet(queue') => t # s
      BY <3>2
    <3>4. QED
      BY <1>4, <1>5, <3>2, <3>3, QueuedFrame
  <2>2. CASE ~(shut /\ task[s] \in ToSet(queue))
    <3>1. /\ UNCHANGED <<queue, running, leaving>>
          /\ idle' = IF WorkerCount = 0 /\ MayAddIdle(max) THEN idle + 1 ELSE idle
      BY <1>7, <2>2, Zenon DEF Recheck
    <3>2. exiting' \in Nat
      BY <1>3, WorkersFacts DEF WorkersType
    <3>3. WorkerCount' = WorkerCount + (idle' - idle)
      <4>1. idle' = idle \/ (idle' = idle + 1 /\ WorkerCount < max)
        BY <3>1 DEF MayAddIdle
      <4>2. QED
        BY <3>1, <3>2, <4>1, IdleStep
    <3>4. CASE WorkerCount = 0 /\ MayAddIdle(max)
      <4>1. idle \in Nat /\ idle' = idle + 1
        BY <3>1, <3>4, WorkersFacts
      <4>2. WorkerCount' = 1
        BY <3>3, <3>4, <4>1
      <4>3. QED
        BY <4>2 DEF QueuedInv
    <3>5. CASE WorkerCount = 0 /\ ~MayAddIdle(max)
      <4>1. queue = <<>>
        BY <1>1, <3>5 DEF MayAddIdle
      <4>2. ToSet(queue') = {}
        BY <3>1, <4>1 DEF ToSet
      <4>3. QED
        BY <4>2 DEF QueuedInv
    <3>6. CASE WorkerCount # 0
      BY <1>4, <3>6 DEF QueuedInv
    <3>7. QED
      BY <3>4, <3>5, <3>6
  <2>3. QED
    BY <2>1, <2>2
<1>8. CASE ~(Offer(s) \/ Recheck(s))
  <2>1. pc[s] # "recheck"
    BY <1>8 DEF Execute, Submit, AddCoreWorker, CoreFull, AddWorker, Abort, Discard, CallerRuns,
       Run, DiscardOldest, CountAndReturn
  <2>2. ToSet(queue') \subseteq ToSet(queue)
    <3>1. queue' = queue \/ (queue # <<>> /\ queue' = Tail(queue))
      BY <1>8 DEF Execute, Submit, AddCoreWorker, CoreFull, AddWorker, Abort, Discard, CallerRuns,
         Run, DiscardOldest, CountAndReturn
    <3>2. QED
      BY <1>1, <3>1, TailOnce
  <2>3. QED
    BY <1>4, <1>5, <2>1, <2>2, QueuedFrame
<1>9. QED
  BY <1>6, <1>7, <1>8

LEMMA QueuedStep == Inv /\ TaskInv /\ QueuedInv /\ [Next]_vars => QueuedInv'
<1> SUFFICES ASSUME Inv, TaskInv, QueuedInv, [Next]_vars PROVE QueuedInv'
  OBVIOUS
<1>1. WorkerCount \in Nat /\ exiting \in Nat /\ idle \in Nat /\ idle <= WorkerCount /\ max \in Nat \ {0} /\ core \in Nat
  BY TypeParts, WorkersFacts DEF WorkersType, Inv, SettingsType
<1>2. ASSUME UNCHANGED <<queue, pc, task>>,
             WorkerCount' = 0 /\ exiting' = 0 => WorkerCount = 0 /\ exiting = 0
      PROVE  QueuedInv'
  BY <1>2, QueuedFrame
<1>3. CASE \E s \in Submitters : Execute(s) \/ Submit(s)
  BY <1>3, CallerQueued
<1>4. CASE Take
  <2>1. WorkerCount' > 0
    BY <1>4, TakeStep
  <2>2. QED
    BY <2>1 DEF QueuedInv
<1>5. CASE \E k \in running : Finish(k)
  <2>1. PICK k \in running : Finish(k)
    BY <1>5
  <2>2. UNCHANGED <<queue, pc, task, exiting>> /\ WorkerCount' = WorkerCount
    BY <2>1, FinishStep DEF Finish, callers
  <2>3. QED
    BY <1>2, <2>2
<1>6. CASE Decide
  <2>1. UNCHANGED <<queue, pc, task, exiting>> /\ WorkerCount' = WorkerCount
    BY <1>6, DecideStep DEF Decide, callers
  <2>2. QED
    BY <1>2, <2>1
<1>7. CASE \E n \in 1..Limit : Leave(n)
  <2>1. PICK n \in 1..Limit : Leave(n)
    BY <1>7
  <2>2. UNCHANGED <<queue, pc, task>>
    BY <2>1 DEF Leave, callers
  <2>3. \/ exiting' = exiting + 1 /\ WorkerCount' = WorkerCount - 1
        \/ UNCHANGED exiting /\ WorkerCount' = WorkerCount
    BY <2>1, LeaveStep
  <2>4. WorkerCount' = 0 /\ exiting' = 0 => WorkerCount = 0 /\ exiting = 0
    BY <1>1, <2>3
  <2>5. QED
    BY <1>2, <2>2, <2>4
<1>8. CASE LeaveAtShutdown
  <2>1. exiting' = exiting + 1
    BY <1>8 DEF LeaveAtShutdown
  <2>2. QED
    BY <1>1, <2>1 DEF QueuedInv
<1>9. CASE Exit
  <2>1. UNCHANGED <<queue, pc, task, running, leaving>> /\ exiting' \in Nat
    BY <1>1, <1>9 DEF Exit, callers
  <2> DEFINE least == Max({core, IF queue = <<>> THEN 0 ELSE 1})
  <2>2. idle' = IF WorkerCount < least /\ MayAddIdle(max) THEN idle + 1 ELSE idle
    BY <1>9 DEF Exit
  <2>3. queue # <<>> => least > 0
    BY <1>1, MaxOfTwo
  <2> HIDE DEF least
  <2>4. WorkerCount' = WorkerCount + (idle' - idle)
    <3>1. idle' = idle \/ (idle' = idle + 1 /\ WorkerCount < max)
      BY <2>2 DEF MayAddIdle
    <3>2. QED
      BY <2>1, <3>1, IdleStep
  <2>5. CASE queue = <<>>
    <3>1. ToSet(queue') = {}
      BY <2>1, <2>5 DEF ToSet
    <3>2. QED
      BY <3>1 DEF QueuedInv
  <2>6. CASE queue # <<>>
    <3>1. WorkerCount' # 0
      <4>1. CASE WorkerCount = 0
        <5>1. MayAddIdle(max)
          BY <1>1, <2>6, <4>1 DEF MayAddIdle
        <5>2. idle' = idle + 1
          <6>1. WorkerCount < least
            BY <2>3, <2>6, <4>1
          <6>2. QED
            BY <2>2, <5>1, <6>1
        <5>3. QED
          BY <1>1, <2>4, <4>1, <5>2
      <4>2. CASE WorkerCount # 0
        <5>1. idle' = idle \/ idle' = idle + 1
          BY <2>2
        <5>2. QED
          BY <1>1, <2>4, <4>2, <5>1
      <4>3. QED
        BY <4>1, <4>2
    <3>2. QED
      BY <3>1 DEF QueuedInv
  <2>7. QED
    BY <2>5, <2>6
<1>10. CASE Prestart
  <2>1. UNCHANGED <<queue, pc, task, running, leaving, exiting>>
    BY <1>10 DEF Prestart, callers
  <2>2. idle' = idle \/ (idle' = idle + 1 /\ WorkerCount < core)
    BY <1>10 DEF Prestart, MayAddIdle
  <2>3. WorkerCount' = WorkerCount + (idle' - idle)
    BY <1>1, <2>1, <2>2, IdleStep
  <2>4. WorkerCount' = 0 => WorkerCount = 0
    BY <1>1, <2>2, <2>3
  <2>5. QED
    BY <1>2, <2>1, <2>4
<1>11. CASE SetCore \/ SetMax \/ SetPolicy \/ SetCapacity \/ BeginRefresh \/ Shutdown \/ UNCHANGED vars
  <2>1. UNCHANGED <<queue, pc, task, exiting>> /\ UNCHANGED workers
    BY <1>11 DEF SetCore, SetMax, SetPolicy, SetCapacity, BeginRefresh, Shutdown, vars, callers, workers
  <2>2. WorkerCount' = WorkerCount
    BY <2>1 DEF WorkerCount, workers
  <2>3. QED
    BY <1>2, <2>1, <2>2
<1>12. QED
  BY <1>3, <1>4, <1>5, <1>6, <1>7, <1>8, <1>9, <1>10, <1>11 DEF Next, System, Worker, Refresh

\* A queued task always has a worker, or somebody about to see to one, however workers
\* time out, sizes shrink and the pool is shut down while it is put into the queue.
THEOREM QueuedTasksHaveWorkers == Spec => []QueuedTaskHasWorker
<1>1. Spec => []TaskInv
  BY Invariance, InitTasks, TasksStep, PTL DEF Spec
<1>2. Spec => []QueuedInv
  BY <1>1, Invariance, InitQueued, QueuedStep, PTL DEF Spec
<1>3. Inv /\ QueuedInv => QueuedTaskHasWorker
  <2> SUFFICES ASSUME Inv, QueuedInv, queue # <<>>, ~(WorkerCount > 0), ~(exiting > 0)
               PROVE  \E s \in Submitters : pc[s] = "recheck"
    BY DEF QueuedTaskHasWorker
  <2>1. WorkerCount = 0 /\ exiting = 0
    BY WorkersFacts DEF WorkersType
  <2>2. Head(queue) \in ToSet(queue)
    BY TypeParts, TailOnce DEF Inv
  <2>3. QED
    BY <2>1, <2>2 DEF QueuedInv
<1>4. QED
  BY <1>2, <1>3, Invariance, PTL

-----------------------------------------------------------------------------
(***************************************************************************)
(* How deep execute and CxmDiscardOldestPolicy call each other.  Neither   *)
(* the listener nor setCapacity refuses a capacity of 0, with which they   *)
(* never stop.                                                             *)
(***************************************************************************)
PositiveCapacities == \A c \in Configs : c.capacity > 0

\* The tasks that have left submitters and queue, and how many of them there must be
\* once the queue is full.
Ended == running \cup finished \cup dropped
Level == Cardinality(Ended) + (IF queue = <<>> THEN 0 ELSE 1)

\* Every call but the first follows a task that ended.
DepthOK(s) ==
  /\ depth[s] <= MaxTasks
  /\ pc[s] \in {"core", "offer"} => depth[s] <= Cardinality(Ended) + 1
  /\ ~shut /\ pc[s] \in {"grow", "reject"} => depth[s] <= Level

DepthInv == capacity > 0 /\ \A s \in Submitters : DepthOK(s)

LEMMA InitDepth == PositiveCapacities /\ Init => DepthInv
<1> SUFFICES ASSUME PositiveCapacities, Init PROVE DepthInv
  OBVIOUS
<1>1. capacity > 0
  BY ConfigsAssumption DEF Init, PositiveCapacities
<1>2. ASSUME NEW s \in Submitters PROVE DepthOK(s)
  BY BoundsAssumption DEF Init, DepthOK
<1>3. QED
  BY <1>1, <1>2 DEF DepthInv

LEMMA EndedType ==
  ASSUME TypeOK
  PROVE  Ended \in SUBSET Tasks /\ IsFiniteSet(Ended) /\ Cardinality(Ended) \in Nat /\ Level \in Nat
<1>1. Ended \in SUBSET Tasks
  BY TypeParts DEF Ended, WorkersType, EndsType
<1>2. QED
  BY <1>1, TasksFinite DEF Level

\* Tasks that have ended stay so, and the queue becomes empty only because one more does.
LEMMA LevelStep ==
  ASSUME Inv, Inv', TaskInv, [Next]_vars
  PROVE  /\ Cardinality(Ended) <= Cardinality(Ended') /\ Level' \in Nat
         /\ ~shut' => Level <= Level'
<1>1. queue \in Seq(Tasks) /\ TypeOK /\ TypeOK'
  BY TypeParts DEF Inv
<1>2. /\ IsFiniteSet(Ended) /\ IsFiniteSet(Ended')
      /\ Cardinality(Ended) \in Nat /\ Cardinality(Ended') \in Nat
  <2>1. IsFiniteSet(Ended) /\ Cardinality(Ended) \in Nat
    BY <1>1, EndedType
  <2>2. Ended' \in SUBSET Tasks
    BY <1>1 DEF TypeOK, Ended
  <2>3. IsFiniteSet(Ended') /\ Cardinality(Ended') \in Nat
    BY <2>2, TasksFinite
  <2>4. QED
    BY <2>1, <2>3
<1>3. Ended \subseteq Ended'
  <2>1. CASE \E s \in Submitters : Execute(s) \/ Submit(s)
    BY <2>1 DEF Ended, Execute, Submit, AddCoreWorker, CoreFull, Offer, Recheck, AddWorker, Abort,
       Discard, CallerRuns, Run, DiscardOldest, CountAndReturn, RunInWorker, Drop, workers, ends
  <2>2. CASE ~\E s \in Submitters : Execute(s) \/ Submit(s)
    BY <2>2 DEF Ended, Next, System, Worker, Take, Decide, Leave, LeaveAtShutdown, Exit, Finish,
       Refresh, SetCore, Prestart, SetMax, SetPolicy, SetCapacity, BeginRefresh, Shutdown, vars,
       workers, ends
  <2>3. QED
    BY <2>1, <2>2
<1>4. Cardinality(Ended) <= Cardinality(Ended')
  BY <1>2, <1>3, FS_Subset
<1>5. ASSUME ~shut', queue # <<>>, queue' = <<>>
      PROVE  Cardinality(Ended) + 1 <= Cardinality(Ended')
  <2>1. Head(queue) \in Ended'
    <3>1. CASE \E s \in Submitters : Execute(s) \/ Submit(s)
      <4>1. PICK s \in Submitters : Execute(s) \/ Submit(s)
        BY <3>1
      <4>2. Append(queue, task[s]) # <<>>
        <5>1. pc[s] = "offer" => task[s] \in Tasks
          BY DEF Inv, CallsInv, CallOK
        <5>2. Len(Append(queue, task[s])) = Len(queue) + 1 /\ Len(queue) \in Nat
          BY <1>1
        <5>3. Len(<<>>) = 0
          OBVIOUS
        <5>4. QED
          BY <5>2, <5>3
      <4>3. ~shut
        BY <1>5, <4>1, Zenon DEF Execute, Submit, AddCoreWorker, CoreFull, Offer, Recheck, AddWorker,
           Abort, Discard, CallerRuns, Run, DiscardOldest, CountAndReturn
      <4>4. DiscardOldest(s)
        BY <1>5, <4>1, <4>2, <4>3 DEF Execute, Submit, AddCoreWorker, CoreFull, Offer, Recheck,
           AddWorker, Abort, Discard, CallerRuns, Run, CountAndReturn
      <4>5. QED
        BY <1>5, <4>3, <4>4 DEF DiscardOldest, Drop, Ended
    <3>2. CASE ~\E s \in Submitters : Execute(s) \/ Submit(s)
      <4>1. Take
        BY <1>5, <3>2 DEF Next, System, Worker, Decide, Leave, LeaveAtShutdown, Exit, Finish,
           Refresh, SetCore, Prestart, SetMax, SetPolicy, SetCapacity, BeginRefresh, Shutdown, vars
      <4>2. QED
        BY <4>1 DEF Take, Ended
    <3>3. QED
      BY <3>1, <3>2
  <2>2. Head(queue) \notin Ended
    <3>1. Head(queue) \in Places[1]
      BY <1>1, <1>5, TailOnce, PlacesAre
    <3>2. \A i \in {2, 3, 4} : Head(queue) \notin Places[i]
      BY <3>1, PlacesAre DEF TaskInv, OnePlace
    <3>3. QED
      BY <3>2, PlacesAre DEF Ended
  <2>3. Ended # Ended'
    BY <2>1, <2>2
  <2>4. Cardinality(Ended) # Cardinality(Ended')
    BY <1>2, <1>3, <2>3, FS_Subset
  <2>5. QED
    BY <1>2, <1>4, <2>4
<1>6. ~shut' => Level <= Level'
  BY <1>2, <1>4, <1>5 DEF Level
<1>7. QED
  BY <1>2, <1>4, <1>6 DEF Level

\* A thread that holds a task has seen fewer end than there may be.
RoomForHeld ==
  \A s \in Submitters :
    pc[s] \in {"core", "offer", "grow", "reject", "run"} => Cardinality(Ended) + 1 <= MaxTasks

LEMMA EndedWithoutHeld == Inv /\ TaskInv => RoomForHeld
<1> SUFFICES ASSUME Inv, TaskInv, NEW s \in Submitters,
                    pc[s] \in {"core", "offer", "grow", "reject", "run"}
             PROVE  Cardinality(Ended) + 1 <= MaxTasks
  BY DEF RoomForHeld
<1>1. task[s] \in Tasks /\ Ended \in SUBSET Tasks
  BY EndedType DEF Inv, CallsInv, CallOK
<1>2. task[s] \notin Ended
  <2>1. task[s] \in Holds[s]
    BY TypeParts, HoldsAre DEF Inv
  <2>2. \A i \in 1..4 : task[s] \notin Places[i]
    BY <2>1 DEF TaskInv, OnePlace
  <2>3. QED
    BY <2>2, PlacesAre DEF Ended
<1>3. Cardinality(Ended \cup {task[s]}) = Cardinality(Ended) + 1
  BY <1>1, <1>2, OneTask
<1>4. Ended \cup {task[s]} \in SUBSET Tasks
  BY <1>1
<1>5. Cardinality(Ended \cup {task[s]}) <= MaxTasks
  BY <1>4, TasksFinite
<1>6. QED
  BY <1>3, <1>5

LEMMA DepthStep ==
  PositiveCapacities /\ Inv /\ Inv' /\ TaskInv /\ TaskInv' /\ DepthInv /\ [Next]_vars => DepthInv'
<1> SUFFICES ASSUME PositiveCapacities, Inv, Inv', TaskInv, TaskInv', DepthInv, [Next]_vars
             PROVE  DepthInv'
  OBVIOUS
<1>1. /\ CallersType /\ CallersType' /\ queue \in Seq(Tasks) /\ capacity \in Nat /\ capacity > 0
      /\ Cardinality(Ended) \in Nat /\ Level \in Nat /\ MaxTasks \in Nat
  <2>1. CallersType'
    BY DEF Inv, TypeOK, CallersType, Labels
  <2>2. QED
    BY <2>1, TypeParts, EndedType, BoundsAssumption DEF Inv, SettingsType, DepthInv
<1>2. /\ Cardinality(Ended') \in Nat /\ Level' \in Nat /\ Cardinality(Ended) <= Cardinality(Ended')
      /\ ~shut' => ~shut /\ Level <= Level'
  <2>1. Cardinality(Ended') \in Nat
    <3>1. Ended' \in SUBSET Tasks
      BY DEF Inv, TypeOK, Ended
    <3>2. QED
      BY <3>1, TasksFinite
  <2>2. ~shut' => ~shut
    BY Zenon DEF Next, System, Execute, Submit, AddCoreWorker, CoreFull, Offer, Recheck, AddWorker,
       Abort, Discard, CallerRuns, Run, DiscardOldest, CountAndReturn, Worker, Take, Decide, Leave,
       LeaveAtShutdown, Exit, Finish, Refresh, SetCore, Prestart, SetMax, SetPolicy, SetCapacity,
       BeginRefresh, Shutdown, vars
  <2>3. QED
    BY <2>1, <2>2, LevelStep
<1>3. \A s \in Submitters : DepthOK(s) /\ depth[s] \in Nat
  BY <1>1 DEF DepthInv, CallersType
\* Who does nothing is not closer to the bound.
<1>4. ASSUME NEW t \in Submitters, pc'[t] = pc[t], depth'[t] = depth[t]
      PROVE  DepthOK(t)'
  <2>1. depth'[t] <= MaxTasks
    BY <1>3, <1>4 DEF DepthOK
  <2>2. pc'[t] \in {"core", "offer"} => depth'[t] <= Cardinality(Ended') + 1
    BY <1>1, <1>2, <1>3, <1>4 DEF DepthOK
  <2>3. ~shut' /\ pc'[t] \in {"grow", "reject"} => depth'[t] <= Level'
    BY <1>1, <1>2, <1>3, <1>4 DEF DepthOK
  <2>4. QED
    BY <2>1, <2>2, <2>3 DEF DepthOK
<1>5. ASSUME NEW s \in Submitters, Execute(s) \/ Submit(s)
      PROVE  DepthInv'
  <2>1. \A t \in Submitters \ {s} : pc'[t] = pc[t] /\ depth'[t] = depth[t]
    BY <1>1, <1>5 DEF Execute, Submit, AddCoreWorker, CoreFull, Offer, Recheck, AddWorker, Abort,
       Discard, CallerRuns, Run, DiscardOldest, CountAndReturn, RunInWorker, Returns, Goto,
       CallersType, callers
  <2>2. UNCHANGED capacity
    BY <1>5 DEF Execute, Submit, AddCoreWorker, CoreFull, Offer, Recheck, AddWorker, Abort, Discard,
       CallerRuns, Run, DiscardOldest, CountAndReturn, settings
  \* Outside the recursion only the bound itself is left to show.
  <2>3. ASSUME UNCHANGED depth, pc'[s] \notin {"core", "offer"}, shut' \/ pc'[s] \notin {"grow", "reject"}
        PROVE  DepthOK(s)'
    BY <1>3, <2>3 DEF DepthOK
  <2>4. ASSUME Returns(s), UNCHANGED depth PROVE DepthOK(s)'
    <3>1. pc'[s] \in {"idle", "return"}
      BY <1>1, <2>4 DEF Returns, Goto, CallersType
    <3>2. QED
      BY <2>3, <2>4, <3>1
  <2>5. DepthOK(s)'
    <3>1. CASE Submit(s)
      <4>1. pc'[s] = "core" /\ depth'[s] = 0
        BY <1>1, <3>1 DEF Submit, Goto, CallersType, Inv, CallsInv, CallOK
      <4>2. QED
        BY <1>1, <1>2, <4>1 DEF DepthOK
    <3>2. CASE AddCoreWorker(s) \/ Discard(s) \/ Run(s)
      BY <2>4, <3>2 DEF AddCoreWorker, Discard, Run, RunInWorker
    <3>3. CASE CoreFull(s)
      <4>1. CASE shut
        <5>1. shut' /\ pc'[s] = "grow" /\ UNCHANGED depth
          BY <1>1, <3>3, <4>1 DEF CoreFull, Goto, CallersType
        <5>2. QED
          BY <2>3, <5>1
      <4>2. CASE ~shut
        <5>1. pc[s] = "core" /\ pc'[s] = "offer" /\ UNCHANGED depth
          BY <1>1, <3>3, <4>2 DEF CoreFull, Goto, CallersType
        <5>2. QED
          BY <1>1, <1>2, <1>3, <5>1 DEF DepthOK
      <4>3. QED
        BY <4>1, <4>2
    <3>4. CASE Offer(s)
      <4>1. CASE Len(queue) < capacity
        <5>1. pc'[s] = "recheck" /\ UNCHANGED depth
          BY <1>1, <3>4, <4>1 DEF Offer, Goto, CallersType
        <5>2. QED
          BY <2>3, <5>1
      <4>2. CASE ~(Len(queue) < capacity)
        <5>1. pc[s] = "offer" /\ pc'[s] = "grow" /\ UNCHANGED <<depth, queue>>
          BY <1>1, <3>4, <4>2 DEF Offer, Goto, CallersType
        <5>2. queue # <<>>
          BY <1>1, <4>2
        <5>3. Level' = Cardinality(Ended') + 1
          BY <5>1, <5>2 DEF Level
        <5>4. QED
          BY <1>1, <1>2, <1>3, <5>1, <5>3 DEF DepthOK
      <4>3. QED
        BY <4>1, <4>2
    <3>5. CASE Recheck(s)
      <4>1. CASE shut /\ task[s] \in ToSet(queue)
        <5>1. Goto(s, "reject") /\ UNCHANGED depth /\ shut'
          BY <3>5, <4>1, Zenon DEF Recheck
        <5>2. pc'[s] = "reject"
          BY <1>1, <5>1 DEF Goto, CallersType
        <5>3. QED
          BY <2>3, <5>1, <5>2
      <4>2. CASE ~(shut /\ task[s] \in ToSet(queue))
        <5>1. Returns(s) /\ UNCHANGED depth
          BY <3>5, <4>2, Zenon DEF Recheck
        <5>2. QED
          BY <2>4, <5>1
      <4>3. QED
        BY <4>1, <4>2
    <3>6. CASE AddWorker(s)
      <4>1. CASE ~shut /\ WorkerCount < max
        BY <2>4, <3>6, <4>1 DEF AddWorker, RunInWorker
      <4>2. CASE ~(~shut /\ WorkerCount < max)
        <5>1. pc[s] = "grow" /\ pc'[s] = "reject" /\ UNCHANGED <<depth, shut>>
          BY <1>1, <3>6, <4>2 DEF AddWorker, Goto, CallersType
        <5>2. QED
          BY <1>1, <1>2, <1>3, <5>1 DEF DepthOK
      <4>3. QED
        BY <4>1, <4>2
    <3>7. CASE Abort(s)
      <4>1. pc'[s] = "idle" /\ depth'[s] = 0
        BY <1>1, <3>7 DEF Abort, Goto, CallersType
      <4>2. QED
        BY <1>1, <4>1 DEF DepthOK
    <3>8. CASE CallerRuns(s)
      <4>1. CASE shut
        BY <2>4, <3>8, <4>1 DEF CallerRuns
      <4>2. CASE ~shut
        <5>1. pc'[s] = "run" /\ UNCHANGED depth
          BY <1>1, <3>8, <4>2 DEF CallerRuns, Goto, CallersType
        <5>2. QED
          BY <2>3, <5>1
      <4>3. QED
        BY <4>1, <4>2
    <3>9. CASE DiscardOldest(s)
      <4>1. CASE shut
        BY <2>4, <3>9, <4>1 DEF DiscardOldest
      <4>2. CASE ~shut
        <5>1. /\ pc[s] = "reject" /\ pc'[s] = "core" /\ depth'[s] = depth[s] + 1
              /\ queue' = (IF queue = <<>> THEN <<>> ELSE Tail(queue))
              /\ dropped' = dropped \cup (IF queue = <<>> THEN {} ELSE {Head(queue)})
              /\ UNCHANGED <<running, finished>>
          BY <1>1, <3>9, <4>2 DEF DiscardOldest, Goto, Drop, CallersType, workers
        <5>2. depth[s] <= Level
          BY <1>3, <4>2, <5>1 DEF DepthOK
        <5>3. Level <= Cardinality(Ended')
          <6>1. CASE queue = <<>>
            BY <1>1, <1>2, <6>1 DEF Level
          <6>2. CASE queue # <<>>
            <7>1. Ended' = Ended \cup {Head(queue)}
              BY <5>1, <6>2 DEF Ended
            <7>2. Head(queue) \in Tasks /\ Head(queue) \in Places[1]
              BY <1>1, <6>2, TailOnce, PlacesAre
            <7>3. \A i \in {2, 3, 4} : Head(queue) \notin Places[i]
              BY <7>2, PlacesAre DEF TaskInv, OnePlace
            <7>4. Head(queue) \notin Ended
              BY <7>3, PlacesAre DEF Ended
            <7>5. Ended \in SUBSET Tasks
              BY EndedType DEF Inv
            <7>6. Cardinality(Ended') = Cardinality(Ended) + 1
              BY <7>1, <7>2, <7>4, <7>5, OneTask
            <7>7. QED
              BY <1>1, <6>2, <7>6 DEF Level
          <6>3. QED
            BY <6>1, <6>2
        <5>4. depth'[s] <= Cardinality(Ended') + 1
          BY <1>1, <1>2, <1>3, <5>1, <5>2, <5>3
        <5>5. Cardinality(Ended') + 1 <= MaxTasks
          <6>1. RoomForHeld'
            BY EndedWithoutHeld, PTL
          <6>2. QED
            BY <5>1, <6>1 DEF RoomForHeld
        <5>6. QED
          BY <1>1, <1>2, <1>3, <5>1, <5>4, <5>5 DEF DepthOK
      <4>3. QED
        BY <4>1, <4>2
    <3>10. CASE CountAndReturn(s)
      <4>1. pc'[s] \in {"idle", "return"} /\ depth'[s] = depth[s] - 1
        BY <1>1, <3>10 DEF CountAndReturn, Goto, CallersType
      <4>2. QED
        BY <1>1, <1>3, <4>1 DEF DepthOK
    <3>11. QED
      BY <1>5, <3>1, <3>2, <3>3, <3>4, <3>5, <3>6, <3>7, <3>8, <3>9, <3>10 DEF Execute
  <2>6. QED
    BY <1>1, <1>4, <2>1, <2>2, <2>5 DEF DepthInv
<1>6. CASE SetCapacity
  <2>1. UNCHANGED <<pc, depth>> /\ capacity' = plan.capacity /\ plan \in Configs
    BY <1>6 DEF SetCapacity, callers, Inv, CountInv
  <2>2. capacity' > 0
    BY <2>1 DEF PositiveCapacities
  <2>3. QED
    BY <1>4, <2>1, <2>2 DEF DepthInv
<1>7. CASE \/ Worker \/ (\E k \in running : Finish(k)) \/ SetCore \/ Prestart \/ SetMax \/ SetPolicy
           \/ BeginRefresh \/ Shutdown \/ UNCHANGED vars
  <2>1. UNCHANGED <<pc, depth, capacity>>
    BY <1>7 DEF Worker, Take, Decide, Leave, LeaveAtShutdown, Exit, Finish, SetCore, Prestart, SetMax,
       SetPolicy, BeginRefresh, Shutdown, vars, callers, settings
  <2>2. QED
    BY <1>1, <1>4, <2>1 DEF DepthInv
<1>8. QED
  BY <1>5, <1>6, <1>7 DEF Next, System, Refresh

\* While no capacity of 0 is published, no thread is ever in more calls of the discarding
\* policy than there are tasks: each is paid for by a task that ended, its own or another's.
THEOREM RecursionIsBounded == PositiveCapacities /\ Spec => []RecursionBounded
<1>1. Spec => []TaskInv
  BY Invariance, InitTasks, TasksStep, PTL DEF Spec
<1>2. DepthInv => RecursionBounded
  BY DEF DepthInv, DepthOK, RecursionBounded
<1>3. ASSUME PositiveCapacities PROVE Spec => []DepthInv
  <2>1. Init => DepthInv
    BY <1>3, InitDepth
  <2>2. Inv /\ Inv' /\ TaskInv /\ TaskInv' /\ DepthInv /\ [Next]_vars => DepthInv'
    BY <1>3, DepthStep
  <2>3. QED
    BY <1>1, <2>1, <2>2, Invariance, PTL DEF Spec
<1>4. ASSUME PositiveCapacities PROVE Spec => []RecursionBounded
  BY <1>2, <1>3, <1>4, PTL
<1>5. QED
  BY <1>4
=============================================================================
