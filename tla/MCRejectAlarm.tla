---------------------------- MODULE MCRejectAlarm ----------------------------
(***************************************************************************)
(* Small instances of RejectAlarm: a pool whose maximum was set to 0, so   *)
(* that its active check always throws, comes first in the list, before    *)
(* one that is not watched and one with every alarm.                       *)
(***************************************************************************)
EXTENDS RejectAlarm, TLC

CONSTANTS s1, s2, zeroPool, plainPool, fullPool, mutedPool

MCSubmitters == {s1, s2}

Properties(enabled, max, activeThreshold, queueThreshold) ==
  [alarmEnable |-> enabled, maximumPoolSize |-> max,
   activeRateCapacityThreshold |-> activeThreshold,
   queueCapacityThreshold |-> queueThreshold]

MCList   == <<zeroPool, mutedPool, plainPool, fullPool>>
MCPools  == {zeroPool, mutedPool, plainPool, fullPool}
MCConfig == (zeroPool :> Properties(TRUE, 0, 80, -1)) @@ (plainPool :> Properties(TRUE, 1, -1, -1))
              @@ (mutedPool :> Properties(FALSE, 1, -1, -1))
              @@ (fullPool :> Properties(TRUE, 2, 80, 1))

ActiveOf2 == {0, 2}
Sizes     == {0, 2}
NoNotifier == {}
ListenerAndDatabase == {1, 2}

\* A pool of ten threads, for the threshold of 80 percent.
OnePool    == {plainPool}
JustOne    == <<plainPool>>
TenThreads == plainPool :> Properties(TRUE, 10, 80, -1)
AllActive  == 0..10
=============================================================================
