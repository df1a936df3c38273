---------------------------- MODULE AtomicRefresh ----------------------------
(***************************************************************************)
(* What an application promises of a configuration: a published one is     *)
(* applied as a whole, in one step, and what that step does depends only   *)
(* on the pools and on the configuration.  The entries are applied in      *)
(* order up to the first one that the pool refuses, and that one up to the *)
(* first setting refused.  A restart applies the published configuration.  *)
(***************************************************************************)
EXTENDS PoolSettings

VARIABLES nacos,   \* the published configuration
          called,  \* the last one that was applied to the end
          pools,   \* the executors and their settings
          up       \* the application runs

vars == <<nacos, called, pools, up>>

Init == /\ nacos \in Configs /\ called = Missing
        /\ pools = [p \in Pools |-> Missing] /\ up = FALSE

-----------------------------------------------------------------------------
\* The k-th setter of an entry is reached and accepted.
TakesEffect(e, k) == \A j \in 1..k : ~SetterRefuses(Setters[j], e, e)

Accepts(P, e) == P[e.threadPoolName] # Missing /\ TakesEffect(e, Len(Setters))

\* The entries that are looked at: a refused one is the last.
Reached(P, c) == {j \in 1..Len(c) : \A i \in 1..(j - 1) : Accepts(P, c[i])}

\* Those of them that give setting s of pool p a value.
Giving(P, c, p, s) == {j \in Reached(P, c) :
  /\ c[j].threadPoolName = p
  /\ \E k \in 1..Len(Setters) : Setters[k] = s /\ TakesEffect(c[j], k)
  /\ SetterApplies(s, P[p])}

Latest(S) == CHOOSE j \in S : \A i \in S : i <= j

\* The pools afterwards: of the values given to a setting, the latest stays.
Applied(P, c) == [p \in Pools |->
  IF P[p] = Missing THEN Missing
  ELSE [s \in DOMAIN P[p] |->
          LET G == Giving(P, c, p, s)
          IN IF G = {} THEN P[p][s] ELSE c[Latest(G)][s]]]

AcceptsAll(P, c) == \A i \in 1..Len(c) : Accepts(P, c[i])

-----------------------------------------------------------------------------
Publish == nacos' \in Configs /\ UNCHANGED <<called, pools, up>>

\* Some published configuration, which may have been superseded meanwhile.
Refresh(c) ==
  /\ up
  /\ pools' = Applied(pools, c)
  /\ called' = IF AcceptsAll(pools, c) THEN c ELSE called
  /\ UNCHANGED <<nacos, up>>

Start == /\ ~up /\ Startable(nacos)
         /\ pools' = Created(nacos) /\ up' = TRUE
         /\ called' \in {nacos, Missing}
         /\ UNCHANGED nacos

Crash == up /\ up' = FALSE /\ UNCHANGED <<nacos, called, pools>>

Next == Publish \/ Start \/ Crash \/ \E c \in Configs : Refresh(c)

Spec == Init /\ [][Next]_vars
=============================================================================
