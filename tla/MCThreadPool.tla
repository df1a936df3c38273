----------------------------- MODULE MCThreadPool -----------------------------
(***************************************************************************)
(* Instances of ThreadPool.                                                *)
(***************************************************************************)
EXTENDS ThreadPool

Setting(c, m, p, q) == [core |-> c, max |-> m, policy |-> p, capacity |-> q]

\* Every policy; core size and maximum grow and shrink, one new core size is above
\* an old maximum, one maximum below its core size is refused, and one capacity is
\* smaller than what the other may hold.
ManyConfigs == {Setting(0, 1, "DISCARD_OLDEST", 2), Setting(1, 1, "DISCARD_OLDEST", 1),
                Setting(2, 2, "ABORT", 1), Setting(1, 1, "DISCARD", 1),
                Setting(1, 1, "CALLER_RUNS", 1), Setting(2, 1, "DISCARD", 1)}

Oldest == {Setting(0, 1, "DISCARD_OLDEST", 2)}
=============================================================================
