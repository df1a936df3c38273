--------------------------- MODULE MCConfigRefresh ---------------------------
(***************************************************************************)
(* Instances of ConfigRefresh.  Two pools that every startable             *)
(* configuration lists or drops, one name that appears only later.         *)
(***************************************************************************)
EXTENDS ConfigRefresh

CONSTANTS A, B, New, Abort_, Discard

E(p, core, max, keep, h, cap, q) ==
  [threadPoolName |-> p, corePoolSize |-> core, maximumPoolSize |-> max,
   keepAliveTime |-> keep, handler |-> h, queueCapacity |-> cap, queueType |-> q]

TwoPools    == <<E(A, 1, 2, 0, Abort_, 2, "dynamic"), E(B, 1, 1, 0, Abort_, 1, "array")>>
\* Other values, in another order, and B with a resizable queue.
Retuned     == <<E(B, 0, 2, 1, Discard, 2, "dynamic"), E(A, 2, 3, 1, Discard, 1, "dynamic")>>
\* A is listed twice, and B no more; the second entry has a capacity that setCapacity
\* accepts and the constructor, which does not see it, would refuse.
Twice       == <<E(A, 1, 2, 0, Abort_, 2, "dynamic"), E(A, 3, 3, 0, Discard, 0, "dynamic")>>
\* The maximum of A is below its core size; B comes after it.
CoreAbove   == <<E(A, 3, 2, 0, Abort_, 2, "dynamic"), E(B, 0, 1, 0, Discard, 1, "array")>>
\* The keep-alive time of B is negative.
Negative    == <<E(A, 2, 2, 0, Discard, 2, "dynamic"), E(B, 0, 1, -1, Abort_, 1, "array")>>
\* A pool the application did not start with.
Added       == <<E(New, 1, 1, 0, Abort_, 1, "synchronous"), E(A, 1, 1, 0, Abort_, 1, "dynamic")>>
AllConfigs  == {TwoPools, Retuned, Twice, CoreAbove, Negative, Added}

FewConfigs  == {TwoPools, Retuned, CoreAbove}
=============================================================================
