-------------------------- MODULE MCResizableQueue --------------------------
(***************************************************************************)
(* Small instances of ResizableQueue for TLC.                              *)
(***************************************************************************)
EXTENDS ResizableQueue, TLC

CONSTANTS t1, t2, t3, a

MCThreads3 == {t1, t2, t3}
MCSymmetry == Permutations(MCThreads3)
OneElem    == {a}

Fixed2 == {2}
Resizable  == {0, 1, 2}

ExecutorOps == {"offer", "take", "pollTimed", "poll", "remove", "drainTo"}
=============================================================================
