--------------------- MODULE MCResizableQueueRefinement ---------------------
(***************************************************************************)
(* A small instance of the refinement: two distinguishable elements, so    *)
(* that their order shows.                                                 *)
(***************************************************************************)
EXTENDS ResizableQueueRefinement

CONSTANTS t1, t2, a, b

MCThreads  == {t1, t2}
TwoElems   == {a, b}
Fixed2     == {2}
LinearOps  == AllOps \ {"peek"}
=============================================================================
