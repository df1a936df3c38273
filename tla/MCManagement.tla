----------------------------- MODULE MCManagement -----------------------------
(***************************************************************************)
(* Instances of Management.                                                *)
(***************************************************************************)
EXTENDS Management

CONSTANTS A, B

TwoPools == <<A, B>>
\* Two entries of one pool, with the other in between.
ATwice   == <<A, B, A>>
\* Nothing but entries without a name.
Unnamed  == <<A, A>>
=============================================================================
