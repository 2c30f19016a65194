----------------------------- MODULE MCHandCore -----------------------------
(***************************************************************************)
(* HandCore for TLC.  The configurations give Calls, the bounds and the    *)
(* HandConfig flags.                                                       *)
(***************************************************************************)
EXTENDS HandCore

CONSTANT d1

=============================================================================
