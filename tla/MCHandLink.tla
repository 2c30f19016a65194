----------------------------- MODULE MCHandLink -----------------------------
(* A hand of two actuators, one of them disabled. *)
EXTENDS HandLink
=============================================================================
