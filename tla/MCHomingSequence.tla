-------------------------- MODULE MCHomingSequence --------------------------
(***************************************************************************)
(* HomingSequence for TLC: the configuration names the actuators.          *)
(***************************************************************************)
EXTENDS HomingSequence

CONSTANTS a1, a2

=============================================================================
