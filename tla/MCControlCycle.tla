--------------------------- MODULE MCControlCycle ---------------------------
(* Two counts, for the second of which no angle is solved; a unit of count  *)
(* is two of angle; one target in reach, one beyond it.                     *)
EXTENDS ControlCycle
MCFk == [c \in 0..1 |-> IF c = 1 THEN NaN ELSE 1]
MCIk == [a \in 0..4 |-> a \div 2]
MCReach == [t \in {4, 9} |-> 4]
MCInputs == {[kind |-> "Idle", target |-> 0], [kind |-> "JointPosition", target |-> 9],
             [kind |-> "JointImpedance", target |-> 4], [kind |-> "ActuatorPosition", target |-> 3],
             [kind |-> "ActuatorPosition", target |-> 5]}
=============================================================================
