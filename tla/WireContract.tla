---------------------------- MODULE WireContract ----------------------------
(***************************************************************************)
(* What a hand promises to whoever watches its bus: which frame may be     *)
(* made next, from what was asked of the hand and what it has seen of its  *)
(* drives.  The first frame made after a stop is asked for is a stop, and  *)
(* what a fault leaves on the bus moves nothing.  The hand moves only on   *)
(* request: fingers are pushed to their stops for a homing that was asked  *)
(* for on this link, and a target goes out unless it was voided since.     *)
(***************************************************************************)
CONSTANT NeedsOrigin  \* a target goes out only after a homing on this link

VARIABLES
  wish,     \* the lifecycle that is asked for
  faulted,  \* a fault is observed
  frame,    \* the frame that is about to go out, or "none"
  origin,   \* a homing has finished on this link
  asked,    \* a homing was asked for on this link
  voided    \* the target set last does not count any more
vars == <<wish, faulted, frame, origin, asked, voided>>

(* A quick stop on request, or for a fault: neither moves the hand. *)
Stops == {"Stop", "QuickStop"}
Moves == {"Idle", "Hold", "HomeHold", "User", "Homing"}

Init ==
  /\ wish = "Disconnected" /\ faulted = FALSE /\ frame = "none"
  /\ origin = FALSE /\ asked = FALSE /\ voided = TRUE

(* The calls, and the recovery of the loop, ask for a lifecycle, *)
Asks ==
  /\ wish' \in {"Disconnected", "Connected", "Running", "Stopped"}
  /\ UNCHANGED <<frame, origin, asked, voided>>
(* for a homing, *)
AsksForHoming ==
  /\ asked' = TRUE
  /\ UNCHANGED <<wish, frame, origin, voided>>
(* and for a target, which only a hand that is asked to run takes. *)
AsksForTarget ==
  /\ wish = "Running" /\ (NeedsOrigin => origin)
  /\ voided' = FALSE
  /\ UNCHANGED <<wish, frame, origin, asked>>

(* A link that is opened begins with nothing. *)
OpensLink ==
  /\ frame = "none"
  /\ wish' \in {wish, "Connected", "Disconnected"}
  /\ origin' = FALSE /\ asked' = FALSE /\ voided' = TRUE
  /\ UNCHANGED frame

(* A frame is made, *)
Makes(kind) ==
  /\ frame = "none"
  /\ kind = "Stop" <=> wish # "Running"
  /\ kind = "Homing" => asked
  /\ kind = "User" => ~voided /\ (NeedsOrigin => origin)
  /\ frame' = kind
  /\ UNCHANGED <<wish, origin, asked, voided>>
(* and goes out, or is lost. *)
GoesOut ==
  /\ frame # "none" /\ frame' = "none"
  /\ voided' = (voided \/ (frame = "Stop" /\ wish # "Running"))
  /\ origin' \in IF frame = "Homing" THEN {origin, TRUE} ELSE {origin}
  /\ UNCHANGED <<wish, asked>>
(* A cycle without a link sends nothing, a loop that fails nothing but quick stops; both void the target. *)
EndsLoop ==
  /\ frame = "none"
  /\ voided' = TRUE
  /\ UNCHANGED <<wish, frame, origin, asked>>

Step ==
  \/ Asks \/ AsksForHoming \/ AsksForTarget \/ OpensLink
  \/ \E kind \in Stops \cup Moves : Makes(kind)
  \/ GoesOut \/ EndsLoop
  \/ UNCHANGED <<wish, frame, origin, asked, voided>>

(* A fault may come and go with every step, and no frame that moves the    *)
(* hand is there while it is observed.                                     *)
Next ==
  /\ Step
  /\ faulted' \in BOOLEAN
  /\ faulted' => frame' \notin Moves

Spec == Init /\ [][Next]_vars
=============================================================================
