----------------------------- MODULE ActionCheck -----------------------------
(***************************************************************************)
(* The table that says in which lifecycle an API call of the hand is       *)
(* allowed, and the error code a refused call returns                      *)
(* (lifecycle/action_check.cpp).  The message texts are left out: only the *)
(* ErrorCode of the Status tells two answers apart here.                   *)
(***************************************************************************)

Lifecycle == {"Disconnected", "Connected", "Running", "Stopped", "Faulted"}

StopCauses == {"None", "ReceiveSilence", "TransmitFailure", "ControlLoopFailure"}

(* "None" is ErrorCode::None: the call is allowed, or has succeeded. *)
ErrorCodes == {"None", "WrongCallOrder", "CommunicationLost", "ControlLoopFault",
               "HardwareFault", "InterfaceUnavailable"}

AllowedStates ==
  [Connect         |-> {"Disconnected", "Connected"},
   Disconnect      |-> {"Disconnected", "Connected", "Running", "Stopped"},
   Run             |-> {"Connected", "Running", "Stopped"},
   Stop            |-> {"Running", "Stopped"},
   Home            |-> {"Connected", "Running", "Stopped"},
   Reconnect       |-> {"Faulted"},
   SetCommand      |-> {"Running"},
   SetTactileBias  |-> {"Connected", "Running", "Stopped"},
   ResetTactileBias |-> {"Connected", "Running", "Stopped"}]

HandAction == DOMAIN AllowedStates

(* A refusal in Faulted carries the code of the recorded cause. *)
FaultedCode(cause) ==
  IF cause \in {"ReceiveSilence", "TransmitFailure"} THEN "CommunicationLost" ELSE "ControlLoopFault"

(***************************************************************************)
(* Destroyed wins over everything; a fault is judged on the observed value *)
(* alone; every other state on the requested one, except that a command    *)
(* also needs the enable confirmed and the hand homed.                     *)
(***************************************************************************)
CheckActionAllowed(action, requested, observed, destroyed, cause, homed) ==
  CASE destroyed -> "WrongCallOrder"
    [] ~destroyed /\ observed = "Faulted" ->
         IF "Faulted" \in AllowedStates[action] THEN "None" ELSE FaultedCode(cause)
    [] ~destroyed /\ observed # "Faulted" ->
         IF /\ requested \in AllowedStates[action]
            /\ action = "SetCommand" => observed = "Running" /\ homed
         THEN "None" ELSE "WrongCallOrder"

=============================================================================
