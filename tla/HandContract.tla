---------------------------- MODULE HandContract ----------------------------
(***************************************************************************)
(* What one Hand is to the program that uses it: a call is refused, done   *)
(* at once, or waits for the control loop, which meanwhile goes its own    *)
(* way, and so does the cable.  HandCore has the same calls step by step,  *)
(* with every race inside them and the commands they stage; here a call is *)
(* its beginning, its end, and the confirmation it may store in between.   *)
(*                                                                         *)
(*   hand   the lifecycle, the control loop, the call that is under way    *)
(*          and the code of the last one ("-": no answer is waiting)       *)
(*   world  the cable, and what may still go wrong                         *)
(*                                                                         *)
(* A definition that no other uses is the one after it with a bug in it.   *)
(***************************************************************************)
EXTENDS Naturals, ActionCheck

CONSTANTS
  MaxCuts,      \* bound: times the cable is pulled out
  MaxTroubles   \* bound: waits for the drives that end without them

ASSUME HandContractAssumption == {MaxCuts, MaxTroubles} \subseteq Nat

VARIABLES hand, world

(* homingRuns: is_homing().  result: result_homing_.  publishing: the homing  *)
(* state the loop has still to store, "-" if none.  comm: check_communication_*)
(* loop: "up" while it receives, "silent" once it does not, "trying" inside  *)
(* try_reconnect_once(), "closed" after that failed, "gone" if there is none. *)
(* powered: some drive holds torque.  hurt: a fault or a trouble has         *)
(* happened.  early: the last call was refused while the loop was publishing. *)
Created(autoHome, autoReconnect) ==
  [requested |-> "Disconnected", observed |-> "Disconnected", homing |-> "NotRun",
   homingRuns |-> FALSE, result |-> FALSE, publishing |-> "-", comm |-> FALSE, loop |-> "gone",
   powered |-> FALSE, hurt |-> FALSE, destroyed |-> FALSE, call |-> "none", code |-> "-", early |-> FALSE,
   autoHome |-> autoHome, autoReconnect |-> autoReconnect]

HandInit(autoHome, autoReconnect) ==
  /\ hand = Created(autoHome, autoReconnect)
  /\ world = [cable |-> TRUE, cuts |-> MaxCuts, troubles |-> MaxTroubles]

-----------------------------------------------------------------------------
(* Calls *)

Waits == {"connect", "connected", "reconnect", "run", "running", "home", "stop", "disconnect", "destroy", "join"}
ActionOf ==
  [connect |-> "Connect", disconnect |-> "Disconnect", reconnect |-> "Reconnect", run |-> "Run",
   stop |-> "Stop", home |-> "Home", idle |-> "SetCommand", target |-> "SetCommand", nan |-> "SetCommand",
   set_tactile_bias |-> "SetTactileBias", reset_tactile_bias |-> "ResetTactileBias"]
Unchecked == {"set_max_effort", "set_controller_config", "get_state", "get_diagnostics", "destroy"}

(* Hand::invoke(): a handle whose core is gone is refused, then the table.  *)
Refusal(c) ==
  CASE c \in DOMAIN ActionOf ->
         CheckActionAllowed(ActionOf[c], hand.requested, hand.observed, hand.destroyed,
                            "ReceiveSilence", c = "idle" \/ hand.homing = "Succeeded")
    [] c \in Unchecked -> IF hand.destroyed /\ c # "destroy" THEN "WrongCallOrder" ELSE "None"

Answer(h, code) == hand' = [h EXCEPT !.call = "none", !.code = code]
Wait(h, c) == hand' = [h EXCEPT !.call = c]
Done == Answer(hand, "None")

Both(lifecycle) == hand.requested = lifecycle /\ hand.observed = lifecycle
ControlRequested == hand.requested \in {"Running", "Stopped"}
Closed(h) == [h EXCEPT !.requested = "Disconnected", !.observed = "Disconnected", !.comm = FALSE, !.loop = "gone"]
Exit(h) == Wait([h EXCEPT !.requested = "Disconnected"], "join")

(* request_control(): refused until a cycle has judged the link. *)
RequestControl(h, c) ==
  IF Both("Running") \/ hand.comm
  THEN Wait([h EXCEPT !.requested = "Running", !.homingRuns = @ \/ c = "home", !.result = @ /\ c # "home"], c)
  ELSE Answer(h, "CommunicationLost")
Home == RequestControl([hand EXCEPT !.homing = "InProgress"], "home")
Run == RequestControl(hand, "run")

DestroyAtOnce == IF hand.destroyed THEN Done ELSE Exit([hand EXCEPT !.destroyed = TRUE])
(* close(): a hand under control is asked to stop before the link is cut.   *)
Destroy ==
  IF hand.destroyed THEN Done
  ELSE IF ControlRequested /\ hand.observed # "Stopped"
       THEN Wait([hand EXCEPT !.destroyed = TRUE, !.requested = "Stopped"], "destroy")
       ELSE Exit([hand EXCEPT !.destroyed = TRUE])
Disconnect ==
  IF hand.observed = "Disconnected" THEN Done
  ELSE IF ControlRequested /\ hand.observed # "Stopped"
       THEN Wait([hand EXCEPT !.requested = "Stopped"], "disconnect")
       ELSE Exit(hand)

(* What a call that is not refused does before it waits. *)
Enter(c) ==
  CASE c = "set_tactile_bias" -> Answer(hand, IF hand.comm THEN "None" ELSE "CommunicationLost")
    [] c = "connect" -> IF Both("Connected") THEN Done ELSE Wait(hand, "connect")
    [] c = "reconnect" -> Wait([hand EXCEPT !.requested = "Disconnected"], "reconnect")
    [] c = "run" -> IF hand.autoHome /\ hand.homing # "Succeeded" THEN Home ELSE IF Both("Running") THEN Done ELSE Run
    [] c = "home" -> Home
    [] c = "stop" -> IF Both("Stopped") THEN Done ELSE Wait([hand EXCEPT !.requested = "Stopped"], "stop")
    [] c = "disconnect" -> Disconnect
    [] c = "destroy" -> Destroy
    [] OTHER -> Done
Begin(c) ==
  IF Refusal(c) = "None" THEN Enter(c)
  ELSE Answer([hand EXCEPT !.early = hand.publishing # "-"], Refusal(c))

-----------------------------------------------------------------------------
(* The end of a call that waits *)

Waiting(c) == hand.call = c
Settled == UNCHANGED world
(* A wait for the drives runs out: on a link that is up because they do not *)
(* follow, and on any other because nobody is there to see them follow.     *)
Trouble == world.cable /\ world.troubles > 0 /\ world' = [world EXCEPT !.troubles = @ - 1]
TimesOut == IF hand.loop = "up" THEN Trouble ELSE Settled
Unable == IF hand.comm THEN "HardwareFault" ELSE "CommunicationLost"

(* A connection that opens, and the two ways in which none does: no socket, *)
(* or no frame within 300 ms.  reconnect() stays Faulted without one.       *)
Opened(h) ==
  [h EXCEPT !.requested = "Connected", !.observed = "Connected", !.homing = "NotRun", !.comm = FALSE, !.loop = "up"]
Opens(h, failed) ==
  \/ world.cable /\ Wait(Opened(h), "connected")
  \/ ~world.cable /\ Answer([h EXCEPT !.observed = failed], "InterfaceUnavailable")
  \/ ~world.cable /\ Answer([Closed(h) EXCEPT !.observed = failed, !.homing = "NotRun"], "CommunicationLost")
ConnectEnds == Waiting("connect") /\ Opens(hand, "Disconnected") /\ Settled

(* The join: the loop takes the exit request at the head of its next pass.  *)
LoopHasLeft == hand.requested = "Disconnected" /\ hand.loop # "trying" /\ hand.publishing = "-"
ReconnectEnds ==
  /\ Waiting("reconnect") /\ LoopHasLeft /\ Settled
  /\ Opens([Closed(hand) EXCEPT !.homingRuns = FALSE], "Faulted")
JoinEnds == Waiting("join") /\ LoopHasLeft /\ Answer(Closed(hand), "None") /\ Settled

(* transition_to(): what the wait has seen is stored, over whatever the     *)
(* loop has stored since.                                                   *)
Confirm ==
  /\ hand.call \in {"connected", "running"} /\ Settled
  /\ Answer([hand EXCEPT !.observed = IF Waiting("connected") THEN "Connected" ELSE "Running"], "None")

Unconfirmed(h) == Answer([h EXCEPT !.hurt = TRUE], Unable)
RunReturns ==
  /\ Waiting("run") /\ Settled
  /\ Answer(hand, IF hand.observed = "Faulted" THEN Unable ELSE "None")
RunEnds ==
  /\ Waiting("run")
  /\ \/ hand.observed = "Running" /\ Wait(hand, "running") /\ Settled
     \/ hand.observed = "Faulted" /\ Answer([hand EXCEPT !.requested = "Stopped"], Unable) /\ Settled
     \/ /\ hand.observed \notin {"Running", "Faulted"} /\ TimesOut
        /\ \E some \in BOOLEAN : Unconfirmed([hand EXCEPT !.requested = "Stopped", !.powered = @ \/ some])
(* home() has no deadline. *)
HomeEnds ==
  /\ Waiting("home") /\ Settled
  /\ \/ hand.observed = "Faulted" /\ Answer(hand, "CommunicationLost")
     \/ hand.observed # "Faulted" /\ ~hand.homingRuns /\ Answer(hand, IF hand.result THEN "None" ELSE "HardwareFault")

(* A fault ends the wait for the quick stop early; close() goes on whatever *)
(* the drives do, the others leave the link open.                           *)
StopEnds ==
  /\ hand.call \in {"stop", "disconnect"}
  /\ \/ hand.observed = "Stopped" /\ Settled /\ IF Waiting("stop") THEN Done ELSE Exit(hand)
     \/ hand.observed = "Faulted" /\ Settled /\ Answer(hand, "CommunicationLost")
     \/ hand.observed \notin {"Stopped", "Faulted"} /\ TimesOut /\ Unconfirmed(hand)
DestroyEnds ==
  /\ Waiting("destroy")
  /\ \/ hand.observed \in {"Stopped", "Faulted"} /\ Settled /\ Exit(hand)
     \/ hand.observed \notin {"Stopped", "Faulted"} /\ TimesOut /\ Exit([hand EXCEPT !.hurt = TRUE])

CallEnds == ConnectEnds \/ ReconnectEnds \/ JoinEnds \/ Confirm \/ RunEnds \/ HomeEnds \/ StopEnds \/ DestroyEnds

-----------------------------------------------------------------------------
(* The control loop *)

(* A pass is one step, but for the end of a homing, which a call may fall   *)
(* into: it is over before its state is stored.                             *)
Passes == hand.loop \in {"up", "silent", "closed"} /\ hand.requested # "Disconnected" /\ hand.publishing = "-"
Observes == Passes /\ hand.observed # "Faulted"
Follows == Observes /\ hand.loop = "up" /\ world.cable

LinkJudged ==
  /\ Observes /\ world.cable /\ hand.loop # "closed" /\ ~(hand.comm /\ hand.loop = "up") /\ Settled
  /\ hand' = [hand EXCEPT !.comm = TRUE, !.loop = "up"]
Cancelled(h) == [h EXCEPT !.homingRuns = FALSE, !.result = FALSE, !.homing = "Failed"]
Fault(h) == [h EXCEPT !.observed = "Faulted", !.comm = FALSE, !.hurt = TRUE]
(* Only the first cycle of a silence faults.  Its quick stop cancels the    *)
(* homing, unless that was asked for in this very cycle.                    *)
LinkLost ==
  /\ Observes /\ ~world.cable /\ hand.loop = "up" /\ Settled
  /\ LET lost == [Fault(hand) EXCEPT !.loop = "silent"]
     IN \/ hand' = lost
        \/ hand.homingRuns /\ hand' = Cancelled(lost)
(* A frame that cannot be sent, which a cable that is out may or may not    *)
(* show, and a socket that is closed.                                       *)
SendFails ==
  /\ Observes /\ hand.requested = "Running" /\ (~world.cable \/ hand.loop = "closed") /\ Settled
  /\ hand' = Fault(hand)
DrivesEnabled ==
  /\ Follows /\ hand.requested = "Running" /\ hand.observed # "Running" /\ Settled
  /\ hand' = [hand EXCEPT !.observed = "Running", !.powered = TRUE]
DrivesStopped ==
  /\ Follows /\ hand.requested = "Stopped" /\ hand.observed # "Stopped" /\ ~hand.homingRuns /\ Settled
  /\ hand' = [hand EXCEPT !.observed = "Stopped", !.powered = FALSE]

(* The three stores of watch_homing(): result and flag, then the state.  A  *)
(* loop without a socket finds the verdict of an earlier homing.            *)
HomingOver(h, ok) ==
  [h EXCEPT !.result = ok, !.homingRuns = FALSE, !.publishing = IF ok THEN "Succeeded" ELSE "Failed"]
HomingSucceeds ==
  /\ Passes /\ hand.loop \in {"up", "closed"} /\ hand.homingRuns /\ Settled
  /\ hand.requested = "Running" /\ hand.observed \in {"Running", "Faulted"}
  /\ hand' = HomingOver(hand, TRUE)
HomingFails ==
  /\ Observes /\ hand.homingRuns /\ hand.requested = "Running" /\ TimesOut
  /\ hand' = [HomingOver(hand, FALSE) EXCEPT !.powered = TRUE, !.hurt = TRUE]
(* The request falls into a cycle that began before control was asked for.  *)
HomingMissed ==
  /\ Observes /\ hand.homingRuns /\ Waiting("home") /\ hand.observed # "Running" /\ Settled
  /\ hand' = HomingOver(hand, FALSE)
HomingCancelled == Observes /\ hand.homingRuns /\ hand.requested = "Stopped" /\ Settled /\ hand' = Cancelled(hand)
HomingPublished ==
  /\ hand.publishing # "-" /\ Settled
  /\ hand' = [hand EXCEPT !.homing = hand.publishing, !.publishing = "-"]

(* A fault ends the loop, unless it recovers on its own. *)
LoopLeaves ==
  /\ Passes /\ hand.observed = "Faulted" /\ ~hand.autoReconnect /\ Settled
  /\ hand' = [hand EXCEPT !.loop = "gone"]

(* try_reconnect_once(), with auto_reconnect_home.  It ends by asking for   *)
(* Running whatever has been asked for meanwhile.                           *)
RetryStarts ==
  /\ Passes /\ hand.observed = "Faulted" /\ hand.autoReconnect /\ Settled
  /\ hand' = [hand EXCEPT !.loop = "trying"]
RetryFails == hand.loop = "trying" /\ ~world.cable /\ hand' = [hand EXCEPT !.loop = "closed"] /\ Settled
RetrySucceeds ==
  /\ hand.loop = "trying" /\ world.cable /\ Settled
  /\ hand' = [hand EXCEPT !.loop = "up", !.requested = "Running", !.observed = "Connected",
                          !.homing = "NotRun", !.homingRuns = TRUE, !.comm = FALSE]

ControlLoop == LinkJudged \/ LinkLost \/ DrivesEnabled \/ DrivesStopped \/ HomingSucceeds \/ HomingFails
               \/ HomingMissed \/ HomingCancelled \/ HomingPublished \/ LoopLeaves
               \/ RetryStarts \/ RetryFails \/ RetrySucceeds

-----------------------------------------------------------------------------
(* The cable *)

Cut == world.cable /\ world.cuts > 0 /\ world' = [world EXCEPT !.cable = FALSE, !.cuts = @ - 1] /\ UNCHANGED hand
Mend == ~world.cable /\ world' = [world EXCEPT !.cable = TRUE] /\ UNCHANGED hand

HandType ==
  /\ hand.requested \in Lifecycle \ {"Faulted"} /\ hand.observed \in Lifecycle
  /\ hand.homing \in {"NotRun", "InProgress", "Succeeded", "Failed"}
  /\ hand.publishing \in {"-", "Succeeded", "Failed"} /\ hand.loop \in {"up", "silent", "trying", "closed", "gone"}
  /\ hand.call \in Waits \cup {"none"} /\ hand.code \in ErrorCodes \cup {"-"}
  /\ world.cuts \in 0..MaxCuts /\ world.troubles \in 0..MaxTroubles

=============================================================================
