------------------------------ MODULE HandCore ------------------------------
(***************************************************************************)
(* One robot hand: the API calls of the user thread (hand_core.cpp) and    *)
(* the realtime control loop (hand_core_control_thread.cpp), which share   *)
(* the atomics of HandCore and the staged command and nothing else.        *)
(*                                                                         *)
(*   hand   what both threads read and write: the atomics, the fault cause *)
(*          and the command (staged copy and one-place buffer)             *)
(*   comms  HandComms, owned by the control loop while it is alive         *)
(*   rt     the control loop: where it is in its cycle and its locals      *)
(*   user   the user thread: the call it is in, and the call's locals      *)
(*   env    the CAN link and the drives behind it                          *)
(*   seen   what has happened, kept for the properties only                *)
(*                                                                         *)
(* A step is at most one access that the other thread can observe, or      *)
(* several that no step of the other thread can tell apart.  Time is       *)
(* abstracted: a drive may take any number of frames to follow, and a wait *)
(* gives up at any moment after WaitCycles cycles of the loop.  0 covers   *)
(* every timing, a starved control loop included; a larger number leaves   *)
(* out the behaviours in which a wait ends before the loop could react.    *)
(*                                                                         *)
(* A definition that stands right before another of the same parameters    *)
(* and is used nowhere (StageWithoutWrite, KeepCommand, ...) is the        *)
(* other with a bug in it, which the properties are checked to notice.     *)
(***************************************************************************)
EXTENDS Naturals, FiniteSets, ActionCheck

CONSTANTS
  Drives,             \* the actuators neither disabled nor in a drive error
  Calls,              \* the API calls the user makes
  MaxCalls,           \* bound: how many of them
  MaxDrops,           \* bound: how often the CAN link goes down
  LossCycles,         \* cycles of silence that still count as receiving
  WaitCycles,         \* cycles every bounded wait of a call spans
  AutoReconnect,      \* HandConfig::auto_reconnect
  AutoReconnectHome,  \* HandConfig::auto_reconnect_home
  AutoReconnectLimit, \* auto_reconnect_timeout_ms > 0
  AutoHome,           \* HandConfig::auto_home
  LoopMayThrow        \* whether the exception handler of the loop can be reached

Procedures == {"connect", "disconnect", "reconnect", "close", "run", "stop",
               "home", "start_homing", "set_command"}

ASSUME HandCoreAssumption ==
  /\ IsFiniteSet(Drives)
  /\ Calls \subseteq Procedures
  /\ MaxCalls \in Nat /\ MaxDrops \in Nat /\ LossCycles \in Nat \ {0} /\ WaitCycles \in Nat
  /\ {AutoReconnect, AutoReconnectHome, AutoReconnectLimit, AutoHome, LoopMayThrow} \subseteq BOOLEAN

VARIABLES hand, comms, rt, user, env, seen
vars == <<hand, comms, rt, user, env, seen>>

(* What the hand is commanded to do, as far as the properties tell commands *)
(* apart: torque-free, hold the pose, hold the origin, or the user's own.   *)
Commands == {"Idle", "Hold", "HomeHold", "User"}

(* CiA 402, as the status bits show it: bit 5 low, bit 5 high, enabled. *)
DriveStates == {"low", "ready", "enabled"}

HomingStates == {"NotRun", "InProgress", "Succeeded", "Failed"}

Fresh == [requested |-> "Disconnected", observed |-> "Disconnected", cause |-> "None",
          homing |-> "NotRun", requestHoming |-> FALSE, activeHoming |-> FALSE,
          resultHoming |-> FALSE, requestHold |-> FALSE, checkComm |-> FALSE,
          checkFirst |-> FALSE, destroyed |-> FALSE, staged |-> "Idle", buffered |-> "Idle"]

(* A HandComms that holds no socket, and the one connect() leaves behind:   *)
(* everything observed on the last socket is forgotten, the outcome of the  *)
(* last homing is not.                                                      *)
Unopened == [socket |-> FALSE, rx |-> [d \in Drives |-> "low"], seenHigh |-> {},
             anyFrame |-> FALSE, silent |-> 0, homing |-> FALSE, outcome |-> "InProgress"]
Opened(c) == [Unopened EXCEPT !.socket = TRUE, !.outcome = c.outcome]
Closed(c) == [c EXCEPT !.socket = FALSE]

(* The control loop before its first cycle (LoopState).  What a cycle keeps *)
(* to itself returns to these values once the cycle is done with it.        *)
FreshLoop == [pc |-> "top", req |-> "Disconnected", obs |-> "Disconnected", command |-> "Idle",
              latest |-> "Disconnected", prevReceiving |-> TRUE, receiving |-> FALSE,
              writeOk |-> TRUE, store |-> "None"]

Init ==
  /\ hand = Fresh
  /\ comms = Unopened
  /\ rt = [FreshLoop EXCEPT !.pc = "none"]
  /\ user = [pc |-> "idle", call |-> "none", ret |-> "None", goal |-> "none",
             saved |-> "None", made |-> 0, waited |-> 0]
  /\ env = [up |-> TRUE, drops |-> 0, drive |-> [d \in Drives |-> "low"]]
  /\ seen = [origin |-> FALSE, asked |-> FALSE, voided |-> TRUE, late |-> 0]

-----------------------------------------------------------------------------
(* Helpers of both threads *)

(* staging_mutex_: the staged copy and the buffer change together. *)
StageWithoutWrite(h, command) ==
  IF command = "Idle" THEN [h EXCEPT !.staged = command] ELSE [h EXCEPT !.staged = command, !.buffered = command]
Stage(h, command) == [h EXCEPT !.staged = command, !.buffered = command]
NothingBuffered == "None"

ResetFaultState(h) ==
  [h EXCEPT !.cause = "None", !.requestHoming = FALSE, !.activeHoming = FALSE, !.requestHold = FALSE]

CheckAllowedUnhomed(action) ==
  CheckActionAllowed(action, hand.requested, hand.observed, hand.destroyed, hand.cause, TRUE)
CheckAllowed(action) ==
  CheckActionAllowed(action, hand.requested, hand.observed, hand.destroyed, hand.cause,
                     hand.homing = "Succeeded")

Request(h, lifecycle) == [h EXCEPT !.requested = lifecycle]
Observe(h, lifecycle) == [h EXCEPT !.observed = lifecycle]

ControlRequested == hand.requested \in {"Running", "Stopped"}

(* Ghost bookkeeping: from here on a frame that is not a quick stop is late. *)
StopAsked == [seen EXCEPT !.late = 0]

-----------------------------------------------------------------------------
(* The user thread: entering a call, moving through it, returning *)

At(label) == user.pc = label
Goto(label) == user' = [user EXCEPT !.pc = label, !.waited = 0]
Return(code) ==
  user' = [user EXCEPT !.pc = "idle", !.ret = code, !.call = "none", !.goal = "none",
                       !.saved = "None", !.waited = 0]

(* A wait that times out has watched WaitCycles cycles begin, or the loop   *)
(* is not running.                                                          *)
Alive == rt.pc \notin {"none", "dead"}
OutOfPatience == user.waited >= WaitCycles \/ ~Alive
Waiting == user.pc \in {"first frame", "confirm stop", "confirm run"}
CycleBegins ==
  user' = [user EXCEPT !.waited = IF Waiting /\ @ < WaitCycles THEN @ + 1 ELSE @]

Call ==
  /\ At("idle") /\ user.made < MaxCalls
  /\ \E c \in Calls :
       user' = [user EXCEPT !.pc = c, !.call = c, !.goal = c, !.ret = "None", !.made = @ + 1]
  /\ UNCHANGED <<hand, comms, rt, env, seen>>

(* A call that is refused, or finds its postcondition already confirmed. *)
Answer(label, code) ==
  /\ At(label) /\ Return(code)
  /\ UNCHANGED <<hand, comms, rt, env, seen>>

(* The error of a wait that ended without its confirmation.  A fault that   *)
(* ended it is the honest answer, then the link, then the drives.           *)
LinkCode == IF hand.checkComm THEN "HardwareFault" ELSE "CommunicationLost"
UnconfirmedCode(action) ==
  IF hand.observed = "Faulted" /\ CheckAllowed(action) # "None" THEN CheckAllowed(action) ELSE LinkCode

-----------------------------------------------------------------------------
(* connect() and reconnect() *)

(* The check passes, and then both atomics are loaded again, one after the  *)
(* other: the loop may store a fault, or recover from one, in between.      *)
ConnectRefused == CheckAllowed("Connect") # "None" /\ Answer("connect", CheckAllowed("Connect"))
ConnectChecked ==
  /\ At("connect") /\ CheckAllowed("Connect") = "None"
  /\ Goto("asked")
  /\ UNCHANGED <<hand, comms, rt, env, seen>>
ConnectAsked ==
  /\ At("asked")
  /\ Goto(IF hand.requested = "Connected" THEN "confirmed" ELSE "open")
  /\ UNCHANGED <<hand, comms, rt, env, seen>>
ConnectIgnored == hand.observed = "Connected" /\ Answer("confirmed", "None")
ConnectAgain ==
  /\ At("confirmed") /\ hand.observed # "Connected"
  /\ Goto("open")
  /\ UNCHANGED <<hand, comms, rt, env, seen>>

(* What a new link makes of the old observations.  A drive may have         *)
(* rebooted, and the staged command is put back into the buffer.            *)
NewLinkStillHomed(h) == [h EXCEPT !.checkFirst = FALSE, !.checkComm = FALSE, !.buffered = h.staged]
NewLink(h) ==
  [h EXCEPT !.checkFirst = FALSE, !.checkComm = FALSE, !.homing = "NotRun", !.buffered = h.staged]

(* What reconnect() makes of a connect() that failed. *)
ConnectFailsWithoutCause(h, code) ==
  /\ Return(code)
  /\ hand' = IF user.call = "reconnect" THEN Observe(h, "Faulted") ELSE h
ConnectFails(h, code) ==
  /\ Return(code)
  /\ hand' = IF user.call = "reconnect"
             THEN [h EXCEPT !.cause = user.saved, !.observed = "Faulted"] ELSE h

(* HandComms refuses to open a second socket. *)
SocketIsOpen ==
  /\ At("open") /\ comms.socket
  /\ ConnectFails(hand, "WrongCallOrder")
  /\ UNCHANGED <<comms, rt, env, seen>>

ConnectOpen ==
  /\ At("open") /\ ~comms.socket /\ rt.pc = "none"
  /\ comms' = Opened(comms)
  /\ hand' = Request(NewLink(hand), "Connected")
  /\ rt' = FreshLoop
  /\ Goto("first frame")
  /\ seen' = [seen EXCEPT !.origin = FALSE, !.asked = FALSE, !.voided = TRUE]
  /\ UNCHANGED env

(* No interface, no filters, or another master on the bus. *)
ConnectOpenFails ==
  /\ At("open") /\ ~comms.socket
  /\ ConnectFails(hand, "InterfaceUnavailable")
  /\ UNCHANGED <<comms, rt, env, seen>>

(* The socket opens but std::thread throws. *)
ConnectThreadFails ==
  /\ At("open") /\ ~comms.socket /\ rt.pc = "none"
  /\ comms' = Closed(Opened(comms))
  /\ ConnectFails(Observe(Request(NewLink(hand), "Disconnected"), "Disconnected"), "ControlLoopFault")
  /\ seen' = [seen EXCEPT !.origin = FALSE, !.asked = FALSE, !.voided = TRUE]
  /\ UNCHANGED <<rt, env>>

(* With a loop that is still to be joined, assigning its thread ends the    *)
(* process: what the two threads did inside HandComms until then is not     *)
(* modelled.                                                                *)
Terminates ==
  /\ At("open") /\ ~comms.socket /\ rt.pc # "none"
  /\ Goto("terminated")
  /\ UNCHANGED <<hand, comms, rt, env, seen>>

FirstFrameSeen ==
  /\ At("first frame") /\ hand.checkFirst
  /\ Goto("connected")
  /\ UNCHANGED <<hand, comms, rt, env, seen>>

FirstFrameMissedUnjoined ==
  /\ At("first frame") /\ ~hand.checkFirst /\ OutOfPatience
  /\ comms' = Closed(comms)
  /\ ConnectFails(Observe(Request(hand, "Disconnected"), "Disconnected"), "CommunicationLost")
  /\ UNCHANGED <<rt, env, seen>>
FirstFrameMissed ==
  /\ At("first frame") /\ ~hand.checkFirst /\ OutOfPatience
  /\ user' = [user EXCEPT !.pc = "leave", !.goal = "connect", !.waited = 0]
  /\ UNCHANGED <<hand, comms, rt, env, seen>>

ConnectSucceeds ==
  /\ At("connected")
  /\ hand' = Observe(hand, "Connected")
  /\ Return("None")
  /\ UNCHANGED <<comms, rt, env, seen>>

ReconnectRefused == CheckAllowed("Reconnect") # "None" /\ Answer("reconnect", CheckAllowed("Reconnect"))
ReconnectStart ==
  /\ At("reconnect") /\ CheckAllowed("Reconnect") = "None"
  /\ Goto("leave")
  /\ UNCHANGED <<hand, comms, rt, env, seen>>

(* stop_control_loop(), and what each caller does once the loop has ended. *)
LeaveWithoutRequest ==
  /\ At("leave")
  /\ Goto("join")
  /\ UNCHANGED <<hand, comms, rt, env, seen>>
Leave ==
  /\ At("leave")
  /\ hand' = Request(hand, "Disconnected")
  /\ Goto("join")
  /\ UNCHANGED <<comms, rt, env, seen>>

Join ==
  /\ At("join") /\ rt.pc \in {"dead", "none"}
  /\ rt' = [FreshLoop EXCEPT !.pc = "none"]
  /\ comms' = Closed(comms)
  /\ LET left == Observe(hand, "Disconnected") IN
     CASE user.goal = "connect"    -> ConnectFails(left, "CommunicationLost")
       [] user.goal = "reconnect"  -> /\ hand' = Stage(ResetFaultState(left), "Idle")
                                      /\ user' = [user EXCEPT !.pc = "connect", !.saved = hand.cause]
       [] user.goal = "disconnect" -> /\ hand' = [left EXCEPT !.checkFirst = FALSE, !.checkComm = FALSE]
                                      /\ Return("None")
       [] user.goal = "close"      -> hand' = left /\ Return("None")
  /\ UNCHANGED <<env, seen>>

-----------------------------------------------------------------------------
(* disconnect() and close() *)

DisconnectRefused == CheckAllowed("Disconnect") # "None" /\ Answer("disconnect", CheckAllowed("Disconnect"))
DisconnectIgnored ==
  CheckAllowed("Disconnect") = "None" /\ hand.observed = "Disconnected" /\ Answer("disconnect", "None")

(* The staged command is voided before the stop is asked for. *)
DisconnectReset ==
  /\ At("disconnect") /\ CheckAllowed("Disconnect") = "None" /\ hand.observed # "Disconnected"
  /\ hand' = Stage(hand, "Idle")
  /\ Goto("quiesce")
  /\ UNCHANGED <<comms, rt, env, seen>>

CloseIgnored == hand.destroyed /\ Answer("close", "None")
Close ==
  /\ At("close") /\ ~hand.destroyed
  /\ hand' = [hand EXCEPT !.destroyed = TRUE]
  /\ Goto("quiesce")
  /\ UNCHANGED <<comms, rt, env, seen>>

(* The link is not cut under a drive that may hold its last command. *)
Quiesce ==
  /\ At("quiesce")
  /\ IF ControlRequested /\ hand.observed # "Stopped"
     THEN hand' = Request(hand, "Stopped") /\ Goto("confirm stop") /\ seen' = StopAsked
     ELSE Goto("leave") /\ UNCHANGED <<hand, seen>>
  /\ UNCHANGED <<comms, rt, env>>

-----------------------------------------------------------------------------
(* stop() *)

StopRefused == CheckAllowed("Stop") # "None" /\ Answer("stop", CheckAllowed("Stop"))
StopIgnored ==
  /\ CheckAllowed("Stop") = "None" /\ hand.requested = "Stopped" /\ hand.observed = "Stopped"
  /\ Answer("stop", "None")
Stop ==
  /\ At("stop") /\ CheckAllowed("Stop") = "None"
  /\ ~(hand.requested = "Stopped" /\ hand.observed = "Stopped")
  /\ hand' = Request(hand, "Stopped") /\ seen' = StopAsked
  /\ Goto("void command")
  /\ UNCHANGED <<comms, rt, env>>
StopReset ==
  /\ At("void command")
  /\ hand' = Stage(hand, "Idle")
  /\ Goto("confirm stop")
  /\ UNCHANGED <<comms, rt, env, seen>>

(* wait_observed(Stopped): of stop(), disconnect() and close(). *)
StopConfirmed ==
  /\ At("confirm stop") /\ hand.observed = "Stopped"
  /\ IF user.call = "stop" THEN Return("None") ELSE Goto("leave")
  /\ UNCHANGED <<hand, comms, rt, env, seen>>
StopNotConfirmed ==
  /\ At("confirm stop") /\ hand.observed # "Stopped"
  /\ hand.observed = "Faulted" \/ OutOfPatience
  /\ CASE user.call = "stop"       -> Return(UnconfirmedCode("Stop"))
       [] user.call = "disconnect" -> Return(UnconfirmedCode("Disconnect"))
       [] user.call = "close"      -> Goto("leave")
  /\ UNCHANGED <<hand, comms, rt, env, seen>>

-----------------------------------------------------------------------------
(* run(), home() and start_homing() *)

BothRunning == hand.requested = "Running" /\ hand.observed = "Running"
HomeFirst == AutoHome /\ hand.homing # "Succeeded"

RunRefused == CheckAllowed("Run") # "None" /\ Answer("run", CheckAllowed("Run"))
RunIgnored == CheckAllowed("Run") = "None" /\ ~HomeFirst /\ BothRunning /\ Answer("run", "None")
Run ==
  /\ At("run") /\ CheckAllowed("Run") = "None" /\ (HomeFirst \/ ~BothRunning)
  /\ user' = IF HomeFirst THEN [user EXCEPT !.pc = "home", !.goal = "home"] ELSE [user EXCEPT !.pc = "control"]
  /\ UNCHANGED <<hand, comms, rt, env, seen>>

Homing == At("home") \/ At("start_homing")
HomeRefused == CheckAllowed("Home") # "None" /\ Homing /\ Answer(user.pc, CheckAllowed("Home"))
StartHoming ==
  /\ Homing /\ CheckAllowed("Home") = "None"
  /\ hand' = Stage([hand EXCEPT !.homing = "InProgress"], "Idle")
  /\ Goto("control")
  /\ UNCHANGED <<comms, rt, env, seen>>

(* request_control(): of run() and start_homing(). *)
AfterControl == IF user.goal = "run" THEN "confirm run" ELSE "request homing"
ControlHeld ==
  /\ At("control") /\ BothRunning
  /\ Goto(AfterControl)
  /\ UNCHANGED <<hand, comms, rt, env, seen>>
ControlRefused == ~BothRunning /\ ~hand.checkComm /\ Answer("control", "CommunicationLost")
ControlFromStopped ==
  /\ At("control") /\ ~BothRunning /\ hand.checkComm /\ hand.requested = "Stopped"
  /\ hand' = Stage(hand, "Idle")
  /\ Goto("hold")
  /\ UNCHANGED <<comms, rt, env, seen>>
RequestHold ==
  /\ At("hold")
  /\ hand' = [hand EXCEPT !.requestHold = TRUE]
  /\ Goto("request run")
  /\ UNCHANGED <<comms, rt, env, seen>>
ControlElsewhere ==
  /\ At("control") /\ ~BothRunning /\ hand.checkComm /\ hand.requested # "Stopped"
  /\ Goto("request run")
  /\ UNCHANGED <<hand, comms, rt, env, seen>>
RequestRun ==
  /\ At("request run")
  /\ hand' = Request(hand, "Running")
  /\ Goto(AfterControl)
  /\ UNCHANGED <<comms, rt, env, seen>>

(* wait_observed(Running), transition_to(Running). *)
RunConfirmed ==
  /\ At("confirm run") /\ hand.observed = "Running"
  /\ Goto("running")
  /\ UNCHANGED <<hand, comms, rt, env, seen>>
RunSucceeds ==
  /\ At("running")
  /\ hand' = Observe(hand, "Running")
  /\ Return("None")
  /\ UNCHANGED <<comms, rt, env, seen>>
RunNotConfirmed ==
  /\ At("confirm run") /\ hand.observed # "Running"
  /\ hand.observed = "Faulted" \/ OutOfPatience
  /\ hand' = Request(hand, "Stopped") /\ seen' = StopAsked
  /\ Goto("run failed")
  /\ UNCHANGED <<comms, rt, env>>
RunFails ==
  /\ At("run failed")
  /\ hand' = Stage(hand, "Idle")
  /\ Return(LinkCode)
  /\ UNCHANGED <<comms, rt, env, seen>>

RequestHoming ==
  /\ At("request homing")
  /\ hand' = [hand EXCEPT !.resultHoming = FALSE, !.requestHoming = TRUE]
  /\ seen' = [seen EXCEPT !.asked = TRUE]
  /\ IF user.goal = "home" THEN Goto("homing") ELSE Return("None")
  /\ UNCHANGED <<comms, rt, env>>

IsHoming == hand.requestHoming \/ hand.activeHoming

(* home() polls; its answer is read the moment the poll ends. *)
HomeCode ==
  IF hand.requested # "Running" \/ hand.observed = "Faulted"
  THEN IF CheckAllowed("Home") # "None" THEN CheckAllowed("Home") ELSE "WrongCallOrder"
  ELSE IF hand.resultHoming THEN "None" ELSE "HardwareFault"
HomeReturns ==
  /\ At("homing")
  /\ ~(hand.requested = "Running" /\ hand.observed # "Faulted" /\ IsHoming)
  /\ Return(HomeCode)
  /\ UNCHANGED <<hand, comms, rt, env, seen>>

-----------------------------------------------------------------------------
(* set_command() with a target: the check, then the store under the mutex *)

SetCommandRefused == CheckAllowed("SetCommand") # "None" /\ Answer("set_command", CheckAllowed("SetCommand"))
SetCommand ==
  /\ At("set_command") /\ CheckAllowed("SetCommand") = "None"
  /\ Goto("stage")
  /\ UNCHANGED <<hand, comms, rt, env, seen>>
StageCommand ==
  /\ At("stage")
  /\ hand' = Stage(hand, "User")
  /\ seen' = [seen EXCEPT !.voided = FALSE]
  /\ Return("None")
  /\ UNCHANGED <<comms, rt, env>>

-----------------------------------------------------------------------------
(* The control loop *)

InCycle(label) == rt.pc = label

(* The head of the while loop. *)
LoopTop ==
  /\ InCycle("top")
  /\ LET next(label) == rt' = [rt EXCEPT !.pc = label, !.req = hand.requested, !.obs = hand.observed] IN
     CASE hand.requested = "Disconnected" -> next("dead")
       [] hand.requested # "Disconnected" /\ hand.observed # "Faulted" -> next("input")
       [] hand.requested # "Disconnected" /\ hand.observed = "Faulted" ->
            IF AutoReconnect /\ hand.cause # "ControlLoopFailure" THEN next("reopen") ELSE next("dead")
  /\ CycleBegins
  /\ UNCHANGED <<hand, comms, env, seen>>

(* 1) Take the input: only Running reaches the wire. *)
TakeCommand ==
  /\ InCycle("input")
  /\ rt' = [rt EXCEPT !.pc = "request",
                      !.command = IF hand.buffered = NothingBuffered THEN @ ELSE hand.buffered]
  /\ hand' = [hand EXCEPT !.buffered = NothingBuffered]
  /\ UNCHANGED <<comms, user, env, seen>>

(* request_homing_.exchange(false), then the gate is acted on. *)
TakeHomingRequest ==
  /\ InCycle("request")
  /\ hand' = [hand EXCEPT !.requestHoming = FALSE]
  /\ rt' = [rt EXCEPT !.pc = IF hand.requestHoming THEN "start homing" ELSE "observe"]
  /\ UNCHANGED <<comms, user, env, seen>>
(* Without a socket HandComms refuses, and the loop does not look at that.  *)
StartSequence == IF comms.socket THEN [comms EXCEPT !.homing = TRUE, !.outcome = "InProgress"] ELSE comms
BeginHomingAnyway ==
  /\ InCycle("start homing")
  /\ comms' = StartSequence
  /\ hand' = [hand EXCEPT !.activeHoming = TRUE]
  /\ rt' = [rt EXCEPT !.pc = "observe"]
  /\ UNCHANGED <<user, env, seen>>
BeginHoming ==
  /\ InCycle("start homing")
  /\ IF rt.req = "Running"
     THEN /\ comms' = StartSequence
          /\ hand' = [hand EXCEPT !.activeHoming = TRUE]
     ELSE hand' = [hand EXCEPT !.homing = "Failed"] /\ UNCHANGED comms
  /\ rt' = [rt EXCEPT !.pc = "observe"]
  /\ UNCHANGED <<user, env, seen>>

(* 2) Observe the hand.  read() and write() do nothing without a socket.    *)
HighBit5 == {"ready", "enabled"}
Received(c) ==
  CASE ~c.socket -> c
    [] c.socket /\ env.up ->
         [c EXCEPT !.rx = env.drive, !.anyFrame = TRUE, !.silent = 0,
                   !.seenHigh = @ \cup {d \in Drives : env.drive[d] \in HighBit5}]
    [] c.socket /\ ~env.up -> [c EXCEPT !.silent = IF @ > LossCycles THEN @ ELSE @ + 1]

(* 3) watch_link(): the first frame is mirrored, a link that falls silent   *)
(* records the cause and, one store later, the fault.                       *)
Observation ==
  /\ InCycle("observe")
  /\ LET now == Received(comms)
         receiving == now.anyFrame /\ now.silent <= LossCycles
         silenced == now.anyFrame /\ rt.prevReceiving /\ ~receiving /\ rt.obs # "Faulted"
     IN /\ comms' = now
        /\ hand' = [hand EXCEPT !.checkFirst = @ \/ now.anyFrame,
                                !.cause = IF silenced THEN "ReceiveSilence" ELSE @]
        /\ rt' = [rt EXCEPT !.receiving = receiving,
                            !.prevReceiving = IF now.anyFrame THEN receiving ELSE @,
                            !.pc = IF silenced THEN "silence" ELSE "hold"]
  /\ UNCHANGED <<user, env, seen>>
SilenceFault ==
  /\ InCycle("silence")
  /\ hand' = Observe(hand, "Faulted")
  /\ rt' = [rt EXCEPT !.pc = "hold", !.obs = "Faulted"]
  /\ UNCHANGED <<comms, user, env, seen>>

(* 4) Control: the hold, then one frame if the session controls. *)
ControlSession == rt.req \in {"Running", "Stopped"} \/ rt.obs = "Faulted"
TakeHoldRequest ==
  /\ InCycle("hold")
  /\ hand' = [hand EXCEPT !.requestHold = FALSE]
  /\ rt' = [rt EXCEPT !.pc = IF hand.requestHold THEN "stage hold"
                             ELSE IF ControlSession THEN "latest" ELSE "link", !.writeOk = TRUE]
  /\ UNCHANGED <<comms, user, env, seen>>
StageHold ==
  /\ InCycle("stage hold")
  /\ hand' = Stage(hand, "Hold")
  /\ rt' = [rt EXCEPT !.pc = IF ControlSession THEN "latest" ELSE "link"]
  /\ UNCHANGED <<comms, user, env, seen>>
ReadLatestAtTop ==
  /\ InCycle("latest")
  /\ rt' = [rt EXCEPT !.pc = "send", !.latest = rt.req]
  /\ UNCHANGED <<hand, comms, user, env, seen>>
ReadLatest ==
  /\ InCycle("latest")
  /\ rt' = [rt EXCEPT !.pc = "send", !.latest = hand.requested]
  /\ UNCHANGED <<hand, comms, user, env, seen>>

QuickStopOnRequest == rt.latest # "Running"
QuickStopOnceStopped == rt.obs \in {"Stopped", "Faulted"}
QuickStop == rt.latest # "Running" \/ rt.obs = "Faulted"
(* What the frame about to go out makes the drives do. *)
FrameKind ==
  IF QuickStop THEN "QuickStop"
  ELSE IF comms.homing THEN "Homing"
  ELSE IF rt.req = "Running" THEN rt.command ELSE "Idle"

(* The drives follow the control word when they get to it, or later.        *)
(* Without a socket the errno that the loop looks at is that of the last    *)
(* send, which may have been a full queue.                                  *)
Follow(state) ==
  IF QuickStop THEN {state, "low"}
  ELSE {state} \cup (CASE state = "low" -> {"ready"} [] state \in HighBit5 -> {"enabled"})
Sends(result) ==
  \/ /\ comms.socket /\ env.up /\ result = "sent"
     /\ \E f \in [Drives -> DriveStates] :
          /\ \A d \in Drives : f[d] \in Follow(env.drive[d])
          /\ env' = [env EXCEPT !.drive = f]
  \/ comms.socket /\ ~env.up /\ UNCHANGED env
  \/ ~comms.socket /\ result # "sent" /\ UNCHANGED env

(* A quick stop cancels homing; otherwise the sequence advances, and may    *)
(* end; it succeeds only with a drive that took part.  Its stages are the   *)
(* subject of HomingSequence.                                               *)
AdvanceHoming(c) ==
  IF ~c.homing \/ ~c.socket THEN {c}
  ELSE IF QuickStop THEN {[c EXCEPT !.homing = FALSE]}
  ELSE {c} \cup {[c EXCEPT !.homing = FALSE, !.outcome = o] :
                  o \in IF c.seenHigh = {} THEN {"Failed"} ELSE {"Succeeded", "Failed"}}

Send ==
  /\ InCycle("send")
  /\ comms' \in AdvanceHoming(comms)
  /\ \E result \in {"sent", "full", "error"} :
       /\ Sends(result)
       /\ LET faults == result = "error" /\ rt.latest = "Running" /\ rt.obs # "Faulted" IN
          /\ hand' = [hand EXCEPT !.cause = IF faults THEN "TransmitFailure" ELSE @]
          /\ rt' = [rt EXCEPT !.writeOk = result # "error",
                              !.pc = IF faults THEN "write fault" ELSE "link"]
  /\ seen' = [seen EXCEPT !.origin = @ \/ (comms.homing /\ comms'.outcome = "Succeeded"),
                          !.voided = @ \/ (rt.latest # "Running" /\ hand.requested # "Running"),
                          !.late = IF comms.socket /\ ~QuickStop /\ hand.requested = "Stopped" /\ @ < 2 THEN @ + 1 ELSE @]
  /\ UNCHANGED user
WriteFault ==
  /\ InCycle("write fault")
  /\ hand' = Observe(hand, "Faulted")
  /\ rt' = [rt EXCEPT !.pc = "link", !.obs = "Faulted"]
  /\ UNCHANGED <<comms, user, env, seen>>

(* 5) Judge the link, the drives and the homing. *)
JudgeLink ==
  /\ InCycle("link")
  /\ hand' = [hand EXCEPT !.checkComm = rt.receiving /\ (ControlSession => rt.writeOk)]
  /\ rt' = [FreshLoop EXCEPT !.pc = "drives", !.command = rt.command, !.receiving = rt.receiving,
                             !.prevReceiving = rt.prevReceiving]
  /\ UNCHANGED <<comms, user, env, seen>>

DrivesEnabled == \A d \in Drives : comms.rx[d] = "enabled"
QuickStopAttained == \A d \in comms.seenHigh : comms.rx[d] = "low"

(* watch_drive_state(): both atomics are loaded, the verdict stored after;  *)
(* a confirmation that follows "Connected" in one pass overwrites it.       *)
DriveVerdict ==
  CASE hand.observed = "Faulted" -> "None"
    [] hand.observed # "Faulted" /\ rt.receiving /\ hand.requested = "Running"
         /\ hand.observed # "Running" /\ DrivesEnabled -> "Running"
    [] hand.observed # "Faulted" /\ rt.receiving /\ hand.requested = "Stopped"
         /\ hand.observed # "Stopped" /\ QuickStopAttained -> "Stopped"
    [] OTHER -> IF hand.observed = "Disconnected" /\ comms.anyFrame THEN "Connected" ELSE "None"
JudgeDrives ==
  /\ InCycle("drives")
  /\ rt' = [rt EXCEPT !.store = DriveVerdict, !.receiving = FALSE, !.pc = IF DriveVerdict = "None" THEN "homed" ELSE "verdict"]
  /\ UNCHANGED <<hand, comms, user, env, seen>>
StoreVerdict ==
  /\ InCycle("verdict")
  /\ hand' = Observe(hand, rt.store)
  /\ rt' = [rt EXCEPT !.pc = "homed", !.store = "None"]
  /\ UNCHANGED <<comms, user, env, seen>>

(* watch_homing(): the result, then the flag, then the state, then the hold. *)
HomingEnded == hand.activeHoming /\ ~comms.homing
HomingResult ==
  /\ InCycle("homed")
  /\ hand' = IF HomingEnded THEN [hand EXCEPT !.resultHoming = comms.outcome = "Succeeded"] ELSE hand
  /\ rt' = [rt EXCEPT !.pc = IF HomingEnded THEN "homing over" ELSE "top"]
  /\ UNCHANGED <<comms, user, env, seen>>
HomingOver ==
  /\ InCycle("homing over")
  /\ hand' = [hand EXCEPT !.activeHoming = FALSE]
  /\ rt' = [rt EXCEPT !.pc = "homing state"]
  /\ UNCHANGED <<comms, user, env, seen>>
HomingState ==
  /\ InCycle("homing state")
  /\ hand' = [hand EXCEPT !.homing = IF comms.outcome = "Succeeded" THEN "Succeeded" ELSE "Failed"]
  /\ rt' = [rt EXCEPT !.pc = IF comms.outcome = "Succeeded" THEN "stage origin" ELSE "top"]
  /\ UNCHANGED <<comms, user, env, seen>>
StageOrigin ==
  /\ InCycle("stage origin")
  /\ hand' = Stage(hand, "HomeHold")
  /\ rt' = [rt EXCEPT !.pc = "top"]
  /\ UNCHANGED <<comms, user, env, seen>>

(* handle_control_loop_failure(): the cause, the fault, thirty quick stops. *)
(* The try block is the whole loop; from the frame to the hold of the       *)
(* origin it only copies arrays, loads and stores atomics, sends, and       *)
(* pushes to the ring, none of which throws.                                *)
Recovering == {"reopen", "await frame", "forget fault", "forget command", "resume", "recovered"}
Throwing ==
  {"top", "input", "request", "start homing", "observe", "hold", "stage hold", "latest", "stage origin"}
    \cup Recovering
LoopThrows ==
  /\ LoopMayThrow /\ rt.pc \in Throwing
  /\ hand' = [hand EXCEPT !.cause = "ControlLoopFailure"]
  /\ rt' = [rt EXCEPT !.pc = "failed"]
  /\ UNCHANGED <<comms, user, env, seen>>
LoopFails ==
  /\ InCycle("failed")
  /\ hand' = Observe(hand, "Faulted")
  /\ rt' = [rt EXCEPT !.pc = "last words", !.obs = "Faulted"]
  /\ UNCHANGED <<comms, user, env, seen>>
LastQuickStops ==
  /\ InCycle("last words")
  /\ comms' = [comms EXCEPT !.homing = @ /\ ~comms.socket]
  /\ rt' = [rt EXCEPT !.pc = "dead"]
  /\ \E result \in {"sent", "full", "error"} : Sends(result)
  /\ seen' = [seen EXCEPT !.voided = TRUE]
  /\ UNCHANGED <<hand, user>>

-----------------------------------------------------------------------------
(* try_reconnect_once() *)

Reopen ==
  /\ InCycle("reopen")
  /\ comms' = Opened(comms)
  /\ rt' = [rt EXCEPT !.pc = "await frame"]
  /\ seen' = [seen EXCEPT !.origin = FALSE, !.asked = FALSE, !.voided = TRUE]
  /\ UNCHANGED <<hand, user, env>>
ReopenFails ==
  /\ InCycle("reopen")
  /\ comms' = Closed(comms)
  /\ rt' = [rt EXCEPT !.pc = "top"]
  /\ UNCHANGED <<hand, user, env, seen>>
GiveUp ==
  /\ AutoReconnectLimit /\ InCycle("reopen")
  /\ rt' = [rt EXCEPT !.pc = "dead"]
  /\ UNCHANGED <<hand, comms, user, env, seen>>
AwaitFrame ==
  /\ InCycle("await frame")
  /\ comms' = IF env.up THEN Received(comms) ELSE Closed(comms)
  /\ rt' = [rt EXCEPT !.pc = IF env.up THEN "forget fault" ELSE "top"]
  /\ UNCHANGED <<hand, user, env, seen>>
ForgetFault ==
  /\ InCycle("forget fault")
  /\ hand' = [ResetFaultState(hand) EXCEPT !.checkComm = FALSE, !.homing = "NotRun"]
  /\ rt' = [rt EXCEPT !.pc = "forget command"]
  /\ UNCHANGED <<comms, user, env, seen>>
KeepCommand ==
  /\ InCycle("forget command")
  /\ hand' = [hand EXCEPT !.requestHoming = @ \/ AutoReconnectHome]
  /\ seen' = [seen EXCEPT !.asked = @ \/ AutoReconnectHome]
  /\ rt' = [rt EXCEPT !.pc = "resume"]
  /\ UNCHANGED <<comms, user, env>>
ForgetCommand ==
  /\ InCycle("forget command")
  /\ hand' = [Stage(hand, "Idle") EXCEPT !.requestHoming = @ \/ AutoReconnectHome]
  /\ seen' = [seen EXCEPT !.asked = @ \/ AutoReconnectHome]
  /\ rt' = [rt EXCEPT !.pc = "resume"]
  /\ UNCHANGED <<comms, user, env>>
Resume ==
  /\ InCycle("resume")
  /\ hand' = Request(hand, "Running")
  /\ rt' = [rt EXCEPT !.pc = "recovered"]
  /\ UNCHANGED <<comms, user, env, seen>>
Recovered ==
  /\ InCycle("recovered")
  /\ hand' = Observe(hand, "Connected")
  /\ rt' = [rt EXCEPT !.pc = "top", !.prevReceiving = TRUE]
  /\ UNCHANGED <<comms, user, env, seen>>

-----------------------------------------------------------------------------
(* The link *)

LinkDown ==
  /\ env.up /\ env.drops < MaxDrops
  /\ env' = [env EXCEPT !.up = FALSE, !.drops = @ + 1]
  /\ UNCHANGED <<hand, comms, rt, user, seen>>
LinkUp ==
  /\ ~env.up
  /\ env' = [env EXCEPT !.up = TRUE]
  /\ UNCHANGED <<hand, comms, rt, user, seen>>

-----------------------------------------------------------------------------
(* The system *)

ConnectStep == ConnectRefused \/ ConnectChecked \/ ConnectAsked \/ ConnectIgnored \/ ConnectAgain
               \/ SocketIsOpen \/ ConnectOpen \/ ConnectOpenFails \/ ConnectThreadFails \/ Terminates
               \/ FirstFrameSeen \/ FirstFrameMissed \/ ConnectSucceeds
LeaveStep == ReconnectRefused \/ ReconnectStart \/ DisconnectRefused \/ DisconnectIgnored
             \/ DisconnectReset \/ CloseIgnored \/ Close \/ Quiesce \/ Leave \/ Join
StopStep == StopRefused \/ StopIgnored \/ Stop \/ StopReset \/ StopConfirmed \/ StopNotConfirmed
RunStep == RunRefused \/ RunIgnored \/ Run \/ ControlHeld \/ ControlRefused \/ ControlFromStopped
           \/ RequestHold \/ ControlElsewhere \/ RequestRun \/ RunConfirmed \/ RunSucceeds
           \/ RunNotConfirmed \/ RunFails
HomeStep == HomeRefused \/ StartHoming \/ RequestHoming \/ HomeReturns
CommandStep == SetCommandRefused \/ SetCommand \/ StageCommand
InCall == ConnectStep \/ LeaveStep \/ StopStep \/ RunStep \/ HomeStep \/ CommandStep

CycleStep == LoopTop \/ TakeCommand \/ TakeHomingRequest \/ BeginHoming \/ Observation
             \/ SilenceFault \/ TakeHoldRequest \/ StageHold \/ ReadLatest \/ Send \/ WriteFault
             \/ JudgeLink \/ JudgeDrives \/ StoreVerdict \/ HomingResult \/ HomingOver
             \/ HomingState \/ StageOrigin
FailureStep == LoopThrows \/ LoopFails \/ LastQuickStops
RecoveryStep == Reopen \/ ReopenFails \/ GiveUp \/ AwaitFrame \/ ForgetFault \/ ForgetCommand
                \/ Resume \/ Recovered
ControlLoop == ~At("terminated") /\ (CycleStep \/ FailureStep \/ RecoveryStep)

Next == Call \/ InCall \/ ControlLoop \/ LinkDown \/ LinkUp

Spec == Init /\ [][Next]_vars

(***************************************************************************)
(* The scheduler runs both threads, and a homing that is being advanced    *)
(* ends: every stage of HomingSequence has a budget of cycles.  Nothing is *)
(* assumed of the link, the drives, or of the user making another call.    *)
(***************************************************************************)
HomingEnds == Send /\ comms.homing /\ ~comms'.homing
FairSpec == Spec /\ WF_vars(InCall) /\ WF_vars(ControlLoop) /\ SF_vars(HomingEnds)

-----------------------------------------------------------------------------
(* Properties *)

UserLabels == Procedures \cup
  {"idle", "asked", "confirmed", "open", "terminated", "first frame", "connected", "leave", "join", "quiesce", "confirm stop", "void command",
   "control", "hold", "request run", "confirm run", "running", "run failed", "request homing",
   "homing", "stage"}
LoopLabels ==
  {"none", "dead", "top", "input", "request", "start homing", "observe", "silence", "hold",
   "stage hold", "latest", "send", "write fault", "link", "drives", "verdict", "homed",
   "homing over", "homing state", "stage origin", "failed", "last words", "reopen", "await frame",
   "forget fault", "forget command", "resume", "recovered"}

HandType ==
  [requested : Lifecycle \ {"Faulted"}, observed : Lifecycle, cause : StopCauses,
   homing : HomingStates, requestHoming : BOOLEAN, activeHoming : BOOLEAN, resultHoming : BOOLEAN,
   requestHold : BOOLEAN, checkComm : BOOLEAN, checkFirst : BOOLEAN, destroyed : BOOLEAN,
   staged : Commands, buffered : Commands \cup {NothingBuffered}]
CommsType ==
  [socket : BOOLEAN, rx : [Drives -> DriveStates], seenHigh : SUBSET Drives, anyFrame : BOOLEAN,
   silent : 0..LossCycles + 1, homing : BOOLEAN, outcome : {"InProgress", "Succeeded", "Failed"}]
LoopType ==
  [pc : LoopLabels, req : Lifecycle, obs : Lifecycle, command : Commands, latest : Lifecycle,
   prevReceiving : BOOLEAN, receiving : BOOLEAN, writeOk : BOOLEAN, store : Lifecycle \cup {"None"}]
UserType ==
  [pc : UserLabels, call : Procedures \cup {"none"}, ret : ErrorCodes,
   goal : Procedures \cup {"none"}, saved : StopCauses,
   made : 0..MaxCalls, waited : 0..WaitCycles]
EnvType == [up : BOOLEAN, drops : 0..MaxDrops, drive : [Drives -> DriveStates]]
SeenType == [origin : BOOLEAN, asked : BOOLEAN, voided : BOOLEAN, late : 0..2]

(* Every variable has the type its declaration in HandCore gives it; in     *)
(* particular Faulted is observed and never requested.                      *)
TypeOK ==
  /\ hand \in HandType /\ comms \in CommsType /\ rt \in LoopType
  /\ user \in UserType /\ env \in EnvType /\ seen \in SeenType

(* homing_state_ says Succeeded only if a homing finished on the socket     *)
(* that is open: a new link may mean a rebooted drive, and the success of   *)
(* an earlier session must not survive in it.  Only a loop that recovers on *)
(* its own opens the socket first and clears the state after it.            *)
HomedOnThisLink ==
  hand.homing = "Succeeded" /\ comms.socket /\ rt.pc \notin {"await frame", "forget fault"} => seen.origin

(* The sequence, which pushes the fingers to their stops, runs only if it   *)
(* was asked for on this link: a request left over from an earlier session  *)
(* is dropped by the first cycle of the next one.                           *)
HomingWasAsked == comms.homing => seen.asked

(* After a requested stop has gone out, or the link has been reopened, no   *)
(* target set before goes out again: the user has to set a new one.         *)
VoidedCommandStaysOff == InCycle("send") /\ comms.socket /\ FrameKind = "User" => ~seen.voided

(* A target the user set goes out only on a link on which homing finished.  *)
TargetsNeedOrigin == InCycle("send") /\ comms.socket /\ FrameKind = "User" => seen.origin

(* Whoever sees Faulted finds the cause that put the hand there, because    *)
(* the cause is written first, and restored first when reconnect() fails.   *)
FaultHasCause == hand.observed = "Faulted" => hand.cause # "None"

(* connect() gets to the assignment of rt_thread_ only once the last loop   *)
(* has been joined, whatever the loop stores between the loads of connect():*)
(* assigning to a joinable std::thread ends the process.  A loop that is    *)
(* not joined yet has its socket open, unless it recovers on its own.       *)
OneControlLoop == At("open") /\ ~comms.socket => rt.pc = "none"

(* Once Stopped is requested, at most one frame that is not a quick stop    *)
(* still goes out: the one whose cycle had read the request already.        *)
StopReachesTheWire == seen.late <= 1

(* While the loop controls, a fault it has stored is on the wire: no frame  *)
(* that moves the hand goes out under an observed Faulted.                  *)
FaultQuickStops == InCycle("send") /\ hand.observed = "Faulted" => FrameKind = "QuickStop"

(* Every call returns, unless the process ends: a wait gives up, a join     *)
(* finds the loop ended, and home() sees its homing end.                    *)
CallsReturn == ~At("idle") ~> At("idle") \/ At("terminated")

-----------------------------------------------------------------------------
(* What the documentation and the comments promise of single calls *)

Answers(call, codes) == user.call = call /\ ~At("idle") /\ user'.pc = "idle" /\ user'.ret \in codes

(* Only reconnect(), or destroying the hand, takes it out of Faulted. *)
FaultedUntilReconnect ==
  [][hand.observed = "Faulted" /\ hand'.observed # "Faulted" => user.call \in {"reconnect", "close"}]_vars

(* A stop() that succeeds has the drives in quick stop. *)
StopIsConfirmed == [][Answers("stop", {"None"}) => \A d \in Drives : env.drive[d] # "enabled"]_vars

(* A run() that succeeds has the drives enabled. *)
RunIsConfirmed == [][Answers("run", {"None"}) => \A d \in Drives : env.drive[d] = "enabled"]_vars

(* A home() that blames the hardware has seen the homing fail. *)
HomeErrorMeansFailure == [][Answers("home", {"HardwareFault"}) => comms.outcome = "Failed"]_vars

(* Whoever does not see Faulted sees no homing of an earlier link.          *)
HomedUnlessFaulted ==
  hand.homing = "Succeeded" /\ comms.socket /\ hand.observed # "Faulted" => seen.origin

(* A home() that succeeds leaves homing_state_ Succeeded, so that the       *)
(* set_command() that follows is accepted.                                  *)
HomeSuccessIsVisible == [][Answers("home", {"None"}) => hand.homing = "Succeeded"]_vars

(* What set_command() set stays staged until the user's next call. *)
TargetStaysInEffect == [][ControlLoop /\ hand.staged = "User" => hand'.staged = "User"]_vars

(* A hand that has been disconnected has no command staged. *)
DisconnectVoidsTheCommand == [][Answers("disconnect", {"None"}) => hand'.staged = "Idle"]_vars

(* Without an exception in the loop no call blames the loop; only starting  *)
(* its thread can.                                                          *)
LinkErrorsAreNamed ==
  [][~LoopMayThrow => \A c \in Calls \ {"connect", "reconnect"} : ~Answers(c, {"ControlLoopFault"})]_vars

-----------------------------------------------------------------------------
(* What the bus shows of a hand: the frame the loop is about to send, if it *)
(* has a socket to send it through.                                         *)
NextFrame ==
  IF ~(InCycle("send") /\ comms.socket) THEN "none"
  ELSE IF FrameKind = "QuickStop" /\ rt.latest # "Running" THEN "Stop" ELSE FrameKind
FaultObserved == hand.observed = "Faulted"

Wire == INSTANCE WireContract WITH
  NeedsOrigin <- ~AutoReconnect,
  wish <- hand.requested, faulted <- FaultObserved, frame <- NextFrame,
  origin <- seen.origin, asked <- seen.asked, voided <- seen.voided

(* The hand keeps its promises on the bus, whatever order the two threads  *)
(* take their steps in.                                                     *)
ImplementsWireContract == Wire!Spec

=============================================================================
