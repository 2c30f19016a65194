---------------------------- MODULE ControlCycle ----------------------------
(***************************************************************************)
(* The way of the user's input through the cycles of the control loop:     *)
(* staged command, effort cap, controller configuration and tactile bias   *)
(* in; the observation of the hand, the controllers and their memory, the  *)
(* frame, and the snapshot the getters return.  The lifecycle and its      *)
(* races are HandCore's, the link is HandLink's; here a call is one step,  *)
(* and a cycle three: Input, Observe and Write, with Publish at its end.   *)
(*                                                                         *)
(*   hand   what the calls and the loop share                              *)
(*   loop   the loop: LoopState, the members only the RT thread touches    *)
(*   rx     what HandComms has received on this socket                     *)
(*   world  the real hand                                                  *)
(*   ghost  what happened in the cycle before, for the properties only     *)
(*                                                                         *)
(* One actuator with one joint stands for all: nothing here relates two.   *)
(* A definition that no other uses is the one after it with a bug in it.   *)
(***************************************************************************)
EXTENDS Integers, ActionCheck

CONSTANTS
  Fk, Ik,       \* kinematics: angle of a count (or NaN), count of an angle
  Reach,        \* JointPositionCommand::clamp(): the target reached for each asked for,
                \* itself with AIDIN_HAND2_WORKSPACE_CLAMP=0
  Inputs,       \* the commands the user may set
  Efforts,      \* the caps the user may ask for
  MaxEffort,    \* kMaxEffortLimit
  Word,         \* a signed integer on the wire is in -Word..Word - 1
  HomeOffset,   \* kHomeOffsetCount: the origin of the SDK, counted from the drive's
  Deadband, Stiffness, Damping,  \* controller configuration
  MaxSettings,  \* bound: what the user sets
  Start,        \* bound: where the hand is at first
  MaxMoves,     \* bound: moves of the real hand
  MaxFaults     \* bound: losses of the link

NaN == 1000
Counts == DOMAIN Fk
Kinds == {"Idle", "JointPosition", "JointImpedance", "ActuatorPosition", "ActuatorEffort"}

JointKinds == {"JointPosition", "JointImpedance"}

(* The angles are an interval, 0 is the count and the angle of the blank    *)
(* snapshot, and NaN is neither.  A joint target is one clamp() is asked    *)
(* about.                                                                   *)
ASSUME ControlCycleAssumption ==
  /\ Counts \subseteq -Word..Word - 1 /\ 0 \in Counts /\ NaN \notin Counts
  /\ DOMAIN Ik \subseteq Int /\ 0 \in DOMAIN Ik /\ NaN \notin DOMAIN Ik
  /\ \A a, b \in DOMAIN Ik : a..b \subseteq DOMAIN Ik
  /\ \A c \in Counts : Fk[c] \in (DOMAIN Ik) \cup {NaN}
  /\ \A a \in DOMAIN Ik : Ik[a] \in -Word..Word - 1
  /\ \A t \in DOMAIN Reach : Reach[t] \in DOMAIN Ik
  /\ Inputs \subseteq [kind : Kinds, target : Int]
  /\ \A c \in Inputs : c.kind \in JointKinds => c.target \in (DOMAIN Reach) \cup {NaN}
  /\ Efforts \subseteq Int /\ Start \subseteq Counts
  /\ HomeOffset \in 0..Word
  /\ {Word, MaxEffort, Deadband, Stiffness, Damping, MaxSettings, MaxMoves, MaxFaults} \subseteq Nat

VARIABLES hand, loop, rx, world, ghost
vars == <<hand, loop, rx, world, ghost>>

Idle == [kind |-> "Idle", target |-> 0]
AtPosition(count) == [kind |-> "ActuatorPosition", target |-> count]
Command(controller, cap) == [controller |-> controller, cap |-> cap]
Empty == [controller |-> [kind |-> "Empty", target |-> 0], cap |-> 0]
DefaultEffort == MaxEffort \div 2
(* HandCommand{} and ControllerConfig{} as a new thread finds them. *)
DefaultCommand == Command(Idle, 0)
DefaultFilter == "on"

NoFrame == [mode |-> "CST", value |-> 0, cap |-> 0, masked |-> TRUE]
Unset == NaN
IdleLoop == [pc |-> "none", req |-> "Disconnected", obs |-> "Disconnected", active |-> DefaultCommand, filter |-> DefaultFilter,
             homing |-> FALSE, frame |-> NoFrame, receiving |-> FALSE]
(* The members that outlive the thread. *)
Memory == [joint |-> 0, held |-> Unset, section |-> Unset, previous |-> Unset, bias |-> 0]

Init ==
  /\ hand = [requested |-> "Disconnected", observed |-> "Disconnected", homing |-> "NotRun",
             requestHoming |-> FALSE, requestHold |-> FALSE, requestBias |-> "None", comm |-> FALSE,
             staged |-> Command(Idle, DefaultEffort), command |-> Command(Idle, DefaultEffort),
             filter |-> DefaultFilter, config |-> "empty", wait |-> "none", settings |-> MaxSettings]
  /\ loop = [thread |-> IdleLoop, memory |-> Memory]
  /\ rx = [any |-> FALSE, count |-> 0, tactile |-> 0]
  /\ \E count \in Start : world = [count |-> count, tactile |-> 1, moves |-> MaxMoves, faults |-> MaxFaults]
  /\ ghost = [last |-> "none", from |-> 0, gap |-> FALSE, sent |-> "None", steady |-> TRUE]

At(label) == loop.thread.pc = label
UpdateThread(t) == loop' = [loop EXCEPT !.thread = t]

-----------------------------------------------------------------------------
(* Staging *)

Stage(h, controller) ==
  LET command == Command(controller, h.staged.cap) IN [h EXCEPT !.staged = command, !.command = command]
StageEffort(h, cap) ==
  LET command == Command(h.staged.controller, cap) IN [h EXCEPT !.staged = command, !.command = command]
Clamp(v, low, high) == IF v < low THEN low ELSE IF v > high THEN high ELSE v

Allowed(action, homed) ==
  CheckActionAllowed(action, hand.requested, hand.observed, FALSE, "ReceiveSilence", homed) = "None"
(* A call that waits is over before the next begins. *)
Free == hand.wait = "none"
Set(h) == hand.settings > 0 /\ hand' = [h EXCEPT !.settings = @ - 1]

ValidFinite(c) == c.target # NaN
(* is_command_valid(); an invalid command is dropped and the last one held. *)
Valid(c) == c.target # NaN /\ (c.kind = "ActuatorPosition" => c.target \in -Word..Word - 1)
Clamped(c) == IF c.kind \in JointKinds THEN [c EXCEPT !.target = Reach[@]] ELSE c

SetCommand ==
  /\ Free /\ UNCHANGED <<loop, rx, world, ghost>>
  /\ \E c \in Inputs :
       /\ Allowed("SetCommand", c.kind = "Idle" \/ hand.homing = "Succeeded")
       /\ Valid(c)
       /\ Set(Stage(hand, Clamped(c)))
SetMaxEffort ==
  /\ Free /\ UNCHANGED <<loop, rx, world, ghost>>
  /\ \E cap \in Efforts : cap # NaN /\ Set(StageEffort(hand, Clamp(cap, 0, MaxEffort)))
SetControllerConfig ==
  /\ Free /\ UNCHANGED <<loop, rx, world, ghost>>
  /\ \E filter \in {"on", "off"} \ {hand.filter} : Set([hand EXCEPT !.filter = filter, !.config = filter])

(* The last request before the cycle is the one it finds. *)
RequestBias ==
  /\ Free /\ UNCHANGED <<loop, rx, world, ghost>>
  /\ \E request \in {"Set", "Reset"} :
       /\ Allowed(IF request = "Set" THEN "SetTactileBias" ELSE "ResetTactileBias", TRUE)
       /\ request = "Set" => hand.comm
       /\ Set([hand EXCEPT !.requestBias = request])

-----------------------------------------------------------------------------
(* Lifecycle calls, as far as they touch the input *)

ConnectForgetting(h) == [h EXCEPT !.requested = "Connected", !.homing = "NotRun", !.comm = FALSE, !.wait = "connect"]
(* A new loop begins from the defaults, so connect() republishes. *)
Connecting(h) ==
  [h EXCEPT !.requested = "Connected", !.homing = "NotRun", !.comm = FALSE, !.wait = "connect",
            !.command = h.staged, !.config = h.filter]
NewSession ==
  /\ loop' = [loop EXCEPT !.thread = [IdleLoop EXCEPT !.pc = "top"]]
  /\ rx' = [any |-> FALSE, count |-> 0, tactile |-> 0]
  /\ ghost' = [ghost EXCEPT !.last = "none"]
  /\ UNCHANGED world
Connect ==
  /\ Free /\ hand.observed = "Disconnected" /\ loop.thread.pc = "none"
  /\ hand' = Connecting(hand)
  /\ NewSession
Reconnect ==
  /\ Free /\ hand.observed = "Faulted" /\ loop.thread.pc = "none"
  /\ hand' = Connecting([Stage(hand, Idle) EXCEPT !.observed = "Disconnected", !.requestHoming = FALSE, !.requestHold = FALSE])
  /\ NewSession
Disconnect ==
  /\ Free /\ Allowed("Disconnect", TRUE)
  /\ hand.requested = "Connected" \/ hand.observed = "Stopped"
  /\ hand' = [Stage(hand, Idle) EXCEPT !.requested = "Disconnected", !.wait = "join"]
  /\ ghost' = [ghost EXCEPT !.steady = ~At("publish")]
  /\ UNCHANGED <<loop, rx, world>>

Run ==
  /\ Free /\ Allowed("Run", TRUE) /\ hand.requested # "Running" /\ hand.comm
  /\ LET h == IF hand.requested = "Stopped" THEN [Stage(hand, Idle) EXCEPT !.requestHold = TRUE] ELSE hand IN
     hand' = [h EXCEPT !.requested = "Running", !.wait = "run"]
  /\ ghost' = [ghost EXCEPT !.steady = ~At("publish")]
  /\ UNCHANGED <<loop, rx, world>>
Stop ==
  /\ Free /\ Allowed("Stop", TRUE) /\ hand.requested # "Stopped"
  /\ hand' = [Stage(hand, Idle) EXCEPT !.requested = "Stopped", !.wait = "stop"]
  /\ ghost' = [ghost EXCEPT !.steady = ~At("publish")]
  /\ UNCHANGED <<loop, rx, world>>
(* start_homing() voids the command before control may be refused. *)
StartHoming ==
  /\ Free /\ Allowed("Home", TRUE)
  /\ LET h == [Stage(hand, Idle) EXCEPT !.homing = "InProgress"]
         running == hand.requested = "Running" /\ hand.observed = "Running" IN
     hand' = IF running \/ hand.comm
             THEN [h EXCEPT !.requestHoming = TRUE, !.requested = "Running", !.requestHold = @ \/ hand.requested = "Stopped"]
             ELSE h
  /\ ghost' = [ghost EXCEPT !.steady = @ /\ (At("publish") => hand'.requested = hand.requested)]
  /\ UNCHANGED <<loop, rx, world>>

(* A wait ends with what it waits for; the others time out.  connect() then *)
(* stores Connected over whatever the loop has recorded, and a loop that    *)
(* had ended on that is joined at once.                                     *)
WaitEnds ==
  \/ hand.wait = "connect" /\ rx.any /\ hand' = [hand EXCEPT !.observed = "Connected", !.wait = "none"]
  \/ hand.wait = "join" /\ At("none") /\ hand' = [hand EXCEPT !.observed = "Disconnected", !.comm = FALSE, !.wait = "none"]
  \/ hand.wait = "run" /\ hand.observed = "Running" /\ hand' = [hand EXCEPT !.wait = "none"]
  \/ hand.wait = "stop" /\ hand' = [hand EXCEPT !.wait = "none"]
  \/ hand.wait = "run" /\ hand.observed # "Running" /\ hand' = [Stage(hand, Idle) EXCEPT !.requested = "Stopped", !.wait = "none"]
Return ==
  /\ WaitEnds
  /\ ghost' = [ghost EXCEPT !.steady = @ /\ (At("publish") => hand'.requested = hand.requested)]
  /\ UNCHANGED <<loop, rx, world>>

-----------------------------------------------------------------------------
(* The cycle *)

(* The loop ends at an exit request and at a fault. *)
Exit ==
  /\ At("top") /\ (hand.requested = "Disconnected" \/ hand.observed = "Faulted")
  /\ UpdateThread(IdleLoop)
  /\ hand' = IF hand.requested = "Disconnected"
             THEN [hand EXCEPT !.observed = "Disconnected", !.comm = FALSE, !.wait = "none"] ELSE hand
  /\ UNCHANGED <<rx, world, ghost>>

Input ==
  /\ At("top") /\ hand.requested # "Disconnected" /\ hand.observed # "Faulted"
  /\ LET start == hand.requestHoming /\ hand.requested = "Running" IN
     /\ UpdateThread([loop.thread EXCEPT
          !.pc = "observe", !.req = hand.requested, !.obs = hand.observed,
          !.active = IF hand.command = Empty THEN @ ELSE hand.command,
          !.filter = IF hand.config = "empty" THEN @ ELSE hand.config,
          !.homing = @ \/ start])
     /\ hand' = [hand EXCEPT !.command = Empty, !.config = "empty", !.requestHoming = FALSE,
                             !.homing = IF hand.requestHoming /\ ~start THEN "Failed" ELSE @]
  /\ UNCHANGED <<rx, world, ghost>>

(* fill_joint_state(): a joint that does not solve keeps its last angle. *)
Joint(count) == IF Fk[count] = NaN THEN loop.memory.joint ELSE Fk[count]

Bias(m, reading) ==
  CASE hand.requestBias = "Set" -> reading
    [] hand.requestBias = "Reset" -> 0
    [] OTHER -> m.bias

Toward(a, b) == IF a < b THEN a + 1 ELSE IF a > b THEN a - 1 ELSE a
Distance(a, b) == IF a < b THEN b - a ELSE a - b
(* JointPositionController: seed, deadband, low pass.  The low pass is one  *)
(* section that moves a step towards the target.                            *)
PositionControl(m, target, filter, angle) ==
  LET seed == IF m.held = Unset THEN (IF angle = NaN THEN target ELSE angle) ELSE m.held
      held == IF Distance(target, seed) >= (IF filter = "on" THEN Deadband ELSE 0) THEN target ELSE seed IN
  [m EXCEPT !.held = held, !.section = IF filter = "off" THEN held ELSE Toward(IF m.held = Unset THEN seed ELSE @, held)]

(* JointImpedanceController: the effort, capped because CST does not cap. *)
Impedance(m, target, cap, count) ==
  Clamp(Stiffness * (Ik[target] - count) - Damping * (IF m.previous = Unset THEN 0 ELSE count - m.previous), -cap, cap)

KeepActive(m, kind, count) == IF kind = "JointImpedance" THEN [m EXCEPT !.previous = count] ELSE m
(* An inactive controller restarts clean. *)
ResetInactive(m, kind, count) ==
  [m EXCEPT !.held = IF kind = "JointPosition" THEN @ ELSE Unset,
            !.section = IF kind = "JointPosition" THEN @ ELSE Unset,
            !.previous = IF kind = "JointImpedance" THEN count ELSE Unset]

(* A static_cast of a value out of range leaves the smallest integer. *)
ToInteger(v) == IF v \in -Word..Word - 1 THEN v ELSE -Word
Frame(m, command, after, count, masked) ==
  LET c == command.controller
      mode == IF c.kind \in {"ActuatorPosition", "JointPosition"} THEN "CSP" ELSE "CST"
      value == CASE masked -> IF mode = "CSP" THEN count ELSE 0
                 [] ~masked /\ c.kind = "ActuatorPosition" -> ToInteger(c.target)
                 [] ~masked /\ c.kind = "JointPosition" -> Ik[after.section]
                 [] ~masked /\ c.kind = "ActuatorEffort" -> Clamp(c.target, -command.cap, command.cap)
                 [] ~masked /\ c.kind = "JointImpedance" -> Impedance(m, c.target, command.cap, count)
                 [] OTHER -> 0 IN
  [mode |-> mode, value |-> value, cap |-> command.cap, masked |-> masked]

(* encode(): the drive counts from its own origin.  The sum of two 32 bit   *)
(* integers wraps.                                                          *)
Wrapped(v) == IF v < Word THEN v ELSE v - 2 * Word
Encoded(frame) == IF frame.mode = "CSP" THEN [frame EXCEPT !.value = Wrapped(@ + HomeOffset)] ELSE frame

ControlSession(t, obs) == t.req \in {"Running", "Stopped"} \/ obs = "Faulted"
(* Only Running reaches the wire. *)
ActiveCommand(t) == IF t.req = "Running" THEN t.active ELSE DefaultCommand

(* read(), fill_joint_state(), apply_tactile_bias(), watch_link(), the hold *)
(* of the measured pose and command_to_frames(), whose frame write() then   *)
(* encodes: nothing changes it in between.                                  *)
Observation(arrives, lost, masked) ==
  LET t == loop.thread
      now == IF arrives THEN [any |-> TRUE, count |-> world.count, tactile |-> world.tactile] ELSE rx
      faults == lost /\ ~arrives /\ rx.any /\ t.obs # "Faulted"
      obs == IF faults THEN "Faulted" ELSE t.obs
      command == ActiveCommand(t)
      kind == command.controller.kind
      m == [loop.memory EXCEPT !.joint = Joint(now.count), !.bias = Bias(loop.memory, now.tactile)]
      moved == IF kind = "JointPosition" THEN PositionControl(m, command.controller.target, t.filter, m.joint) ELSE m
      after == IF ControlSession(t, obs) THEN ResetInactive(moved, kind, now.count) ELSE m IN
  /\ lost => faults /\ world.faults > 0
  /\ ~now.any => masked
  /\ rx' = now
  /\ world' = [world EXCEPT !.faults = IF faults THEN @ - 1 ELSE @]
  /\ loop' = [thread |-> [t EXCEPT !.pc = "write", !.obs = obs, !.receiving = now.any /\ ~faults,
                                   !.frame = IF ControlSession(t, obs) THEN Encoded(Frame(m, command, after, now.count, masked)) ELSE NoFrame],
              memory |-> after]
  /\ LET h == [hand EXCEPT !.observed = IF faults THEN "Faulted" ELSE @, !.requestBias = "None", !.requestHold = FALSE] IN
     hand' = IF hand.requestHold THEN Stage(h, AtPosition(now.count)) ELSE h
  /\ ghost' = [ghost EXCEPT
       !.from = IF ghost.last = "JointPosition" THEN loop.memory.section ELSE m.joint,
       !.gap = loop.memory.previous # Unset /\ ghost.last # "JointImpedance",
       !.last = IF ControlSession(t, obs) THEN kind ELSE "none"]
Observe == At("observe") /\ \E arrives, lost, masked \in BOOLEAN : Observation(arrives, lost, masked)

(* write() with the requests as they are now, the verdict of the drives,    *)
(* and the end of a homing, which stages the hold of the origin.  A send    *)
(* that fails for good is a fault of this cycle, unless it only stops.      *)
Transmission(over, success, verdict, lost) ==
  LET t == loop.thread
      session == ControlSession(t, t.obs)
      quickStop == hand.requested # "Running" \/ t.obs = "Faulted"
      faults == lost /\ ~quickStop
      sent == CASE ~session -> "None"
                [] session /\ quickStop -> "QuickStop"
                [] session /\ ~quickStop /\ t.homing -> "Homing"
                [] session /\ ~quickStop /\ ~t.homing -> "Controller"
      homing == t.homing /\ ~(session /\ (quickStop \/ over))
      ended == t.homing /\ ~homing
      homed == ended /\ success /\ ~quickStop
      before == IF faults THEN "Faulted" ELSE hand.observed
      observed == CASE before = "Faulted" -> "Faulted"
                    [] before # "Faulted" /\ t.receiving /\ verdict /\ hand.requested \in {"Running", "Stopped"} -> hand.requested
                    [] OTHER -> IF hand.observed = "Disconnected" /\ rx.any THEN "Connected" ELSE hand.observed
      out == CASE faults -> "Partly"
               [] ~faults /\ sent = "Homing" /\ ~homing -> "HomingEnds"
               [] OTHER -> sent
      h == [hand EXCEPT !.observed = observed, !.comm = t.receiving /\ ~lost,
                        !.homing = CASE homed -> "Succeeded" [] ended /\ ~homed -> "Failed" [] OTHER -> @] IN
  /\ lost => session /\ world.faults > 0
  /\ over => t.homing
  /\ success => homed
  /\ hand' = IF homed THEN Stage(h, AtPosition(0)) ELSE h
  /\ UpdateThread([t EXCEPT !.pc = "publish", !.obs = IF faults THEN "Faulted" ELSE @, !.homing = homing,
                              !.receiving = FALSE, !.frame = NoFrame])
  /\ world' = [world EXCEPT !.faults = IF lost THEN @ - 1 ELSE @]
  /\ ghost' = [ghost EXCEPT !.from = 0, !.gap = FALSE, !.sent = out]
  /\ UNCHANGED rx
Write == At("write") /\ \E over, success, verdict, lost \in BOOLEAN : Transmission(over, success, verdict, lost)

EchoWithoutFault(t) ==
  CASE ~ControlSession(t, t.obs) -> "None"
    [] ControlSession(t, t.obs) /\ hand.requested = "Stopped" -> "QuickStop"
    [] ControlSession(t, t.obs) /\ hand.requested # "Stopped" -> IF t.homing THEN "Homing" ELSE "Controller"
(* commanded.selected_source, from the request as it is now. *)
Echo(t) ==
  CASE ~ControlSession(t, t.obs) -> "None"
    [] ControlSession(t, t.obs) /\ (hand.requested = "Stopped" \/ t.obs = "Faulted") -> "QuickStop"
    [] ControlSession(t, t.obs) /\ ~(hand.requested = "Stopped" \/ t.obs = "Faulted") ->
         IF t.homing THEN "Homing" ELSE "Controller"
Publish ==
  /\ At("publish")
  /\ UpdateThread([loop.thread EXCEPT !.pc = "top", !.req = "Disconnected", !.obs = "Disconnected"])
  /\ ghost' = [ghost EXCEPT !.sent = "None", !.steady = TRUE]
  /\ UNCHANGED <<hand, rx, world>>

-----------------------------------------------------------------------------
(* The hand *)

Moves ==
  /\ world.moves > 0
  /\ \E count \in Counts : Distance(count, world.count) = 1 /\ world' = [world EXCEPT !.count = count, !.moves = @ - 1]
  /\ UNCHANGED <<hand, loop, rx, ghost>>

Setting == SetCommand \/ SetMaxEffort \/ SetControllerConfig \/ RequestBias
Call == Connect \/ Reconnect \/ Disconnect \/ Run \/ Stop \/ StartHoming \/ Return
Cycle == Exit \/ Input \/ Observe \/ Write \/ Publish
Next == Setting \/ Call \/ Cycle \/ Moves
Spec == Init /\ [][Next]_vars

-----------------------------------------------------------------------------
(* Properties *)

Controllers ==
  {c \in [kind : Kinds, target : Int] :
     /\ c.kind \in JointKinds => c.target \in DOMAIN Ik
     /\ c.kind = "ActuatorPosition" => c.target \in -Word..Word - 1}
Commands == [controller : Controllers, cap : 0..MaxEffort]
Filters == {"on", "off"}
Hands ==
  [requested : Lifecycle \ {"Faulted"}, observed : Lifecycle, homing : {"NotRun", "InProgress", "Succeeded", "Failed"},
   requestHoming : BOOLEAN, requestHold : BOOLEAN, requestBias : {"None", "Set", "Reset"}, comm : BOOLEAN,
   staged : Commands, command : Commands \cup {Empty}, filter : Filters, config : Filters \cup {"empty"},
   wait : {"none", "connect", "join", "run", "stop"}, settings : 0..MaxSettings]
Frames == [mode : {"CSP", "CST"}, value : Int, cap : 0..MaxEffort, masked : BOOLEAN]
Threads ==
  [pc : {"none", "top", "observe", "write", "publish"}, req : Lifecycle \ {"Faulted"}, obs : Lifecycle, active : Commands,
   filter : Filters, homing : BOOLEAN, frame : Frames, receiving : BOOLEAN]
Angles == (DOMAIN Ik) \cup {Unset}
Memories ==
  [joint : DOMAIN Ik, held : Angles, section : Angles, previous : Counts \cup {Unset}, bias : {0, 1}]
(* Every variable has its type: wherever a command is kept, its cap is      *)
(* bounded, its joint target is in reach and its actuator position fits     *)
(* the wire.                                                                *)
TypeOK ==
  /\ hand \in Hands
  /\ loop \in [thread : Threads, memory : Memories]
  /\ rx \in [any : BOOLEAN, count : Counts, tactile : {0, 1}]
  /\ world \in [count : Counts, tactile : {1}, moves : 0..MaxMoves, faults : 0..MaxFaults]
  /\ ghost \in [last : Kinds \cup {"none"}, from : Angles, gap : BOOLEAN, steady : BOOLEAN,
                sent : {"None", "QuickStop", "Homing", "HomingEnds", "Controller", "Partly"}]

(* Once a cycle has taken its input, what was set last is in force, also in *)
(* the first cycle of a loop that a new connection has started from the     *)
(* defaults: the cap of 0 and the default configuration must not stay.      *)
SettingsInForce ==
  loop.thread.pc \in {"observe", "write", "publish"} =>
    /\ hand.command = Empty => loop.thread.active = hand.staged
    /\ hand.config = "empty" => loop.thread.filter = hand.filter

Kind == ActiveCommand(loop.thread).controller.kind
(* With the filter on, the position controller moves on from where it was   *)
(* in the cycle before, or, when it comes in, from the measured angle, and  *)
(* the impedance controller damps with the way of one cycle, never with the *)
(* way since it was last in use: no call, stop or new session makes the     *)
(* output jump.                                                             *)
NoJump ==
  At("write") =>
    /\ Kind = "JointPosition" /\ loop.thread.filter = "on" => Distance(loop.memory.section, ghost.from) <= 1
    /\ Kind = "JointImpedance" => ~ghost.gap

(* What goes out is what was asked for: an effort within the cap, and a     *)
(* position that survives its conversion to the integer of the wire and the *)
(* shift to the drive's origin.  The last HomeOffset counts do not survive  *)
(* it: they are accepted and wrap.                                          *)
FrameIsBounded ==
  At("write") =>
    /\ loop.thread.frame.mode = "CST" => loop.thread.frame.value \in -loop.thread.frame.cap..loop.thread.frame.cap
    /\ LET target == loop.thread.active.controller.target IN
       Kind = "ActuatorPosition" /\ ~loop.thread.frame.masked =>
         loop.thread.frame.value = target + HomeOffset \/ target \in Word - HomeOffset..Word - 1

(* The published source is the one whose frames went out in this cycle,     *)
(* unless a call changes the request between the write and the snapshot, or *)
(* asks the loop to exit.  A cycle of which a send failed for good has      *)
(* faulted, and says QuickStop of what it sent of its frames.               *)
SourceIsTrue ==
  At("publish") /\ ghost.steady /\ hand.requested # "Disconnected" =>
    \/ Echo(loop.thread) = ghost.sent
    \/ ghost.sent = "HomingEnds" /\ Echo(loop.thread) = "Controller"
    \/ ghost.sent = "Partly" /\ Echo(loop.thread) = "QuickStop"

(* The same without the exceptions, which the code does not keep: the last  *)
(* cycle before a disconnect() quick stops and publishes Controller, and    *)
(* one whose sends failed publishes a quick stop it did not send.           *)
SourceIsActual == At("publish") /\ ghost.sent # "HomingEnds" => Echo(loop.thread) = ghost.sent

(* A homing that is reported in progress is requested or under way.  The    *)
(* code publishes it before control may be refused, and leaves it so.       *)
InProgressIsTrue == hand.homing = "InProgress" => hand.requestHoming \/ loop.thread.homing

(* A bias that was set is a reading of the hand: a request that the next    *)
(* session finds is served before its first frame, with a blank reading.    *)
BiasIsMeasured ==
  [][At("observe") /\ hand.requestBias = "Set" /\ Observe => loop'.memory.bias = world.tactile]_vars

=============================================================================
