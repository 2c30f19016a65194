-------------------------- MODULE ControlCycleProofs --------------------------
(***************************************************************************)
(* The settings, the controllers' output, the frame and the published      *)
(* source of every cycle, for any maps, inputs, caps and gains.            *)
(***************************************************************************)
EXTENDS ControlCycle, TLAPS

-----------------------------------------------------------------------------
(* The inductive invariant.                                                *)

(* What was staged last is on its way to the loop or there: a loop that    *)
(* runs lacks only what is still published for it.                         *)
InForce ==
  /\ hand.command \in {Empty, hand.staged} /\ hand.config \in {"empty", hand.filter}
  /\ loop.thread.pc # "none" =>
       /\ hand.command = Empty => loop.thread.active = hand.staged
       /\ hand.config = "empty" => loop.thread.filter = hand.filter

(* A joint command is staged only while Running is requested, and a loop   *)
(* that is asked for no more than a connection has run no joint controller.*)
Requests ==
  /\ hand.requested # "Running" => hand.staged.controller.kind \notin JointKinds
  /\ At("none") /\ hand.observed = "Disconnected" => hand.requested = "Disconnected"
  /\ hand.wait = "run" => hand.requested = "Running"
  /\ hand.wait = "join" => hand.requested = "Disconnected"
  /\ hand.requested = "Connected" => ghost.last \notin JointKinds /\ loop.thread.req \in {"Disconnected", "Connected"}
  /\ At("observe") => loop.thread.req # "Disconnected"
  /\ At("observe") /\ loop.thread.req = "Connected" => ghost.last \notin JointKinds

(* Memory that a controller has left and nobody has reset is of an earlier *)
(* session, and then no joint command can be staged before a homing, in    *)
(* whose cycles it is reset.                                               *)
Stale ==
  \/ loop.memory.held # Unset /\ ghost.last # "JointPosition"
  \/ loop.memory.previous # Unset /\ ghost.last # "JointImpedance"
Reset ==
  /\ loop.memory.held # Unset => loop.memory.section # Unset
  /\ ghost.last = "JointPosition" => loop.memory.held # Unset
  /\ At("write") /\ ControlSession(loop.thread, loop.thread.obs) => ~Stale
  /\ Stale => /\ hand.homing # "Succeeded"
              /\ {hand.staged.controller.kind, loop.thread.active.controller.kind} \cap JointKinds = {}

CycleInv ==
  /\ TypeOK /\ InForce /\ Requests /\ Reset
  /\ NoJump /\ FrameIsBounded
  /\ At("publish") \/ ghost.steady
  /\ SourceIsTrue

-----------------------------------------------------------------------------
(* The constants and the operators.                                        *)

(* What the constants are, in the form the proofs use. *)
LEMMA Constants ==
  /\ MaxEffort \in Nat /\ Word \in Nat /\ Deadband \in Nat /\ Stiffness \in Int /\ Damping \in Int
  /\ MaxSettings \in Nat /\ MaxMoves \in Nat /\ MaxFaults \in Nat
  /\ DefaultEffort \in 0..MaxEffort /\ 0 \in 0..MaxEffort
  /\ Counts \subseteq Int /\ Unset \notin Counts /\ DOMAIN Ik \subseteq Int /\ Unset \notin DOMAIN Ik
  /\ Idle \in Controllers /\ DefaultCommand \in Commands /\ Command(Idle, DefaultEffort) \in Commands
  /\ Empty \notin Commands
<1>1. /\ MaxEffort \in Nat /\ Word \in Nat /\ Deadband \in Nat /\ Stiffness \in Int /\ Damping \in Int
      /\ MaxSettings \in Nat /\ MaxMoves \in Nat /\ MaxFaults \in Nat
      /\ Counts \subseteq Int /\ Unset \notin Counts /\ DOMAIN Ik \subseteq Int /\ Unset \notin DOMAIN Ik
  BY ControlCycleAssumption DEF Unset
<1>2. DefaultEffort \in 0..MaxEffort /\ 0 \in 0..MaxEffort
  BY <1>1 DEF DefaultEffort
<1>3. Idle \in Controllers
  BY DEF Idle, Controllers, Kinds, JointKinds
<1>4. DefaultCommand \in Commands /\ Command(Idle, DefaultEffort) \in Commands
  BY <1>2, <1>3 DEF DefaultCommand, Command, Commands
<1>5. Empty \notin Commands
  BY DEF Empty, Commands, Controllers, Kinds
<1> QED
  BY <1>1, <1>2, <1>3, <1>4, <1>5

(* A count can be held as a target.                                        *)
LEMMA Holdable ==
  ASSUME NEW count \in Counts
  PROVE  AtPosition(count) \in Controllers /\ AtPosition(count).kind \notin JointKinds
<1>1. count \in -Word..Word - 1 /\ count \in Int
  BY ControlCycleAssumption
<1> QED
  BY <1>1 DEF AtPosition, Controllers, Kinds, JointKinds

(* What the staging of a controller or a cap does to the hand.             *)
Restaged(h, n) ==
  /\ n \in Hands /\ n.command = n.staged
  /\ n.requested = h.requested /\ n.observed = h.observed /\ n.homing = h.homing
  /\ n.filter = h.filter /\ n.config = h.config /\ n.wait = h.wait /\ n.comm = h.comm
  /\ n.requestHoming = h.requestHoming /\ n.requestHold = h.requestHold /\ n.requestBias = h.requestBias
  /\ n.settings = h.settings

(* Staging a controller or a cap does that. *)
LEMMA Staging ==
  ASSUME NEW h \in Hands, NEW controller \in Controllers, NEW cap \in 0..MaxEffort
  PROVE  /\ Restaged(h, Stage(h, controller)) /\ Stage(h, controller).staged.controller = controller
         /\ Restaged(h, StageEffort(h, cap)) /\ StageEffort(h, cap).staged.controller = h.staged.controller
<1>1. ASSUME NEW command \in Commands
      PROVE  LET n == [h EXCEPT !.staged = command, !.command = command] IN Restaged(h, n) /\ n.staged = command
  BY DEF Hands, Restaged
<1>2. h.staged.cap \in 0..MaxEffort /\ h.staged.controller \in Controllers
  BY DEF Hands, Commands
<1>3. /\ Command(controller, h.staged.cap) \in Commands /\ Command(h.staged.controller, cap) \in Commands
      /\ Command(controller, h.staged.cap).controller = controller
      /\ Command(h.staged.controller, cap).controller = h.staged.controller
  BY <1>2 DEF Command, Commands
<1>4. Restaged(h, Stage(h, controller)) /\ Stage(h, controller).staged = Command(controller, h.staged.cap)
  BY <1>1, <1>3 DEF Stage
<1>5. Restaged(h, StageEffort(h, cap)) /\ StageEffort(h, cap).staged = Command(h.staged.controller, cap)
  BY <1>1, <1>3 DEF StageEffort
<1> QED
  BY <1>3, <1>4, <1>5

(* A value that is clamped is within its bounds.                           *)
LEMMA ClampBounds ==
  ASSUME NEW v \in Int, NEW low \in Int, NEW high \in Int, low <= high
  PROVE  Clamp(v, low, high) \in low..high
BY DEF Clamp

(* One step towards an angle stays within the angles.                      *)
LEMMA TowardBounds ==
  ASSUME NEW a \in DOMAIN Ik, NEW b \in DOMAIN Ik
  PROVE  Toward(a, b) \in DOMAIN Ik /\ Distance(Toward(a, b), a) <= 1
<1>1. a \in Int /\ b \in Int /\ a..b \subseteq DOMAIN Ik /\ b..a \subseteq DOMAIN Ik
  BY ControlCycleAssumption
<1>2. CASE a < b
  BY <1>1, <1>2 DEF Toward, Distance
<1>3. CASE a > b
  BY <1>1, <1>3 DEF Toward, Distance
<1>4. CASE a = b
  BY <1>1, <1>4 DEF Toward, Distance
<1> QED
  BY <1>1, <1>2, <1>3, <1>4

(* The position controller holds an angle, and its low pass moves by one   *)
(* step from where it was or, on its first cycle, from the measured angle. *)
LEMMA PositionMoves ==
  ASSUME NEW m \in Memories, NEW target \in DOMAIN Ik, NEW filter \in Filters, m.held # Unset => m.section # Unset
  PROVE  LET n == PositionControl(m, target, filter, m.joint) IN
         /\ n \in Memories /\ n.held # Unset /\ n.section # Unset
         /\ n.joint = m.joint /\ n.previous = m.previous /\ n.bias = m.bias
         /\ filter = "on" => Distance(n.section, IF m.held = Unset THEN m.joint ELSE m.section) <= 1
<1> DEFINE seed == IF m.held = Unset THEN m.joint ELSE m.held
           held == IF Distance(target, seed) >= (IF filter = "on" THEN Deadband ELSE 0) THEN target ELSE seed
           base == IF m.held = Unset THEN seed ELSE m.section
           section == IF filter = "off" THEN held ELSE Toward(base, held)
<1>1. /\ m.joint \in DOMAIN Ik /\ m.held \in (DOMAIN Ik) \cup {Unset} /\ m.section \in (DOMAIN Ik) \cup {Unset}
      /\ m.joint # NaN /\ Unset \notin DOMAIN Ik
  BY Constants DEF Memories, Angles, Unset
<1>2. seed \in DOMAIN Ik /\ held \in DOMAIN Ik /\ base \in DOMAIN Ik
  BY <1>1
<1>3. section \in DOMAIN Ik /\ (filter = "on" => Distance(section, base) <= 1)
  BY <1>2, TowardBounds DEF Filters
<1>4. base = IF m.held = Unset THEN m.joint ELSE m.section
  OBVIOUS
<1>5. PositionControl(m, target, filter, m.joint) = [m EXCEPT !.held = held, !.section = section]
  BY <1>1 DEF PositionControl, Memories
<1> HIDE DEF seed, held, base, section
<1> QED
  BY <1>1, <1>2, <1>3, <1>4, <1>5 DEF Memories, Angles

-----------------------------------------------------------------------------
(* The calls.                                                              *)

(* What the calls that leave the loop alone may do.                        *)
Ongoing == Setting \/ Disconnect \/ Run \/ Stop \/ StartHoming \/ Return
Called(n) ==
  /\ n \in Hands /\ n.homing \in {hand.homing, "InProgress"}
  /\ n.observed \in {hand.observed, "Connected"} \/ n.requested = "Disconnected"
  /\ n.command = n.staged \/ (n.command = hand.command /\ n.staged = hand.staged)
  /\ n.config = n.filter \/ (n.config = hand.config /\ n.filter = hand.filter)
  /\ \/ n.staged.controller.kind \notin JointKinds
     \/ n.staged.controller = hand.staged.controller /\ n.requested \in {hand.requested, "Running"}
     \/ hand.homing = "Succeeded" /\ n.requested = "Running"
  /\ n.requested = "Connected" => hand.requested = "Connected"
  /\ hand.requested = "Disconnected" /\ hand.observed # "Faulted" => n.requested = "Disconnected"
  /\ n.wait = "run" => n.requested = "Running"
  /\ n.wait = "join" => n.requested = "Disconnected"

(* A setting is accepted in some states only, and a command with a joint   *)
(* target only while Running and homed.                                    *)
LEMMA SettingSteps ==
  ASSUME TypeOK, Requests, Setting
  PROVE  Called(hand') /\ hand'.requested = hand.requested /\ UNCHANGED <<loop, rx, world, ghost>>
<1>0. /\ hand \in Hands /\ hand.settings \in 0..MaxSettings /\ MaxSettings \in Nat /\ MaxEffort \in Nat
      /\ hand.wait = "run" => hand.requested = "Running"
      /\ hand.wait = "join" => hand.requested = "Disconnected"
  BY Constants DEF TypeOK, Hands, Requests
<1>1. UNCHANGED <<loop, rx, world, ghost>>
  BY DEF Setting, SetCommand, SetMaxEffort, SetControllerConfig, RequestBias
<1>2. ASSUME NEW h \in Hands, h.settings = hand.settings, Set(h)
      PROVE  /\ hand' \in Hands /\ hand'.observed = h.observed /\ hand'.homing = h.homing /\ hand'.command = h.command
             /\ hand'.staged = h.staged /\ hand'.config = h.config /\ hand'.filter = h.filter
             /\ hand'.requested = h.requested /\ hand'.wait = h.wait
  <2>1. hand' = [h EXCEPT !.settings = h.settings - 1] /\ hand.settings > 0
    BY <1>2 DEF Set, Hands
  <2>2. h.settings - 1 \in 0..MaxSettings
    BY <1>0, <1>2, <2>1
  <2> QED
    BY <1>2, <2>1, <2>2 DEF Hands
<1>3. ASSUME SetCommand
      PROVE  Called(hand') /\ hand'.requested = hand.requested
  <2>1. PICK c \in Inputs : /\ Allowed("SetCommand", c.kind = "Idle" \/ hand.homing = "Succeeded")
                            /\ Valid(c) /\ Set(Stage(hand, Clamped(c)))
    BY <1>3 DEF SetCommand
  <2>2. Clamped(c) \in Controllers /\ Clamped(c).kind = c.kind
    <3>1. c \in [kind : Kinds, target : Int]
      BY ControlCycleAssumption
    <3>2. CASE c.kind \in JointKinds
      <4>1. c.target \in DOMAIN Reach
        BY <2>1, <3>2, ControlCycleAssumption DEF Valid
      <4>2. Reach[c.target] \in DOMAIN Ik /\ Reach[c.target] \in Int
        BY <4>1, ControlCycleAssumption
      <4>3. Clamped(c) = [c EXCEPT !.target = Reach[c.target]]
        BY <3>1, <3>2 DEF Clamped
      <4>4. c.kind # "ActuatorPosition"
        BY <3>2 DEF JointKinds
      <4> QED
        BY <3>1, <4>2, <4>3, <4>4 DEF Controllers
    <3>3. CASE c.kind \notin JointKinds
      BY <2>1, <3>1, <3>3 DEF Clamped, Valid, Controllers
    <3> QED
      BY <3>2, <3>3
  <2>3. hand.requested = "Running" /\ (c.kind = "Idle" \/ hand.homing = "Succeeded")
    BY <2>1 DEF Allowed, CheckActionAllowed, AllowedStates, FaultedCode
  <2> DEFINE h == Stage(hand, Clamped(c))
  <2>4. Restaged(hand, h) /\ h.staged.controller = Clamped(c)
    BY <1>0, <2>2, Constants, Staging
  <2>5. Set(h)
    BY <2>1
  <2> HIDE DEF h
  <2>6. /\ hand' \in Hands /\ hand'.observed = h.observed /\ hand'.homing = h.homing /\ hand'.command = h.command
        /\ hand'.staged = h.staged /\ hand'.config = h.config /\ hand'.filter = h.filter
        /\ hand'.requested = h.requested /\ hand'.wait = h.wait
    BY <1>2, <2>4, <2>5 DEF Restaged
  <2>7. hand'.staged.controller.kind \notin JointKinds \/ hand.homing = "Succeeded"
    BY <2>2, <2>3, <2>4, <2>6 DEF JointKinds
  <2> QED
    BY <1>0, <2>3, <2>4, <2>6, <2>7 DEF Called, Restaged
<1>4. ASSUME SetMaxEffort
      PROVE  Called(hand') /\ hand'.requested = hand.requested
  <2>1. PICK cap \in Efforts : Set(StageEffort(hand, Clamp(cap, 0, MaxEffort)))
    BY <1>4 DEF SetMaxEffort
  <2>2. Clamp(cap, 0, MaxEffort) \in 0..MaxEffort
    <3>1. cap \in Int
      BY ControlCycleAssumption
    <3> QED
      BY <1>0, <3>1 DEF Clamp
  <2> DEFINE h == StageEffort(hand, Clamp(cap, 0, MaxEffort))
  <2>3. Restaged(hand, h) /\ h.staged.controller = hand.staged.controller
    BY <1>0, <2>2, Constants, Staging
  <2>4. Set(h)
    BY <2>1
  <2> HIDE DEF h
  <2>5. /\ hand' \in Hands /\ hand'.observed = h.observed /\ hand'.homing = h.homing /\ hand'.command = h.command
        /\ hand'.staged = h.staged /\ hand'.config = h.config /\ hand'.filter = h.filter
        /\ hand'.requested = h.requested /\ hand'.wait = h.wait
    BY <1>2, <2>3, <2>4 DEF Restaged
  <2> QED
    BY <1>0, <2>3, <2>5 DEF Called, Restaged
<1>5. ASSUME SetControllerConfig
      PROVE  Called(hand') /\ hand'.requested = hand.requested
  <2>1. PICK filter \in Filters : Set([hand EXCEPT !.filter = filter, !.config = filter])
    BY <1>5 DEF SetControllerConfig, Filters
  <2> DEFINE h == [hand EXCEPT !.filter = filter, !.config = filter]
  <2>2. /\ h \in Hands /\ h.settings = hand.settings /\ h.config = h.filter /\ h.requested = hand.requested
        /\ h.observed = hand.observed /\ h.homing = hand.homing /\ h.staged = hand.staged /\ h.command = hand.command
        /\ h.wait = hand.wait
    BY <1>0 DEF Hands
  <2>3. Set(h)
    BY <2>1
  <2> HIDE DEF h
  <2> QED
    BY <1>0, <1>2, <2>2, <2>3 DEF Called
<1>6. ASSUME RequestBias
      PROVE  Called(hand') /\ hand'.requested = hand.requested
  <2>1. PICK request \in {"Set", "Reset"} : Set([hand EXCEPT !.requestBias = request])
    BY <1>6 DEF RequestBias
  <2> DEFINE h == [hand EXCEPT !.requestBias = request]
  <2>2. /\ h \in Hands /\ h.settings = hand.settings /\ h.config = hand.config /\ h.requested = hand.requested
        /\ h.observed = hand.observed /\ h.homing = hand.homing /\ h.staged = hand.staged /\ h.command = hand.command
        /\ h.wait = hand.wait /\ h.filter = hand.filter
    BY <1>0 DEF Hands
  <2>3. Set(h)
    BY <2>1
  <2> HIDE DEF h
  <2> QED
    BY <1>0, <1>2, <2>2, <2>3 DEF Called
<1> QED
  BY <1>1, <1>3, <1>4, <1>5, <1>6 DEF Setting

(* A lifecycle call, or the end of the wait in one.                        *)
LEMMA CallSteps ==
  ASSUME TypeOK, Requests, Disconnect \/ Run \/ Stop \/ StartHoming \/ Return
  PROVE  /\ Called(hand') /\ UNCHANGED <<loop, rx, world>>
         /\ \E b \in BOOLEAN : /\ ghost' = [ghost EXCEPT !.steady = b]
                               /\ ~At("publish") /\ ghost.steady => b
                               /\ At("publish") /\ b => hand'.requested = hand.requested /\ ghost.steady
<1>0. /\ hand \in Hands
      /\ hand.wait = "run" => hand.requested = "Running"
      /\ hand.wait = "join" => hand.requested = "Disconnected"
      /\ ghost.steady \in BOOLEAN /\ Idle \in Controllers /\ Idle.kind \notin JointKinds /\ 0 \in 0..MaxEffort
  BY Constants DEF TypeOK, Requests, Idle, JointKinds
<1> DEFINE h == Stage(hand, Idle)
<1>1. Restaged(hand, h) /\ h.staged.controller = Idle /\ h \in Hands
  BY <1>0, Staging DEF Restaged
<1> DEFINE Steady == \E b \in BOOLEAN : /\ ghost' = [ghost EXCEPT !.steady = b]
                                        /\ ~At("publish") /\ ghost.steady => b
                                        /\ At("publish") /\ b => hand'.requested = hand.requested /\ ghost.steady
<1>2. ASSUME ghost' = [ghost EXCEPT !.steady = ~At("publish")]
      PROVE  Steady
  BY <1>2
<1>3. ASSUME ghost' = [ghost EXCEPT !.steady = ghost.steady /\ (At("publish") => hand'.requested = hand.requested)]
      PROVE  Steady
  BY <1>0, <1>3
<1> HIDE DEF h, Steady
<1>4. CASE Disconnect
  <2>1. /\ hand' = [h EXCEPT !.requested = "Disconnected", !.wait = "join"]
        /\ ghost' = [ghost EXCEPT !.steady = ~At("publish")] /\ UNCHANGED <<loop, rx, world>>
    BY <1>4 DEF Disconnect, h
  <2>2. Called(hand')
    <3>1. /\ hand' \in Hands /\ hand'.requested = "Disconnected" /\ hand'.wait = "join" /\ hand'.staged = h.staged
          /\ hand'.command = h.command /\ hand'.config = h.config /\ hand'.filter = h.filter
          /\ hand'.homing = h.homing /\ hand'.observed = h.observed
      BY <1>1, <2>1 DEF Hands, Lifecycle
    <3> QED
      BY <1>0, <1>1, <3>1 DEF Called, Restaged
  <2> QED
    BY <1>2, <2>1, <2>2 DEF Steady
<1>5. CASE Run
  <2>1. /\ ghost' = [ghost EXCEPT !.steady = ~At("publish")] /\ UNCHANGED <<loop, rx, world>>
        /\ hand.requested # "Disconnected" \/ hand.observed = "Faulted"
    BY <1>5 DEF Run, Allowed, CheckActionAllowed, AllowedStates
  <2> DEFINE g == [h EXCEPT !.requestHold = TRUE]
  <2>2. PICK n \in {g, hand} : hand' = [n EXCEPT !.requested = "Running", !.wait = "run"]
    BY <1>5 DEF Run, h
  <2>3. /\ g \in Hands /\ g.staged = h.staged /\ g.command = h.command /\ g.config = h.config
        /\ g.filter = h.filter /\ g.homing = h.homing /\ g.observed = h.observed
    BY <1>1 DEF Hands
  <2> HIDE DEF g
  <2>4. /\ hand' \in Hands /\ hand'.requested = "Running" /\ hand'.wait = "run" /\ hand'.staged = n.staged
        /\ hand'.command = n.command /\ hand'.config = n.config /\ hand'.filter = n.filter
        /\ hand'.homing = n.homing /\ hand'.observed = n.observed
    <3>1. n \in Hands
      BY <1>0, <2>2, <2>3
    <3>2. hand' = [n EXCEPT !.requested = "Running", !.wait = "run"]
      BY <2>2
    <3> QED
      BY <3>1, <3>2 DEF Hands, Lifecycle
  <2>5. Called(hand')
    BY <1>0, <1>1, <2>1, <2>2, <2>3, <2>4 DEF Called, Restaged
  <2> QED
    BY <1>2, <2>1, <2>5 DEF Steady
<1>6. CASE Stop
  <2>1. /\ hand' = [h EXCEPT !.requested = "Stopped", !.wait = "stop"]
        /\ ghost' = [ghost EXCEPT !.steady = ~At("publish")] /\ UNCHANGED <<loop, rx, world>>
        /\ hand.requested # "Disconnected" \/ hand.observed = "Faulted"
    BY <1>6 DEF Stop, h, Allowed, CheckActionAllowed, AllowedStates
  <2>2. Called(hand')
    <3>1. /\ hand' \in Hands /\ hand'.requested = "Stopped" /\ hand'.wait = "stop" /\ hand'.staged = h.staged
          /\ hand'.command = h.command /\ hand'.config = h.config /\ hand'.filter = h.filter
          /\ hand'.homing = h.homing /\ hand'.observed = h.observed
      BY <1>1, <2>1 DEF Hands, Lifecycle
    <3> QED
      BY <1>0, <1>1, <2>1, <3>1 DEF Called, Restaged
  <2> QED
    BY <1>2, <2>1, <2>2 DEF Steady
<1>7. CASE StartHoming
  <2> DEFINE g == [h EXCEPT !.homing = "InProgress"]
  <2>1. /\ ghost' = [ghost EXCEPT !.steady = ghost.steady /\ (At("publish") => hand'.requested = hand.requested)]
        /\ UNCHANGED <<loop, rx, world>>
        /\ hand.requested # "Disconnected" \/ hand.observed = "Faulted"
        /\ hand.wait = "none"
    BY <1>7 DEF StartHoming, Free, Allowed, CheckActionAllowed, AllowedStates
  <2>2. \/ hand' = g
        \/ hand' = [g EXCEPT !.requestHoming = TRUE, !.requested = "Running",
                             !.requestHold = g.requestHold \/ hand.requested = "Stopped"]
    BY <1>1, <1>7 DEF StartHoming, h, Hands
  <2>3. /\ g \in Hands /\ g.staged = h.staged /\ g.command = h.command /\ g.config = h.config /\ g.requested = h.requested
        /\ g.filter = h.filter /\ g.homing = "InProgress" /\ g.observed = h.observed /\ g.wait = h.wait
    BY <1>1 DEF Hands
  <2> HIDE DEF g
  <2>4. /\ hand' \in Hands /\ hand'.requested \in {g.requested, "Running"} /\ hand'.wait = g.wait /\ hand'.staged = g.staged
        /\ hand'.command = g.command /\ hand'.config = g.config /\ hand'.filter = g.filter
        /\ hand'.homing = g.homing /\ hand'.observed = g.observed
    BY <2>2, <2>3 DEF Hands, Lifecycle
  <2>5. Called(hand')
    BY <1>0, <1>1, <2>1, <2>3, <2>4 DEF Called, Restaged
  <2> QED
    BY <1>3, <2>1, <2>5 DEF Steady
<1>8. CASE Return
  <2>1. /\ ghost' = [ghost EXCEPT !.steady = ghost.steady /\ (At("publish") => hand'.requested = hand.requested)]
        /\ UNCHANGED <<loop, rx, world>>
    BY <1>8 DEF Return
  <2>2. \/ hand' = [hand EXCEPT !.observed = "Connected", !.wait = "none"]
        \/ hand.wait = "join" /\ hand' = [hand EXCEPT !.observed = "Disconnected", !.comm = FALSE, !.wait = "none"]
        \/ hand' = [hand EXCEPT !.wait = "none"]
        \/ hand.wait = "run" /\ hand' = [h EXCEPT !.requested = "Stopped", !.wait = "none"]
    BY <1>8 DEF Return, WaitEnds, h
  <2>3. CASE \/ hand' = [hand EXCEPT !.observed = "Connected", !.wait = "none"]
             \/ hand.wait = "join" /\ hand' = [hand EXCEPT !.observed = "Disconnected", !.comm = FALSE, !.wait = "none"]
             \/ hand' = [hand EXCEPT !.wait = "none"]
    <3>1. /\ hand' \in Hands /\ hand'.requested = hand.requested /\ hand'.wait = "none" /\ hand'.staged = hand.staged
          /\ hand'.command = hand.command /\ hand'.config = hand.config /\ hand'.filter = hand.filter
          /\ hand'.homing = hand.homing
          /\ hand'.observed \in {hand.observed, "Connected"} \/ hand.requested = "Disconnected"
      <4>1. CASE hand' = [hand EXCEPT !.observed = "Connected", !.wait = "none"]
        BY <1>0, <4>1 DEF Hands, Lifecycle
      <4>2. CASE hand.wait = "join" /\ hand' = [hand EXCEPT !.observed = "Disconnected", !.comm = FALSE, !.wait = "none"]
        BY <1>0, <4>2 DEF Hands, Lifecycle
      <4>3. CASE hand' = [hand EXCEPT !.wait = "none"]
        BY <1>0, <4>3 DEF Hands
      <4> QED
        BY <2>3, <4>1, <4>2, <4>3
    <3>2. Called(hand')
      BY <1>0, <3>1 DEF Called
    <3> QED
      BY <1>3, <2>1, <3>2 DEF Steady
  <2>4. CASE hand.wait = "run" /\ hand' = [h EXCEPT !.requested = "Stopped", !.wait = "none"]
    <3>1. /\ hand' \in Hands /\ hand'.requested = "Stopped" /\ hand'.wait = "none" /\ hand'.staged = h.staged
          /\ hand'.command = h.command /\ hand'.config = h.config /\ hand'.filter = h.filter
          /\ hand'.homing = h.homing /\ hand'.observed = h.observed
      BY <1>1, <2>4 DEF Hands, Lifecycle
    <3>2. Called(hand')
      BY <1>0, <1>1, <2>4, <3>1 DEF Called, Restaged
    <3> QED
      BY <1>3, <2>1, <3>2 DEF Steady
  <2> QED
    BY <2>2, <2>3, <2>4
<1> QED
  BY <1>4, <1>5, <1>6, <1>7, <1>8 DEF Steady

(* No call disturbs the loop, and none stages a joint command where the    *)
(* memory of an earlier session is left.                                   *)
LEMMA OngoingKeeps ==
  ASSUME CycleInv, Ongoing
  PROVE  CycleInv'
<1>1. /\ Called(hand') /\ UNCHANGED <<loop, rx, world>>
      /\ \E b \in BOOLEAN : /\ ghost' = [ghost EXCEPT !.steady = b]
                            /\ ~At("publish") /\ ghost.steady => b
                            /\ At("publish") /\ b => hand'.requested = hand.requested /\ ghost.steady
  <2>1. TypeOK /\ Requests /\ ghost.steady \in BOOLEAN /\ ghost = [ghost EXCEPT !.steady = ghost.steady]
    BY DEF CycleInv, TypeOK
  <2>2. CASE Setting
    <3>1. Called(hand') /\ hand'.requested = hand.requested /\ UNCHANGED <<loop, rx, world, ghost>>
      BY <2>1, <2>2, SettingSteps
    <3>2. ghost' = [ghost EXCEPT !.steady = ghost.steady]
      BY <2>1, <3>1
    <3> QED
      BY <2>1, <3>1, <3>2
  <2>3. CASE Disconnect \/ Run \/ Stop \/ StartHoming \/ Return
    BY <2>1, <2>3, CallSteps
  <2> QED
    BY <2>2, <2>3 DEF Ongoing
<1>2. PICK b \in BOOLEAN : /\ ghost' = [ghost EXCEPT !.steady = b]
                           /\ ~At("publish") /\ ghost.steady => b
                           /\ At("publish") /\ b => hand'.requested = hand.requested /\ ghost.steady
  BY <1>1
<1>3. /\ ghost'.steady = b /\ ghost'.last = ghost.last /\ ghost'.from = ghost.from /\ ghost'.gap = ghost.gap
      /\ ghost'.sent = ghost.sent /\ loop' = loop
  BY <1>1, <1>2 DEF CycleInv, TypeOK
<1>4. TypeOK'
  BY <1>1, <1>2 DEF CycleInv, TypeOK, Called
<1>5. InForce'
  <2>1. hand'.staged # Empty /\ hand'.filter # "empty"
    BY <1>1, Constants DEF Called, Hands, Filters
  <2> QED
    BY <1>1, <2>1 DEF CycleInv, InForce, Called
<1>6. Requests'
  BY <1>1, <1>3 DEF CycleInv, Requests, Called, At
<1>7. Reset'
  BY <1>1, <1>3 DEF CycleInv, Requests, Reset, Stale, Called, At, ControlSession
<1>8. NoJump' /\ FrameIsBounded'
  BY <1>3 DEF CycleInv, NoJump, FrameIsBounded, At, Kind, ActiveCommand
<1>9. (At("publish") \/ ghost.steady)' /\ SourceIsTrue'
  BY <1>2, <1>3 DEF CycleInv, SourceIsTrue, Echo, ControlSession, At
<1> QED
  BY <1>4, <1>5, <1>6, <1>7, <1>8, <1>9 DEF CycleInv

(* A new session begins from the defaults and finds what was staged last   *)
(* published for it; the memory of the controllers is still that of the    *)
(* session before.                                                         *)
LEMMA SessionKeeps ==
  ASSUME CycleInv, Connect \/ Reconnect
  PROVE  CycleInv'
<1>0. /\ hand \in Hands /\ Idle \in Controllers /\ Idle.kind \notin JointKinds /\ 0 \in 0..MaxEffort
      /\ DefaultCommand \in Commands /\ DefaultCommand.controller = Idle /\ 0 \in Counts
      /\ Empty \notin Commands
  BY Constants, ControlCycleAssumption DEF CycleInv, TypeOK, Idle, JointKinds, DefaultCommand, Command
<1>1. /\ At("none") /\ loop' = [loop EXCEPT !.thread = [IdleLoop EXCEPT !.pc = "top"]]
      /\ rx' = [any |-> FALSE, count |-> 0, tactile |-> 0]
      /\ ghost' = [ghost EXCEPT !.last = "none"] /\ world' = world
  BY DEF Connect, Reconnect, NewSession, At
<1>2. /\ hand' \in Hands /\ hand'.requested = "Connected" /\ hand'.homing = "NotRun" /\ hand'.wait = "connect"
      /\ hand'.command = hand'.staged /\ hand'.config = hand'.filter
      /\ hand'.staged.controller.kind \notin JointKinds
  <2>1. ASSUME NEW h \in Hands
        PROVE  /\ Connecting(h) \in Hands /\ Connecting(h).requested = "Connected" /\ Connecting(h).homing = "NotRun"
               /\ Connecting(h).wait = "connect" /\ Connecting(h).staged = h.staged
               /\ Connecting(h).command = Connecting(h).staged /\ Connecting(h).config = Connecting(h).filter
    <3>1. h.staged \in Commands \cup {Empty} /\ h.filter \in Filters \cup {"empty"} /\ "Connected" \in Lifecycle
      BY DEF Hands, Lifecycle
    <3> QED
      BY <3>1 DEF Connecting, Hands
  <2>2. CASE Connect
    <3>1. hand' = Connecting(hand) /\ hand.observed = "Disconnected" /\ At("none")
      BY <2>2 DEF Connect, At
    <3>2. hand.staged.controller.kind \notin JointKinds
      BY <3>1 DEF CycleInv, Requests
    <3> QED
      BY <1>0, <2>1, <3>1, <3>2
  <2>3. CASE Reconnect
    <3> DEFINE g == Stage(hand, Idle)
               h == [g EXCEPT !.observed = "Disconnected", !.requestHoming = FALSE, !.requestHold = FALSE]
    <3>1. g \in Hands /\ g.staged.controller = Idle
      BY <1>0, Staging DEF Restaged
    <3>2. hand' = Connecting(h)
      BY <2>3 DEF Reconnect
    <3> HIDE DEF g
    <3>3. h \in Hands /\ h.staged = g.staged
      BY <3>1 DEF Hands, Lifecycle
    <3> HIDE DEF h
    <3> QED
      BY <1>0, <2>1, <3>1, <3>2, <3>3
  <2> QED
    BY <2>2, <2>3
<1>3. NoFrame \in Frames
  BY <1>0 DEF NoFrame, Frames
<1>4. /\ loop'.memory = loop.memory /\ loop'.thread \in Threads
      /\ loop'.thread.pc = "top" /\ loop'.thread.req = "Disconnected" /\ loop'.thread.active = DefaultCommand
      /\ loop' \in [thread : Threads, memory : Memories]
      /\ ghost'.last = "none" /\ ghost'.steady = ghost.steady
  <2> DEFINE t == [IdleLoop EXCEPT !.pc = "top"]
  <2>1. t \in Threads /\ t.pc = "top" /\ t.req = "Disconnected" /\ t.active = DefaultCommand
    BY <1>0, <1>3 DEF IdleLoop, Threads, Filters, DefaultFilter, Lifecycle
  <2> HIDE DEF t
  <2>2. loop' = [loop EXCEPT !.thread = t] /\ loop \in [thread : Threads, memory : Memories]
    BY <1>1 DEF t, CycleInv, TypeOK
  <2>3. ghost'.last = "none" /\ ghost'.steady = ghost.steady
    BY <1>1 DEF CycleInv, TypeOK
  <2> QED
    BY <2>1, <2>2, <2>3
<1>5. TypeOK'
  BY <1>0, <1>1, <1>2, <1>4 DEF CycleInv, TypeOK
<1>6. InForce'
  <2>1. hand'.command # Empty /\ hand'.config # "empty"
    BY <1>0, <1>2 DEF Hands, Filters
  <2> QED
    BY <1>2, <2>1 DEF InForce
<1>7. Requests'
  BY <1>2, <1>4 DEF Requests, At, JointKinds
<1>8. Reset'
  BY <1>0, <1>2, <1>4 DEF CycleInv, Reset, Stale, At
<1>9. NoJump' /\ FrameIsBounded' /\ (At("publish") \/ ghost.steady)' /\ SourceIsTrue'
  BY <1>1, <1>4 DEF CycleInv, NoJump, FrameIsBounded, SourceIsTrue, At
<1> QED
  BY <1>5, <1>6, <1>7, <1>8, <1>9 DEF CycleInv

-----------------------------------------------------------------------------
(* The cycle.                                                              *)

(* The end of the loop.                                                    *)
LEMMA ExitKeeps ==
  ASSUME CycleInv, Exit
  PROVE  CycleInv'
<1>0. /\ hand \in Hands /\ loop \in [thread : Threads, memory : Memories] /\ 0 \in 0..MaxEffort
      /\ DefaultCommand \in Commands /\ DefaultCommand.controller.kind = "Idle"
  BY Constants DEF CycleInv, TypeOK, Idle, DefaultCommand, Command
<1>1. /\ At("top") /\ loop' = [loop EXCEPT !.thread = IdleLoop] /\ UNCHANGED <<rx, world, ghost>>
      /\ hand.requested = "Disconnected" \/ hand.observed = "Faulted"
  BY DEF Exit, UpdateThread, At
<1>2. /\ hand' \in Hands /\ hand'.requested = hand.requested /\ hand'.staged = hand.staged /\ hand'.command = hand.command
      /\ hand'.config = hand.config /\ hand'.filter = hand.filter /\ hand'.homing = hand.homing
      /\ hand'.wait = "none" \/ hand'.wait = hand.wait
      /\ hand'.observed = "Faulted" \/ hand'.requested = "Disconnected"
  <2>1. CASE hand.requested = "Disconnected"
    <3>1. hand' = [hand EXCEPT !.observed = "Disconnected", !.comm = FALSE, !.wait = "none"]
      BY <2>1 DEF Exit
    <3> QED
      BY <1>0, <2>1, <3>1 DEF Hands, Lifecycle
  <2>2. CASE hand.requested # "Disconnected"
    BY <1>0, <1>1, <2>2 DEF Exit
  <2> QED
    BY <2>1, <2>2
<1>3. /\ IdleLoop \in Threads /\ IdleLoop.pc = "none" /\ IdleLoop.req = "Disconnected"
      /\ IdleLoop.active = DefaultCommand
  <2>1. NoFrame \in Frames
    BY <1>0 DEF NoFrame, Frames
  <2> QED
    BY <1>0, <2>1 DEF IdleLoop, Threads, Filters, DefaultFilter, Lifecycle
<1>4. /\ loop' \in [thread : Threads, memory : Memories] /\ loop'.memory = loop.memory
      /\ loop'.thread = IdleLoop
  BY <1>0, <1>1, <1>3
<1>5. TypeOK' /\ InForce'
  BY <1>1, <1>2, <1>3, <1>4 DEF CycleInv, TypeOK, InForce
<1>6. Requests'
  BY <1>1, <1>2, <1>3, <1>4 DEF CycleInv, Requests, At
<1>7. Reset'
  BY <1>0, <1>1, <1>2, <1>3, <1>4 DEF CycleInv, Reset, Stale, At, JointKinds
<1>8. NoJump' /\ FrameIsBounded' /\ (At("publish") \/ ghost.steady)' /\ SourceIsTrue'
  BY <1>1, <1>3, <1>4 DEF CycleInv, NoJump, FrameIsBounded, SourceIsTrue, At
<1> QED
  BY <1>5, <1>6, <1>7, <1>8 DEF CycleInv

(* The cycle takes what has been published for it.                         *)
LEMMA InputKeeps ==
  ASSUME CycleInv, Input
  PROVE  CycleInv'
<1>0. /\ hand \in Hands /\ loop \in [thread : Threads, memory : Memories] /\ loop.thread \in Threads
      /\ loop.thread.pc = "top" /\ Empty \notin Commands
  BY Constants DEF CycleInv, TypeOK, Input, At
<1> DEFINE start == hand.requestHoming /\ hand.requested = "Running"
           active == IF hand.command = Empty THEN loop.thread.active ELSE hand.command
           filter == IF hand.config = "empty" THEN loop.thread.filter ELSE hand.config
           homing == loop.thread.homing \/ start
           found == IF hand.requestHoming /\ ~start THEN "Failed" ELSE hand.homing
           t == [loop.thread EXCEPT !.pc = "observe", !.req = hand.requested, !.obs = hand.observed,
                                    !.active = active, !.filter = filter, !.homing = homing]
           h == [hand EXCEPT !.command = Empty, !.config = "empty", !.requestHoming = FALSE, !.homing = found]
<1>1. /\ active \in Commands /\ filter \in Filters /\ active = hand.staged /\ filter = hand.filter
      /\ homing \in BOOLEAN /\ found \in {hand.homing, "Failed"}
  BY <1>0 DEF CycleInv, InForce, Hands, Threads
<1>2. loop' = [loop EXCEPT !.thread = t]
  <2>1. t = [loop.thread EXCEPT !.pc = "observe", !.req = hand.requested, !.obs = hand.observed,
                                !.active = IF hand.command = Empty THEN @ ELSE hand.command,
                                !.filter = IF hand.config = "empty" THEN @ ELSE hand.config,
                                !.homing = @ \/ start]
    BY <1>0 DEF Threads
  <2> QED
    BY <2>1 DEF Input, UpdateThread
<1>3. hand' = h
  BY <1>0 DEF Input, Hands
<1>4. UNCHANGED <<rx, world, ghost>> /\ hand.requested # "Disconnected"
  BY DEF Input
<1> HIDE DEF start, active, filter, homing, found
<1>5. /\ t \in Threads /\ t.pc = "observe" /\ t.req = hand.requested /\ t.obs = hand.observed
      /\ t.active = active /\ t.filter = filter
  BY <1>0, <1>1 DEF Threads, Hands
<1>6. /\ h \in Hands /\ h.command = Empty /\ h.config = "empty" /\ h.staged = hand.staged /\ h.filter = hand.filter
      /\ h.requested = hand.requested /\ h.observed = hand.observed /\ h.wait = hand.wait
      /\ h.homing \in {hand.homing, "Failed"}
  BY <1>0, <1>1 DEF Hands
<1> HIDE DEF t, h
<1>7. loop'.thread = t /\ loop'.memory = loop.memory /\ loop' \in [thread : Threads, memory : Memories]
  BY <1>0, <1>2, <1>5
<1>8. TypeOK' /\ InForce'
  BY <1>1, <1>3, <1>4, <1>5, <1>6, <1>7 DEF CycleInv, TypeOK, InForce
<1>9. Requests'
  BY <1>0, <1>3, <1>4, <1>5, <1>6, <1>7 DEF CycleInv, Requests, At
<1>10. Reset'
  BY <1>0, <1>1, <1>3, <1>4, <1>5, <1>6, <1>7 DEF CycleInv, Reset, Stale, At
<1>11. NoJump' /\ FrameIsBounded' /\ (At("publish") \/ ghost.steady)' /\ SourceIsTrue'
  BY <1>0, <1>4, <1>5, <1>7 DEF CycleInv, NoJump, FrameIsBounded, SourceIsTrue, At
<1> QED
  BY <1>8, <1>9, <1>10, <1>11 DEF CycleInv

(* The impedance controller caps its effort itself.                        *)
LEMMA ImpedanceBounds ==
  ASSUME NEW m \in Memories, NEW target \in DOMAIN Ik, NEW cap \in 0..MaxEffort, NEW count \in Counts
  PROVE  Impedance(m, target, cap, count) \in -cap..cap /\ -cap..cap \subseteq Int
<1> DEFINE way == IF m.previous = Unset THEN 0 ELSE count - m.previous
           effort == Stiffness * (Ik[target] - count) - Damping * way
<1>1. Ik[target] \in Int /\ count \in Int /\ Stiffness \in Int /\ Damping \in Int /\ cap \in Int /\ 0 <= cap
  BY Constants, ControlCycleAssumption
<1>2. m.previous \in Counts \cup {Unset} /\ Counts \subseteq Int
  BY Constants DEF Memories
<1>3. way \in Int
  <2>1. CASE m.previous = Unset
    BY <2>1
  <2>2. CASE m.previous # Unset
    <3>1. m.previous \in Int
      BY <1>2, <2>2
    <3> QED
      BY <1>1, <2>2, <3>1
  <2> QED
    BY <2>1, <2>2
<1> HIDE DEF way
<1>4. effort \in Int
  <2>1. Ik[target] - count \in Int
    BY <1>1
  <2>2. \A a, b \in Int : a * b \in Int
    OBVIOUS
  <2>3. Stiffness * (Ik[target] - count) \in Int
    BY <1>1, <2>1, <2>2
  <2>4. Damping * way \in Int
    BY <1>1, <1>3, <2>2
  <2> QED
    BY <2>3, <2>4
<1> HIDE DEF effort
<1>5. Clamp(effort, -cap, cap) \in -cap..cap
  BY <1>1, <1>4 DEF Clamp
<1> QED
  BY <1>1, <1>5 DEF Impedance, effort, way

(* Whatever the command, the effort that goes out is within its cap, and   *)
(* the position of an actuator is the one that was asked for.              *)
LEMMA FrameBounds ==
  ASSUME NEW m \in Memories, NEW command \in Commands, NEW after \in Memories, NEW count \in Counts,
         NEW masked \in BOOLEAN, command.controller.kind = "JointPosition" => after.section # Unset
  PROVE  /\ Frame(m, command, after, count, masked) \in Frames
         /\ Frame(m, command, after, count, masked).mode = "CST" =>
              Frame(m, command, after, count, masked).value
                \in -Frame(m, command, after, count, masked).cap..Frame(m, command, after, count, masked).cap
         /\ command.controller.kind = "ActuatorPosition" /\ ~Frame(m, command, after, count, masked).masked =>
              Frame(m, command, after, count, masked).value = command.controller.target
<1> DEFINE c == command.controller
           mode == IF c.kind \in {"ActuatorPosition", "JointPosition"} THEN "CSP" ELSE "CST"
           value == CASE masked -> IF mode = "CSP" THEN count ELSE 0
                      [] ~masked /\ c.kind = "ActuatorPosition" -> ToInteger(c.target)
                      [] ~masked /\ c.kind = "JointPosition" -> Ik[after.section]
                      [] ~masked /\ c.kind = "ActuatorEffort" -> Clamp(c.target, -command.cap, command.cap)
                      [] ~masked /\ c.kind = "JointImpedance" -> Impedance(m, c.target, command.cap, count)
                      [] OTHER -> 0
<1>1. /\ c \in Controllers /\ c.kind \in Kinds /\ c.target \in Int /\ command.cap \in 0..MaxEffort
      /\ c.kind \in JointKinds => c.target \in DOMAIN Ik
      /\ c.kind = "ActuatorPosition" => c.target \in -Word..Word - 1
      /\ count \in Int /\ command.cap \in Int /\ 0 <= command.cap /\ -command.cap..command.cap \subseteq Int
  BY Constants DEF Commands, Controllers
<1>2. Frame(m, command, after, count, masked) = [mode |-> mode, value |-> value, cap |-> command.cap, masked |-> masked]
  BY DEF Frame
<1>3. /\ value \in Int
      /\ mode = "CST" => value \in -command.cap..command.cap
      /\ c.kind = "ActuatorPosition" /\ ~masked => value = c.target
  <2>1. CASE masked
    BY <1>1, <2>1
  <2>2. CASE ~masked /\ c.kind = "ActuatorPosition"
    <3>1. value = ToInteger(c.target) /\ mode = "CSP"
      BY <2>2
    <3> QED
      BY <1>1, <2>2, <3>1 DEF ToInteger
  <2>3. CASE ~masked /\ c.kind = "JointPosition"
    <3>1. value = Ik[after.section] /\ mode = "CSP" /\ after.section \in DOMAIN Ik
      BY <2>3 DEF Memories, Angles
    <3> QED
      BY <2>3, <3>1, ControlCycleAssumption
  <2>4. CASE ~masked /\ c.kind = "ActuatorEffort"
    <3>1. value = Clamp(c.target, -command.cap, command.cap)
      BY <2>4
    <3> HIDE DEF value, mode
    <3>2. value \in -command.cap..command.cap
      BY <1>1, <3>1 DEF Clamp
    <3> QED
      BY <1>1, <2>4, <3>2
  <2>5. CASE ~masked /\ c.kind = "JointImpedance"
    <3>1. value = Impedance(m, c.target, command.cap, count)
      BY <2>5
    <3>2. c.target \in DOMAIN Ik
      BY <1>1, <2>5 DEF JointKinds
    <3> HIDE DEF value, mode
    <3>3. value \in -command.cap..command.cap
      BY <1>1, <3>1, <3>2, ImpedanceBounds
    <3> QED
      BY <1>1, <2>5, <3>3
  <2>6. CASE ~masked /\ c.kind = "Idle"
    <3>1. value = 0
      BY <2>6
    <3> HIDE DEF value, mode
    <3> QED
      BY <1>1, <2>6, <3>1
  <2> QED
    BY <1>1, <2>1, <2>2, <2>3, <2>4, <2>5, <2>6 DEF Kinds
<1>4. mode \in {"CSP", "CST"}
  OBVIOUS
<1> HIDE DEF mode, value
<1> QED
  BY <1>1, <1>2, <1>3, <1>4 DEF Frames

(* The drive's count of that position is the one from its own origin, but  *)
(* for the last counts before the wrap.                                    *)
LEMMA EncodedBounds ==
  ASSUME NEW m \in Memories, NEW command \in Commands, NEW after \in Memories, NEW count \in Counts,
         NEW masked \in BOOLEAN, command.controller.kind = "JointPosition" => after.section # Unset,
         NEW f, f = Encoded(Frame(m, command, after, count, masked))
  PROVE  /\ f \in Frames
         /\ f.mode = "CST" => f.value \in -f.cap..f.cap
         /\ command.controller.kind = "ActuatorPosition" /\ ~f.masked =>
              \/ f.value = command.controller.target + HomeOffset
              \/ command.controller.target \in Word - HomeOffset..Word - 1
<1> DEFINE g == Frame(m, command, after, count, masked)
<1>1. /\ g \in Frames
      /\ g.mode = "CST" => g.value \in -g.cap..g.cap
      /\ command.controller.kind = "ActuatorPosition" /\ ~g.masked => g.value = command.controller.target
  BY FrameBounds
<1>2. f = Encoded(g)
  OBVIOUS
<1>3. /\ HomeOffset \in Int /\ Word \in Int
      /\ command.controller.kind = "ActuatorPosition" => command.controller.target \in -Word..Word - 1
  BY Constants, ControlCycleAssumption DEF Commands, Controllers
<1> HIDE DEF g
<1>4. CASE g.mode = "CSP"
  <2>1. f = [g EXCEPT !.value = Wrapped(g.value + HomeOffset)] /\ g.value \in Int
    BY <1>1, <1>2, <1>4 DEF Encoded, Frames
  <2>2. Wrapped(g.value + HomeOffset) \in Int
    BY <1>3, <2>1 DEF Wrapped
  <2>3. f \in Frames /\ f.mode = "CSP" /\ f.masked = g.masked /\ f.value = Wrapped(g.value + HomeOffset)
    BY <1>1, <1>4, <2>1, <2>2 DEF Frames
  <2>4. ASSUME command.controller.kind = "ActuatorPosition", ~f.masked
        PROVE  \/ f.value = command.controller.target + HomeOffset
               \/ command.controller.target \in Word - HomeOffset..Word - 1
    <3>1. g.value = command.controller.target /\ command.controller.target \in -Word..Word - 1
      BY <1>1, <1>3, <2>3, <2>4
    <3> QED
      BY <1>3, <2>3, <3>1 DEF Wrapped
  <2> QED
    BY <2>3, <2>4
<1>5. CASE g.mode # "CSP"
  <2>1. f = g
    BY <1>2, <1>5 DEF Encoded
  <2>2. command.controller.kind # "ActuatorPosition"
    BY <1>5 DEF Frame, g
  <2> QED
    BY <1>1, <2>1, <2>2
<1> QED
  BY <1>4, <1>5

(* What a cycle leaves in the memory of the controllers.                   *)
LEMMA MemoryAfter ==
  ASSUME NEW m \in Memories, NEW kind, NEW count \in Counts
  PROVE  /\ ResetInactive(m, kind, count) \in Memories
         /\ ResetInactive(m, kind, count).joint = m.joint
         /\ kind = "JointPosition" => /\ ResetInactive(m, kind, count).held = m.held
                                      /\ ResetInactive(m, kind, count).section = m.section
         /\ kind # "JointPosition" => ResetInactive(m, kind, count).held = Unset
         /\ kind = "JointImpedance" => ResetInactive(m, kind, count).previous # Unset
         /\ kind # "JointImpedance" => ResetInactive(m, kind, count).previous = Unset
<1>1. count # Unset
  BY Constants
<1> DEFINE held == IF kind = "JointPosition" THEN m.held ELSE Unset
           section == IF kind = "JointPosition" THEN m.section ELSE Unset
           previous == IF kind = "JointImpedance" THEN count ELSE Unset
<1>2. held \in Angles /\ section \in Angles /\ previous \in Counts \cup {Unset}
  BY DEF Memories, Angles
<1>3. ResetInactive(m, kind, count) = [m EXCEPT !.held = held, !.section = section, !.previous = previous]
  BY DEF ResetInactive, Memories
<1> HIDE DEF held, section, previous
<1>4. /\ ResetInactive(m, kind, count) \in Memories /\ ResetInactive(m, kind, count).joint = m.joint
      /\ ResetInactive(m, kind, count).held = held /\ ResetInactive(m, kind, count).section = section
      /\ ResetInactive(m, kind, count).previous = previous
  BY <1>2, <1>3 DEF Memories
<1> QED
  BY <1>1, <1>4 DEF held, section, previous

(* What the loop observes, and the memory it leaves for the next cycle.    *)
Seen(joint, bias) == [loop.memory EXCEPT !.joint = joint, !.bias = bias]
Active == ActiveCommand(loop.thread)
Moved(m) ==
  IF Kind = "JointPosition" THEN PositionControl(m, Active.controller.target, loop.thread.filter, m.joint) ELSE m
After(m, obs, count) == IF ControlSession(loop.thread, obs) THEN ResetInactive(Moved(m), Kind, count) ELSE m

(* The memory has its type, the controller in use has moved by one step    *)
(* from where it was, and in a session no other memory is left.            *)
LEMMA Remembered ==
  ASSUME CycleInv, At("observe"), NEW obs \in Lifecycle, NEW joint \in DOMAIN Ik, NEW bias \in {0, 1},
         NEW count \in Counts, NEW m, m = Seen(joint, bias)
  PROVE  /\ m \in Memories /\ After(m, obs, count) \in Memories /\ Active \in Commands /\ m.joint = joint
         /\ Kind \in JointKinds => loop.thread.req = "Running" /\ Active = loop.thread.active
         /\ Kind = "ActuatorPosition" => Active = loop.thread.active
         /\ After(m, obs, count).held # Unset => After(m, obs, count).section # Unset
         /\ ControlSession(loop.thread, obs) =>
              /\ Kind = "JointPosition" <=> After(m, obs, count).held # Unset
              /\ Kind = "JointImpedance" <=> After(m, obs, count).previous # Unset
         /\ ~ControlSession(loop.thread, obs) =>
              /\ After(m, obs, count).held = loop.memory.held /\ After(m, obs, count).previous = loop.memory.previous
              /\ ghost.last \notin JointKinds
         /\ Kind = "JointPosition" /\ loop.thread.filter = "on" =>
              Distance(After(m, obs, count).section, IF ghost.last = "JointPosition" THEN loop.memory.section ELSE joint) <= 1
         /\ Kind = "JointImpedance" => loop.memory.previous = Unset \/ ghost.last = "JointImpedance"
<1>1. /\ loop \in [thread : Threads, memory : Memories] /\ loop.memory \in Memories /\ loop.thread \in Threads
      /\ loop.thread.req \in {"Connected", "Running", "Stopped"}
      /\ DefaultCommand \in Commands /\ DefaultCommand.controller.kind = "Idle"
  <2> TypeOK /\ Requests
    BY DEF CycleInv
  <2>1. loop.thread.req # "Disconnected"
    BY DEF Requests
  <2>2. loop \in [thread : Threads, memory : Memories]
    BY DEF TypeOK
  <2>3. loop.thread.req \in {"Disconnected", "Connected", "Running", "Stopped"}
    BY <2>2 DEF Threads, Lifecycle
  <2>4. DefaultCommand \in Commands
    BY Constants
  <2>5. DefaultCommand.controller.kind = "Idle"
    BY DEF DefaultCommand, Command, Idle
  <2> QED
    BY <2>1, <2>2, <2>3, <2>4, <2>5
<1>2. /\ m \in Memories /\ m.joint = joint /\ m.held = loop.memory.held /\ m.section = loop.memory.section
      /\ m.previous = loop.memory.previous
  BY <1>1 DEF Seen, Memories
<1>3. /\ Active \in Commands /\ Active.controller \in Controllers /\ Kind = Active.controller.kind
      /\ Kind # "Idle" => loop.thread.req = "Running" /\ Active = loop.thread.active
      /\ Kind \in JointKinds => Active.controller.target \in DOMAIN Ik
  BY <1>1 DEF Active, ActiveCommand, Kind, Threads, Commands, Controllers
<1>4. loop.memory.held # Unset => loop.memory.section # Unset
  BY DEF CycleInv, Reset
<1>5. ~ControlSession(loop.thread, obs) => ghost.last \notin JointKinds /\ Kind \notin JointKinds
  BY <1>1, <1>3 DEF CycleInv, Requests, ControlSession, JointKinds
<1>6. Kind \in JointKinds => ~Stale
  BY <1>3 DEF CycleInv, Reset, Kind, Active, JointKinds
<1>8. /\ Moved(m) \in Memories
      /\ Moved(m).held # Unset => Moved(m).section # Unset
      /\ Kind = "JointPosition" => Moved(m).held # Unset
      /\ Kind = "JointPosition" /\ loop.thread.filter = "on" =>
           Distance(Moved(m).section, IF m.held = Unset THEN joint ELSE m.section) <= 1
  <2>1. CASE Kind = "JointPosition"
    <3> DEFINE target == Active.controller.target
               n == PositionControl(m, target, loop.thread.filter, m.joint)
    <3>1. target \in DOMAIN Ik /\ loop.thread.filter \in Filters /\ (m.held # Unset => m.section # Unset)
      BY <1>1, <1>2, <1>3, <1>4, <2>1 DEF JointKinds, Threads
    <3> HIDE DEF target
    <3>2. /\ n \in Memories /\ n.held # Unset /\ n.section # Unset
          /\ loop.thread.filter = "on" => Distance(n.section, IF m.held = Unset THEN m.joint ELSE m.section) <= 1
      BY <1>2, <3>1, PositionMoves
    <3>3. Moved(m) = n
      BY <2>1 DEF Moved, target
    <3> HIDE DEF n
    <3> QED
      BY <1>2, <2>1, <3>2, <3>3
  <2>2. CASE Kind # "JointPosition"
    BY <1>2, <1>4, <2>2 DEF Moved
  <2> QED
    BY <2>1, <2>2
<1> DEFINE n == ResetInactive(Moved(m), Kind, count)
<1>9. /\ n \in Memories
      /\ Kind = "JointPosition" => n.held = Moved(m).held /\ n.section = Moved(m).section
      /\ Kind # "JointPosition" => n.held = Unset
      /\ Kind = "JointImpedance" <=> n.previous # Unset
  <2> DEFINE k == Kind
             g == Moved(m)
  <2>1. g \in Memories
    BY <1>8
  <2>2. n = ResetInactive(g, k, count)
    OBVIOUS
  <2>3. k = Kind /\ g = Moved(m)
    OBVIOUS
  <2> HIDE DEF k, g, n
  <2>4. /\ ResetInactive(g, k, count) \in Memories
        /\ k = "JointPosition" => /\ ResetInactive(g, k, count).held = g.held
                                 /\ ResetInactive(g, k, count).section = g.section
        /\ k # "JointPosition" => ResetInactive(g, k, count).held = Unset
        /\ k = "JointImpedance" => ResetInactive(g, k, count).previous # Unset
        /\ k # "JointImpedance" => ResetInactive(g, k, count).previous = Unset
    BY <2>1, MemoryAfter
  <2> QED
    BY <2>2, <2>3, <2>4
<1>10. After(m, obs, count) = IF ControlSession(loop.thread, obs) THEN n ELSE m
  BY DEF After
<1> HIDE DEF n
<1>11. CASE ControlSession(loop.thread, obs)
  <2>1. After(m, obs, count) = n
    BY <1>10, <1>11
  <2>2. Kind = "JointPosition" /\ loop.thread.filter = "on" =>
          Distance(n.section, IF ghost.last = "JointPosition" THEN loop.memory.section ELSE joint) <= 1
    <3>1. ASSUME Kind = "JointPosition"
          PROVE  (m.held = Unset) <=> (ghost.last # "JointPosition")
      BY <1>2, <1>6, <3>1 DEF CycleInv, Reset, Stale, JointKinds
    <3> QED
      BY <1>2, <1>8, <1>9, <3>1
  <2> QED
    BY <1>2, <1>3, <1>6, <1>8, <1>9, <1>11, <2>1, <2>2 DEF Stale, JointKinds
<1>12. CASE ~ControlSession(loop.thread, obs)
  <2>1. After(m, obs, count) = m
    BY <1>10, <1>12
  <2> QED
    BY <1>2, <1>3, <1>4, <1>5, <1>12, <2>1 DEF JointKinds
<1> QED
  BY <1>11, <1>12


(* The three things that decide an observation, as what follows from them. *)
Received(arrives) ==
  IF arrives THEN [any |-> TRUE, count |-> world.count, tactile |-> world.tactile] ELSE rx
Breaks(arrives, lost) == lost /\ ~arrives /\ rx.any /\ loop.thread.obs # "Faulted"
Observed(faults) == IF faults THEN "Faulted" ELSE loop.thread.obs
Effects(now, faults, masked, m, after) ==
  /\ rx' = now
  /\ m = Seen(Joint(now.count), Bias(loop.memory, now.tactile))
  /\ after = After(m, Observed(faults), now.count)
  /\ world' = [world EXCEPT !.faults = IF faults THEN @ - 1 ELSE @]
  /\ loop' = [thread |-> [loop.thread EXCEPT !.pc = "write", !.obs = Observed(faults), !.receiving = now.any /\ ~faults,
                            !.frame = IF ControlSession(loop.thread, Observed(faults))
                                      THEN Encoded(Frame(m, Active, after, now.count, masked)) ELSE NoFrame],
              memory |-> after]
  /\ LET h == [hand EXCEPT !.observed = IF faults THEN "Faulted" ELSE @, !.requestBias = "None", !.requestHold = FALSE] IN
     hand' = IF hand.requestHold THEN Stage(h, AtPosition(now.count)) ELSE h
  /\ ghost' = [ghost EXCEPT
       !.from = IF ghost.last = "JointPosition" THEN loop.memory.section ELSE m.joint,
       !.gap = loop.memory.previous # Unset /\ ghost.last # "JointImpedance",
       !.last = IF ControlSession(loop.thread, Observed(faults)) THEN Kind ELSE "none"]

(* What the observation of a cycle does. *)
LEMMA ObserveSteps ==
  ASSUME CycleInv, Observe
  PROVE  \E now \in [any : BOOLEAN, count : Counts, tactile : {0, 1}], faults, masked \in BOOLEAN : \E m, after :
           Effects(now, faults, masked, m, after) /\ (faults => world.faults > 0)
<1>1. PICK arrives, lost, masked \in BOOLEAN : Observation(arrives, lost, masked)
  BY DEF Observe
<1> DEFINE now == Received(arrives)
           faults == Breaks(arrives, lost)
           m == Seen(Joint(now.count), Bias(loop.memory, now.tactile))
           after == After(m, Observed(faults), now.count)
<1>2. now \in [any : BOOLEAN, count : Counts, tactile : {0, 1}]
  BY DEF CycleInv, TypeOK, Received
<1>3. faults \in BOOLEAN /\ (faults => world.faults > 0)
  BY <1>1 DEF Breaks, Observation
<1>4. Effects(now, faults, masked, m, after)
  <2>1. rx' = now /\ world' = [world EXCEPT !.faults = IF faults THEN @ - 1 ELSE @]
    BY <1>1, Zenon DEF Observation, Received, Breaks
  <2>2. loop' = [thread |-> [loop.thread EXCEPT !.pc = "write", !.obs = Observed(faults), !.receiving = now.any /\ ~faults,
                            !.frame = IF ControlSession(loop.thread, Observed(faults))
                                      THEN Encoded(Frame(m, Active, after, now.count, masked)) ELSE NoFrame],
                 memory |-> after]
    BY <1>1, Zenon DEF Observation, Received, Breaks, Observed, Seen, After, Moved, Active, Kind
  <2>3. LET h == [hand EXCEPT !.observed = IF faults THEN "Faulted" ELSE @, !.requestBias = "None", !.requestHold = FALSE] IN
        hand' = IF hand.requestHold THEN Stage(h, AtPosition(now.count)) ELSE h
    BY <1>1, Zenon DEF Observation, Received, Breaks
  <2>4. ghost' = [ghost EXCEPT
         !.from = IF ghost.last = "JointPosition" THEN loop.memory.section ELSE m.joint,
         !.gap = loop.memory.previous # Unset /\ ghost.last # "JointImpedance",
         !.last = IF ControlSession(loop.thread, Observed(faults)) THEN Kind ELSE "none"]
    BY <1>1, Zenon DEF Observation, Received, Breaks, Observed, Seen, Active, Kind
  <2> HIDE DEF now, faults, m, after
  <2>5. m = Seen(Joint(now.count), Bias(loop.memory, now.tactile)) /\ after = After(m, Observed(faults), now.count)
    BY DEF m, after
  <2> QED
    BY <2>1, <2>2, <2>3, <2>4, <2>5 DEF Effects
<1> HIDE DEF now, faults, m, after
<1> QED
  BY <1>2, <1>3, <1>4

(* The observation, the controllers and the hold of the measured pose.     *)
LEMMA ObserveKeeps ==
  ASSUME CycleInv, Observe
  PROVE  CycleInv'
<1>1. PICK now \in [any : BOOLEAN, count : Counts, tactile : {0, 1}], faults, masked \in BOOLEAN :
        \E m, after : Effects(now, faults, masked, m, after) /\ (faults => world.faults > 0)
  BY ObserveSteps
<1>2. PICK m, after : Effects(now, faults, masked, m, after) /\ (faults => world.faults > 0)
  BY <1>1
<1>3. /\ hand \in Hands /\ loop \in [thread : Threads, memory : Memories] /\ loop.thread \in Threads
      /\ loop.memory \in Memories /\ now.count \in Counts
      /\ world \in [count : Counts, tactile : {1}, moves : 0..MaxMoves, faults : 0..MaxFaults]
      /\ ghost \in [last : Kinds \cup {"none"}, from : Angles, gap : BOOLEAN, steady : BOOLEAN,
                    sent : {"None", "QuickStop", "Homing", "HomingEnds", "Controller", "Partly"}]
      /\ At("observe") /\ 0 \in 0..MaxEffort
  BY Constants DEF CycleInv, TypeOK, Observe
<1> DEFINE obs == Observed(faults)
           session == ControlSession(loop.thread, obs)
           frame == IF session THEN Encoded(Frame(m, Active, after, now.count, masked)) ELSE NoFrame
           from == IF ghost.last = "JointPosition" THEN loop.memory.section ELSE m.joint
           gap == loop.memory.previous # Unset /\ ghost.last # "JointImpedance"
           last == IF session THEN Kind ELSE "none"
           t == [loop.thread EXCEPT !.pc = "write", !.obs = obs, !.receiving = now.any /\ ~faults, !.frame = frame]
           observed == IF faults THEN "Faulted" ELSE hand.observed
           g == [hand EXCEPT !.observed = observed, !.requestBias = "None", !.requestHold = FALSE]
<1>4. /\ loop' = [thread |-> t, memory |-> after] /\ rx' = now
      /\ world' = [world EXCEPT !.faults = IF faults THEN @ - 1 ELSE @]
      /\ hand' = IF hand.requestHold THEN Stage(g, AtPosition(now.count)) ELSE g
      /\ ghost' = [ghost EXCEPT !.from = from, !.gap = gap, !.last = last]
  <2>1. [hand EXCEPT !.observed = IF faults THEN "Faulted" ELSE @, !.requestBias = "None", !.requestHold = FALSE] = g
    BY <1>3 DEF Hands
  <2> QED
    BY <1>2, <2>1 DEF Effects
<1> HIDE DEF frame, from, gap, last, session, g
<1>5. obs \in Lifecycle /\ observed \in Lifecycle
  BY <1>3 DEF Observed, Threads, Hands, Lifecycle
<1>6. /\ m \in Memories /\ after \in Memories /\ Active \in Commands
      /\ Kind \in JointKinds => loop.thread.req = "Running" /\ Active = loop.thread.active
      /\ Kind = "ActuatorPosition" => Active = loop.thread.active
      /\ after.held # Unset => after.section # Unset
      /\ session => (Kind = "JointPosition" <=> after.held # Unset)
      /\ session => (Kind = "JointImpedance" <=> after.previous # Unset)
      /\ ~session => /\ after.held = loop.memory.held /\ after.previous = loop.memory.previous
                     /\ ghost.last \notin JointKinds
      /\ Kind = "JointPosition" /\ loop.thread.filter = "on" => Distance(after.section, from) <= 1
      /\ Kind = "JointImpedance" => ~gap
  <2>1. Joint(now.count) \in DOMAIN Ik /\ Bias(loop.memory, now.tactile) \in {0, 1}
    <3>1. loop.memory.joint \in DOMAIN Ik /\ loop.memory.bias \in {0, 1} /\ now.tactile \in {0, 1}
      BY <1>3 DEF Memories
    <3>2. Fk[now.count] \in (DOMAIN Ik) \cup {NaN}
      BY <1>3, ControlCycleAssumption
    <3> QED
      BY <3>1, <3>2 DEF Joint, Bias
  <2> DEFINE joint == Joint(now.count)
             bias == Bias(loop.memory, now.tactile)
             count == now.count
  <2>2. m = Seen(joint, bias) /\ after = After(m, obs, count)
    BY <1>2 DEF Effects
  <2>3. joint \in DOMAIN Ik /\ bias \in {0, 1} /\ count \in Counts
    BY <1>3, <2>1
  <2> HIDE DEF joint, bias, count, obs
  <2>4. /\ m \in Memories /\ After(m, obs, count) \in Memories /\ Active \in Commands /\ m.joint = joint
        /\ Kind \in JointKinds => loop.thread.req = "Running" /\ Active = loop.thread.active
        /\ Kind = "ActuatorPosition" => Active = loop.thread.active
        /\ After(m, obs, count).held # Unset => After(m, obs, count).section # Unset
        /\ ControlSession(loop.thread, obs) =>
             /\ Kind = "JointPosition" <=> After(m, obs, count).held # Unset
             /\ Kind = "JointImpedance" <=> After(m, obs, count).previous # Unset
        /\ ~ControlSession(loop.thread, obs) =>
             /\ After(m, obs, count).held = loop.memory.held /\ After(m, obs, count).previous = loop.memory.previous
             /\ ghost.last \notin JointKinds
        /\ Kind = "JointPosition" /\ loop.thread.filter = "on" =>
             Distance(After(m, obs, count).section, IF ghost.last = "JointPosition" THEN loop.memory.section ELSE joint) <= 1
        /\ Kind = "JointImpedance" => loop.memory.previous = Unset \/ ghost.last = "JointImpedance"
    BY <1>3, <1>5, <2>2, <2>3, Remembered
  <2> QED
    BY <2>2, <2>4 DEF session, from, gap
<1>7. /\ frame \in Frames
      /\ frame.mode = "CST" => frame.value \in -frame.cap..frame.cap
      /\ Kind = "ActuatorPosition" /\ ~frame.masked =>
           \/ frame.value = loop.thread.active.controller.target + HomeOffset
           \/ loop.thread.active.controller.target \in Word - HomeOffset..Word - 1
  <2>1. CASE session
    <3> DEFINE count == now.count
               command == Active
               f == Encoded(Frame(m, command, after, count, masked))
    <3>1. count \in Counts /\ command \in Commands /\ command.controller.kind = Kind
      BY <1>3, <1>6 DEF Kind, Active
    <3>2. command.controller.kind = "JointPosition" => after.section # Unset
      BY <1>6, <2>1, <3>1
    <3>3. frame = f
      BY <2>1 DEF frame
    <3>4. Kind = "ActuatorPosition" => command = loop.thread.active
      BY <1>6
    <3>5. f = Encoded(Frame(m, command, after, count, masked))
      OBVIOUS
    <3> HIDE DEF count, command, f
    <3>6. /\ f \in Frames
          /\ f.mode = "CST" => f.value \in -f.cap..f.cap
          /\ command.controller.kind = "ActuatorPosition" /\ ~f.masked =>
               \/ f.value = command.controller.target + HomeOffset
               \/ command.controller.target \in Word - HomeOffset..Word - 1
      BY <1>6, <3>1, <3>2, <3>5, EncodedBounds
    <3> QED
      BY <3>1, <3>3, <3>4, <3>6
  <2>2. CASE ~session
    <3>1. frame = NoFrame
      BY <2>2 DEF frame
    <3>2. NoFrame \in Frames /\ NoFrame.value = 0 /\ NoFrame.cap = 0 /\ NoFrame.masked
      BY <1>3 DEF NoFrame, Frames
    <3>3. 0 \in -0..0
      OBVIOUS
    <3> QED
      BY <2>2, <3>1, <3>2, <3>3
  <2> QED
    BY <2>1, <2>2

<1>8. /\ t \in Threads /\ t.pc = "write" /\ t.obs = obs /\ t.req = loop.thread.req /\ t.active = loop.thread.active
      /\ t.filter = loop.thread.filter /\ t.frame = frame /\ t.homing = loop.thread.homing
  <2>1. (now.any /\ ~faults) \in BOOLEAN
    OBVIOUS
  <2> HIDE DEF obs
  <2> QED
    BY <1>3, <1>5, <1>7, <2>1 DEF Threads
<1>9. /\ hand' \in Hands /\ hand'.requested = hand.requested /\ hand'.homing = hand.homing /\ hand'.wait = hand.wait
      /\ hand'.filter = hand.filter /\ hand'.config = hand.config /\ hand'.observed \in {hand.observed, "Faulted"}
      /\ \/ hand'.staged = hand.staged /\ hand'.command = hand.command
         \/ hand'.staged = hand'.command /\ hand'.staged.controller.kind \notin JointKinds
  <2> HIDE DEF observed
  <2>1. /\ g \in Hands /\ g.requested = hand.requested /\ g.homing = hand.homing /\ g.wait = hand.wait
        /\ g.filter = hand.filter /\ g.config = hand.config /\ g.observed = observed
        /\ g.staged = hand.staged /\ g.command = hand.command
    BY <1>3, <1>5 DEF Hands, g
  <2>2. observed \in {hand.observed, "Faulted"}
    BY DEF observed
  <2>3. CASE hand.requestHold
    <3> DEFINE hold == AtPosition(now.count)
    <3>1. hold \in Controllers /\ hold.kind \notin JointKinds
      BY <1>3, Holdable
    <3>2. hand' = Stage(g, hold)
      BY <1>4, <2>3
    <3> HIDE DEF hold
    <3>3. Restaged(g, Stage(g, hold)) /\ Stage(g, hold).staged.controller = hold
      BY <1>3, <2>1, <3>1, Staging
    <3> QED
      BY <2>1, <2>2, <3>1, <3>2, <3>3 DEF Restaged
  <2>4. CASE ~hand.requestHold
    BY <1>4, <2>1, <2>2, <2>4
  <2> QED
    BY <2>3, <2>4
<1> HIDE DEF t, obs, observed
<1>10. loop' \in [thread : Threads, memory : Memories] /\ loop'.thread = t /\ loop'.memory = after
  BY <1>4, <1>6, <1>8
<1>11. /\ ghost'.last = last /\ ghost'.from = from /\ ghost'.gap = gap /\ ghost'.steady = ghost.steady
       /\ ghost' \in [last : Kinds \cup {"none"}, from : Angles, gap : BOOLEAN, steady : BOOLEAN,
                      sent : {"None", "QuickStop", "Homing", "HomingEnds", "Controller", "Partly"}]
  <2>1. from \in Angles
    BY <1>3, <1>6 DEF from, Memories, Angles
  <2>2. gap \in BOOLEAN
    BY DEF gap
  <2>3. last \in Kinds \cup {"none"}
    BY <1>6 DEF last, Kind, Active, Commands, Controllers
  <2> QED
    BY <1>3, <1>4, <2>1, <2>2, <2>3
<1>12. world' \in [count : Counts, tactile : {1}, moves : 0..MaxMoves, faults : 0..MaxFaults]
  <2>1. CASE faults
    <3>1. world.faults - 1 \in 0..MaxFaults
      BY <1>2, <1>3, <2>1, Constants
    <3>2. world' = [world EXCEPT !.faults = world.faults - 1]
      BY <1>3, <1>4, <2>1
    <3> QED
      BY <1>3, <3>1, <3>2
  <2>2. CASE ~faults
    <3>1. world' = [world EXCEPT !.faults = world.faults]
      BY <1>3, <1>4, <2>2
    <3> QED
      BY <1>3, <3>1
  <2> QED
    BY <2>1, <2>2
<1>13. TypeOK'
  BY <1>4, <1>9, <1>10, <1>11, <1>12 DEF TypeOK
<1>14. InForce'
  <2>1. hand'.staged # Empty
    BY <1>9, Constants DEF Hands
  <2>2. At("observe") /\ InForce
    BY <1>3 DEF CycleInv
  <2> QED
    BY <1>8, <1>9, <1>10, <2>1, <2>2 DEF InForce, At
<1>15. session = ControlSession(loop.thread, obs)
  BY DEF session
<1>16. Requests'
  <2>1. hand.requested = "Connected" => last \notin JointKinds
    BY <1>3, <1>6, <1>15 DEF CycleInv, Requests, last, JointKinds, At, ControlSession
  <2> QED
    BY <1>3, <1>8, <1>9, <1>10, <1>11, <2>1 DEF CycleInv, Requests, At, JointKinds
<1>17. Reset'
  <2>1. CASE session
    BY <1>6, <1>8, <1>10, <1>11, <2>1 DEF Reset, Stale, last, JointKinds
  <2>2. CASE ~session
    <3>1. Stale' => Stale
      BY <1>6, <1>10, <1>11, <2>2 DEF Stale, last, JointKinds
    <3>2. Stale => /\ hand'.homing # "Succeeded"
                   /\ hand'.staged.controller.kind \notin JointKinds
                   /\ loop'.thread.active.controller.kind \notin JointKinds
      BY <1>8, <1>9, <1>10 DEF CycleInv, Reset
    <3>3. ~ControlSession(loop'.thread, loop'.thread.obs)
      BY <1>8, <1>10, <1>15, <2>2 DEF ControlSession
    <3>4. ghost'.last = "none"
      BY <1>11, <2>2 DEF last
    <3> QED
      BY <1>6, <1>10, <3>1, <3>2, <3>3, <3>4 DEF Reset
  <2> QED
    BY <2>1, <2>2
<1>18. Kind' = Kind
  BY <1>8, <1>10 DEF Kind, ActiveCommand
<1>19. NoJump' /\ FrameIsBounded'
  BY <1>6, <1>7, <1>8, <1>10, <1>11, <1>18 DEF NoJump, FrameIsBounded
<1>20. (At("publish") \/ ghost.steady)' /\ SourceIsTrue'
  BY <1>3, <1>8, <1>10, <1>11 DEF CycleInv, SourceIsTrue, At
<1> QED
  BY <1>13, <1>14, <1>16, <1>17, <1>19, <1>20 DEF CycleInv


(* What goes out, the verdict of the drives and the end of a homing.       *)
LEMMA WriteKeeps ==
  ASSUME CycleInv, Write
  PROVE  CycleInv'
<1>0. /\ hand \in Hands /\ loop \in [thread : Threads, memory : Memories] /\ loop.thread \in Threads
      /\ ghost \in [last : Kinds \cup {"none"}, from : Angles, gap : BOOLEAN, steady : BOOLEAN,
                    sent : {"None", "QuickStop", "Homing", "HomingEnds", "Controller", "Partly"}]
      /\ world \in [count : Counts, tactile : {1}, moves : 0..MaxMoves, faults : 0..MaxFaults]
      /\ At("write") /\ loop.thread.pc = "write" /\ 0 \in 0..MaxEffort /\ 0 \in Counts /\ 0 \in Angles /\ ghost.steady
  BY Constants, ControlCycleAssumption DEF CycleInv, TypeOK, Write, At, Angles
<1>1. PICK over, success, verdict, lost \in BOOLEAN : Transmission(over, success, verdict, lost)
  BY DEF Write
<1> DEFINE t == loop.thread
           session == ControlSession(t, t.obs)
           quickStop == hand.requested # "Running" \/ t.obs = "Faulted"
           faults == lost /\ ~quickStop
           before == IF faults THEN "Faulted" ELSE hand.observed
           sent == CASE ~session -> "None"
                     [] session /\ quickStop -> "QuickStop"
                     [] session /\ ~quickStop /\ t.homing -> "Homing"
                     [] session /\ ~quickStop /\ ~t.homing -> "Controller"
           homing == t.homing /\ ~(session /\ (quickStop \/ over))
           ended == t.homing /\ ~homing
           homed == ended /\ success /\ ~quickStop
           observed == CASE before = "Faulted" -> "Faulted"
                         [] before # "Faulted" /\ t.receiving /\ verdict /\ hand.requested \in {"Running", "Stopped"} -> hand.requested
                         [] OTHER -> IF hand.observed = "Disconnected" /\ rx.any THEN "Connected" ELSE hand.observed
           result == CASE homed -> "Succeeded" [] ended /\ ~homed -> "Failed" [] OTHER -> hand.homing
           h == [hand EXCEPT !.observed = observed, !.comm = t.receiving /\ ~lost, !.homing = result]
           out == CASE faults -> "Partly"
                    [] ~faults /\ sent = "Homing" /\ ~homing -> "HomingEnds"
                    [] OTHER -> sent
           obs == IF faults THEN "Faulted" ELSE t.obs
           n == [t EXCEPT !.pc = "publish", !.obs = obs, !.homing = homing, !.receiving = FALSE, !.frame = NoFrame]
<1>2. /\ hand' = IF homed THEN Stage(h, AtPosition(0)) ELSE h
      /\ loop' = [loop EXCEPT !.thread = n]
      /\ ghost' = [ghost EXCEPT !.from = 0, !.gap = FALSE, !.sent = out]
      /\ rx' = rx /\ world' = [world EXCEPT !.faults = IF lost THEN @ - 1 ELSE @]
      /\ lost => session /\ world.faults > 0
  <2>1. [hand EXCEPT !.observed = observed, !.comm = t.receiving /\ ~lost,
                     !.homing = CASE homed -> "Succeeded" [] ended /\ ~homed -> "Failed" [] OTHER -> @] = h
    BY <1>0 DEF Hands
  <2>2. hand' = IF homed THEN Stage(h, AtPosition(0)) ELSE h
    BY <1>1, <2>1, Zenon DEF Transmission
  <2>3. loop' = [loop EXCEPT !.thread = n]
    BY <1>1, Zenon DEF Transmission, UpdateThread
  <2>4. ghost' = [ghost EXCEPT !.from = 0, !.gap = FALSE, !.sent = out]
    BY <1>1, Zenon DEF Transmission
  <2>5. rx' = rx /\ world' = [world EXCEPT !.faults = IF lost THEN @ - 1 ELSE @] /\ (lost => session /\ world.faults > 0)
    BY <1>1, Zenon DEF Transmission
  <2> QED
    BY <2>2, <2>3, <2>4, <2>5
<1>3. /\ homing \in BOOLEAN /\ homed \in BOOLEAN /\ (homed => session)
      /\ observed \in Lifecycle
      /\ result \in {hand.homing, "Succeeded", "Failed"} /\ (result = "Succeeded" => homed \/ hand.homing = "Succeeded")
      /\ sent \in {"None", "QuickStop", "Homing", "Controller"}
  <2>1. /\ t.homing \in BOOLEAN /\ t.receiving \in BOOLEAN /\ session \in BOOLEAN
        /\ hand.requested \in Lifecycle /\ hand.observed \in Lifecycle /\ "Faulted" \in Lifecycle /\ "Connected" \in Lifecycle
    BY <1>0 DEF Threads, Hands, Lifecycle, ControlSession
  <2>2. homing \in BOOLEAN /\ ended \in BOOLEAN /\ homed \in BOOLEAN /\ (homed => session)
    BY <2>1
  <2>3. observed \in Lifecycle
    BY <2>1
  <2> HIDE DEF homing, ended, homed, session, quickStop
  <2>4. /\ result \in {hand.homing, "Succeeded", "Failed"}
        /\ result = "Succeeded" => homed \/ hand.homing = "Succeeded"
    BY <2>2
  <2>5. sent \in {"None", "QuickStop", "Homing", "Controller"}
    BY <2>1
  <2> QED
    BY <2>2, <2>3, <2>4, <2>5
<1>4. \/ ~session /\ sent = "None"
      \/ session /\ quickStop /\ sent = "QuickStop"
      \/ session /\ ~quickStop /\ t.homing /\ sent = "Homing"
      \/ session /\ ~quickStop /\ ~t.homing /\ sent = "Controller"
  <2> HIDE DEF session, quickStop
  <2> QED
    OBVIOUS
<1>4a. faults => lost /\ session /\ ~quickStop
  BY <1>2
<1> HIDE DEF sent, observed, result
<1>5. /\ h \in Hands /\ h.requested = hand.requested /\ h.homing = result /\ h.wait = hand.wait
      /\ h.filter = hand.filter /\ h.config = hand.config
      /\ h.staged = hand.staged /\ h.command = hand.command
  <2>1. (t.receiving /\ ~lost) \in BOOLEAN
    OBVIOUS
  <2>2. result \in {"NotRun", "InProgress", "Succeeded", "Failed"}
    BY <1>0, <1>3 DEF Hands
  <2> HIDE DEF t, session, homing, homed
  <2> QED
    BY <1>0, <1>3, <2>1, <2>2 DEF Hands
<1> HIDE DEF h
<1>6. /\ hand' \in Hands /\ hand'.requested = hand.requested /\ hand'.homing = result /\ hand'.wait = hand.wait
      /\ hand'.filter = hand.filter /\ hand'.config = hand.config
      /\ \/ hand'.staged = hand.staged /\ hand'.command = hand.command
         \/ hand'.staged = hand'.command /\ hand'.staged.controller.kind \notin JointKinds
  <2> HIDE DEF homed
  <2>1. CASE homed
    <3> DEFINE hold == AtPosition(0)
    <3>1. hold \in Controllers /\ hold.kind \notin JointKinds
      BY <1>0, Holdable
    <3>2. hand' = Stage(h, hold)
      BY <1>2, <2>1
    <3> HIDE DEF hold
    <3>3. Restaged(h, Stage(h, hold)) /\ Stage(h, hold).staged.controller = hold
      BY <1>0, <1>5, <3>1, Staging
    <3> QED
      BY <1>5, <3>1, <3>2, <3>3 DEF Restaged
  <2>2. CASE ~homed
    BY <1>2, <1>5, <2>2
  <2> QED
    BY <2>1, <2>2
<1>7. /\ n \in Threads /\ n.pc = "publish" /\ n.req = t.req /\ n.obs = obs /\ n.active = t.active
      /\ n.filter = t.filter /\ n.homing = homing
  <2>1. NoFrame \in Frames
    BY <1>0 DEF NoFrame, Frames
  <2>2. obs \in Lifecycle
    BY <1>0 DEF Threads, Lifecycle
  <2> HIDE DEF session, homing, obs
  <2> QED
    BY <1>0, <1>3, <2>1, <2>2 DEF Threads
<1> HIDE DEF n
<1>8. loop' \in [thread : Threads, memory : Memories] /\ loop'.thread = n /\ loop'.memory = loop.memory
  BY <1>0, <1>2, <1>7
<1>9. out \in {"None", "QuickStop", "Homing", "HomingEnds", "Controller", "Partly"}
  <2> HIDE DEF homing, faults
  <2> QED
    BY <1>3
<1> HIDE DEF out
<1>10. /\ ghost'.last = ghost.last /\ ghost'.steady = ghost.steady /\ ghost'.sent = out
       /\ ghost' \in [last : Kinds \cup {"none"}, from : Angles, gap : BOOLEAN, steady : BOOLEAN,
                      sent : {"None", "QuickStop", "Homing", "HomingEnds", "Controller", "Partly"}]
  <2> HIDE DEF homing, homed
  <2> QED
    BY <1>0, <1>2, <1>9
<1>11. TypeOK'
  <2>1. world' \in [count : Counts, tactile : {1}, moves : 0..MaxMoves, faults : 0..MaxFaults]
    <3> HIDE DEF session
    <3> QED
      BY <1>0, <1>2, Constants
  <2> QED
    BY <1>2, <1>6, <1>8, <1>10, <2>1 DEF CycleInv, TypeOK
<1>12. InForce'
  <2>1. hand'.staged # Empty /\ t.pc # "none"
    BY <1>0, <1>6, Constants DEF Hands
  <2> HIDE DEF homed, homing, session
  <2> QED
    BY <1>6, <1>7, <1>8, <2>1 DEF CycleInv, InForce
<1>13. Requests'
  <2> HIDE DEF homed, homing, session
  <2> QED
    BY <1>0, <1>6, <1>7, <1>8, <1>10 DEF CycleInv, Requests, At, JointKinds
<1>14. Reset'
  <2>1. Stale' <=> Stale
    BY <1>8, <1>10 DEF Stale
  <2>2. session => ~Stale
    BY <1>0 DEF CycleInv, Reset
  <2> HIDE DEF session
  <2>3. Stale => result # "Succeeded"
    BY <1>3, <2>2 DEF CycleInv, Reset
  <2> HIDE DEF homed, homing
  <2> QED
    BY <1>6, <1>7, <1>8, <1>10, <2>1, <2>3 DEF CycleInv, Reset, At
<1>15. NoJump' /\ FrameIsBounded' /\ (At("publish") \/ ghost.steady)'
  BY <1>7, <1>8 DEF NoJump, FrameIsBounded, At
<1>16. SourceIsTrue'
  <2>1. ControlSession(loop'.thread, loop'.thread.obs) <=> session
    BY <1>4a, <1>7, <1>8 DEF ControlSession
  <2>2. hand.requested = "Connected" => t.req \notin {"Running", "Stopped"}
    BY DEF CycleInv, Requests
  <2>3. session => t.req \in {"Running", "Stopped"} \/ t.obs = "Faulted"
    BY DEF ControlSession
  <2>4. hand.requested \in {"Disconnected", "Connected", "Running", "Stopped"} /\ t.homing \in BOOLEAN
    BY <1>0 DEF Hands, Lifecycle, Threads
  <2>5. ASSUME hand.requested # "Disconnected", session
        PROVE  quickStop <=> hand.requested = "Stopped" \/ t.obs = "Faulted"
    BY <2>2, <2>3, <2>4, <2>5
  <2>6. ASSUME hand.requested # "Disconnected"
        PROVE  \/ Echo(loop.thread)' = out
               \/ out = "HomingEnds" /\ Echo(loop.thread)' = "Controller"
               \/ out = "Partly" /\ Echo(loop.thread)' = "QuickStop"
    <3>1. CASE ~session
      BY <1>4, <1>4a, <1>7, <1>8, <2>1, <3>1 DEF Echo, out
    <3>2. CASE session /\ quickStop
      BY <1>4, <1>4a, <1>6, <1>7, <1>8, <2>1, <2>5, <2>6, <3>2 DEF Echo, out
    <3>3. CASE session /\ ~quickStop /\ ~faults
      BY <1>4, <1>6, <1>7, <1>8, <2>1, <2>4, <2>5, <2>6, <3>3 DEF Echo, out
    <3>4. CASE faults
      <4>1. out = "Partly"
        BY <3>4 DEF out
      <4>2. Echo(loop.thread)' = "QuickStop"
        BY <1>4a, <1>7, <1>8, <2>1, <3>4 DEF Echo
      <4> QED
        BY <4>1, <4>2
    <3> QED
      BY <3>1, <3>2, <3>3, <3>4
  <2> QED
    BY <1>6, <1>10, <2>6 DEF SourceIsTrue
<1> QED
  BY <1>11, <1>12, <1>13, <1>14, <1>15, <1>16 DEF CycleInv


(* The end of the cycle.                                                   *)
LEMMA PublishKeeps ==
  ASSUME CycleInv, Publish
  PROVE  CycleInv'
<1> DEFINE t == [loop.thread EXCEPT !.pc = "top", !.req = "Disconnected", !.obs = "Disconnected"]
<1>1. /\ loop \in [thread : Threads, memory : Memories] /\ loop.thread.pc = "publish"
      /\ ghost \in [last : Kinds \cup {"none"}, from : Angles, gap : BOOLEAN, steady : BOOLEAN,
                    sent : {"None", "QuickStop", "Homing", "HomingEnds", "Controller", "Partly"}]
  BY DEF CycleInv, TypeOK, Publish, At
<1>2. /\ loop' = [loop EXCEPT !.thread = t] /\ ghost' = [ghost EXCEPT !.sent = "None", !.steady = TRUE]
      /\ UNCHANGED <<hand, rx, world>>
  BY DEF Publish, UpdateThread
<1>3. /\ t \in Threads /\ t.pc = "top" /\ t.req = "Disconnected" /\ t.active = loop.thread.active
      /\ t.filter = loop.thread.filter
  BY <1>1 DEF Threads, Lifecycle
<1> HIDE DEF t
<1>4. loop' \in [thread : Threads, memory : Memories] /\ loop'.thread = t /\ loop'.memory = loop.memory
  BY <1>1, <1>2, <1>3
<1>5. /\ ghost'.last = ghost.last /\ ghost'.steady
      /\ ghost' \in [last : Kinds \cup {"none"}, from : Angles, gap : BOOLEAN, steady : BOOLEAN,
                     sent : {"None", "QuickStop", "Homing", "HomingEnds", "Controller", "Partly"}]
  BY <1>1, <1>2
<1>6. TypeOK' /\ InForce'
  BY <1>1, <1>2, <1>3, <1>4, <1>5 DEF CycleInv, TypeOK, InForce
<1>7. Requests' /\ Reset'
  BY <1>2, <1>3, <1>4, <1>5 DEF CycleInv, Requests, Reset, Stale, At
<1>8. NoJump' /\ FrameIsBounded' /\ (At("publish") \/ ghost.steady)' /\ SourceIsTrue'
  BY <1>3, <1>4, <1>5 DEF NoJump, FrameIsBounded, SourceIsTrue, At
<1> QED
  BY <1>6, <1>7, <1>8 DEF CycleInv

(* A move of the hand.                                                     *)
LEMMA MovesKeeps ==
  ASSUME CycleInv, Moves
  PROVE  CycleInv'
<1>1. PICK count \in Counts : world.moves > 0 /\ world' = [world EXCEPT !.count = count, !.moves = @ - 1]
  BY Zenon DEF Moves
<1>2. hand' = hand /\ loop' = loop /\ rx' = rx /\ ghost' = ghost
  BY DEF Moves
<1>3. world \in [count : Counts, tactile : {1}, moves : 0..MaxMoves, faults : 0..MaxFaults] /\ MaxMoves \in Nat
  BY Constants DEF CycleInv, TypeOK
<1>4. world.moves - 1 \in 0..MaxMoves
  BY <1>1, <1>3
<1>5. world' \in [count : Counts, tactile : {1}, moves : 0..MaxMoves, faults : 0..MaxFaults]
  BY <1>1, <1>3, <1>4
<1>6. TypeOK'
  BY <1>2, <1>5 DEF CycleInv, TypeOK
<1>7. (InForce /\ Requests /\ Reset)'
  BY <1>2 DEF CycleInv, InForce, Requests, Reset, Stale, At, ControlSession
<1>8. (NoJump /\ FrameIsBounded)'
  BY <1>2 DEF CycleInv, NoJump, FrameIsBounded, Kind, ActiveCommand, At
<1>9. ((At("publish") \/ ghost.steady) /\ SourceIsTrue)'
  BY <1>2 DEF CycleInv, SourceIsTrue, Echo, ControlSession, At
<1> QED
  BY <1>6, <1>7, <1>8, <1>9 DEF CycleInv

-----------------------------------------------------------------------------
(* The theorems.                                                           *)

(* The program begins in the invariant.                                    *)
LEMMA CycleBegins ==
  ASSUME Init
  PROVE  CycleInv
<1>1. /\ Command(Idle, DefaultEffort) \in Commands /\ DefaultCommand \in Commands /\ 0 \in 0..MaxEffort
      /\ 0 \in DOMAIN Ik /\ 0 \in Counts /\ Start \subseteq Counts /\ Idle.kind \notin JointKinds
      /\ Command(Idle, DefaultEffort).controller = Idle /\ DefaultCommand.controller = Idle
      /\ Empty \notin Commands /\ MaxSettings \in Nat /\ MaxMoves \in Nat /\ MaxFaults \in Nat
  BY Constants, ControlCycleAssumption DEF Idle, JointKinds, Command, DefaultCommand
<1>2. /\ hand \in Hands /\ hand.requested = "Disconnected" /\ hand.wait = "none" /\ hand.homing = "NotRun"
      /\ hand.staged = Command(Idle, DefaultEffort) /\ hand.command = hand.staged
      /\ hand.filter \in Filters /\ hand.config = "empty"
  <2> DEFINE command == Command(Idle, DefaultEffort)
  <2>1. command \in Commands
    BY <1>1
  <2>2. hand = [requested |-> "Disconnected", observed |-> "Disconnected", homing |-> "NotRun",
             requestHoming |-> FALSE, requestHold |-> FALSE, requestBias |-> "None", comm |-> FALSE,
             staged |-> command, command |-> command,
             filter |-> DefaultFilter, config |-> "empty", wait |-> "none", settings |-> MaxSettings]
    BY DEF Init
  <2> HIDE DEF command
  <2>3. MaxSettings \in 0..MaxSettings /\ DefaultFilter \in Filters
    BY <1>1 DEF Filters, DefaultFilter
  <2>4. /\ hand \in Hands /\ hand.requested = "Disconnected" /\ hand.wait = "none" /\ hand.homing = "NotRun"
        /\ hand.staged = command /\ hand.command = command
        /\ hand.filter \in Filters /\ hand.config = "empty"
    BY <2>1, <2>2, <2>3 DEF Hands, Lifecycle
  <2> QED
    BY <2>4 DEF command
<1>3. /\ loop \in [thread : Threads, memory : Memories] /\ loop.thread.pc = "none"
      /\ loop.thread.req = "Disconnected" /\ loop.thread.active = DefaultCommand
      /\ loop.memory.held = Unset /\ loop.memory.previous = Unset
  <2>1. NoFrame \in Frames
    BY <1>1 DEF NoFrame, Frames
  <2>2. Memory \in Memories /\ Memory.held = Unset /\ Memory.previous = Unset
    BY <1>1 DEF Memory, Memories, Angles
  <2>3. IdleLoop \in Threads /\ IdleLoop.pc = "none" /\ IdleLoop.req = "Disconnected" /\ IdleLoop.active = DefaultCommand
    BY <1>1, <2>1 DEF IdleLoop, Threads, Filters, DefaultFilter, Lifecycle
  <2>4. loop = [thread |-> IdleLoop, memory |-> Memory]
    BY DEF Init
  <2> QED
    BY <2>2, <2>3, <2>4
<1>4. /\ ghost.last = "none" /\ ghost.steady
      /\ ghost \in [last : Kinds \cup {"none"}, from : Angles, gap : BOOLEAN, steady : BOOLEAN,
                    sent : {"None", "QuickStop", "Homing", "HomingEnds", "Controller", "Partly"}]
  BY <1>1 DEF Init, Angles
<1>5. rx \in [any : BOOLEAN, count : Counts, tactile : {0, 1}]
  BY <1>1 DEF Init
<1>6. world \in [count : Counts, tactile : {1}, moves : 0..MaxMoves, faults : 0..MaxFaults]
  BY <1>1 DEF Init
<1>7. TypeOK
  BY <1>2, <1>3, <1>4, <1>5, <1>6 DEF TypeOK
<1>8. InForce
  BY <1>2, <1>3 DEF InForce
<1>9. Requests /\ Reset
  BY <1>1, <1>2, <1>3, <1>4 DEF Requests, Reset, Stale, At, JointKinds
<1>10. NoJump /\ FrameIsBounded /\ SourceIsTrue
  BY <1>3 DEF NoJump, FrameIsBounded, SourceIsTrue, At
<1> QED
  BY <1>4, <1>7, <1>8, <1>9, <1>10 DEF CycleInv

(* Every step keeps it.                                                    *)
LEMMA CycleSteps == CycleInv /\ [Next]_vars => CycleInv'
<1> SUFFICES ASSUME CycleInv, [Next]_vars
             PROVE  CycleInv'
  OBVIOUS
<1>1. CASE Ongoing
  BY <1>1, OngoingKeeps
<1>2. CASE Connect \/ Reconnect
  BY <1>2, SessionKeeps
<1>3. CASE Cycle
  BY <1>3, ExitKeeps, InputKeeps, ObserveKeeps, WriteKeeps, PublishKeeps DEF Cycle
<1>4. CASE Moves
  BY <1>4, MovesKeeps
<1>5. CASE UNCHANGED vars
  <2>1. hand' = hand /\ loop' = loop /\ rx' = rx /\ world' = world /\ ghost' = ghost
    BY <1>5 DEF vars
  <2>2. (TypeOK /\ InForce /\ Requests /\ Reset)'
    BY <2>1 DEF CycleInv, TypeOK, InForce, Requests, Reset, Stale, At, ControlSession
  <2>3. (NoJump /\ FrameIsBounded)'
    BY <2>1 DEF CycleInv, NoJump, FrameIsBounded, Kind, ActiveCommand, At
  <2>4. ((At("publish") \/ ghost.steady) /\ SourceIsTrue)'
    BY <2>1 DEF CycleInv, SourceIsTrue, Echo, ControlSession, At
  <2> QED
    BY <2>2, <2>3, <2>4 DEF CycleInv
<1> QED
  BY <1>1, <1>2, <1>3, <1>4, <1>5 DEF Next, Call, Ongoing

(* The invariant holds of every state. *)
LEMMA CycleInvariant == Spec => []CycleInv
<1>1. Init => CycleInv
  BY CycleBegins
<1> QED
  BY <1>1, CycleSteps, PTL DEF Spec

(* Type correctness: wherever a command is kept, its cap is bounded, its   *)
(* joint target is in reach and its position fits the wire.                *)
THEOREM CycleTypeCorrect == Spec => []TypeOK
<1>1. CycleInv => TypeOK
  BY DEF CycleInv
<1> QED
  BY <1>1, CycleInvariant, PTL

(* A cycle that has taken its input works with what the user set last, in  *)
(* the first cycle of a new session too.                                   *)
THEOREM SettingsTaken == Spec => []SettingsInForce
<1>1. CycleInv => SettingsInForce
  BY DEF CycleInv, InForce, SettingsInForce
<1> QED
  BY <1>1, CycleInvariant, PTL

(* No call, stop or session makes the output of a controller jump.         *)
THEOREM OutputDoesNotJump == Spec => []NoJump
<1>1. CycleInv => NoJump
  BY DEF CycleInv
<1> QED
  BY <1>1, CycleInvariant, PTL

(* An effort goes out within its cap, an actuator position as it was asked *)
(* for.                                                                    *)
THEOREM FramesBounded == Spec => []FrameIsBounded
<1>1. CycleInv => FrameIsBounded
  BY DEF CycleInv
<1> QED
  BY <1>1, CycleInvariant, PTL

(* The source a snapshot names is the one whose frames went out.           *)
THEOREM SnapshotNamesTheSource == Spec => []SourceIsTrue
<1>1. CycleInv => SourceIsTrue
  BY DEF CycleInv
<1> QED
  BY <1>1, CycleInvariant, PTL

=============================================================================
