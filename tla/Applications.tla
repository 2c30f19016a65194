---------------------------- MODULE Applications ----------------------------
(***************************************************************************)
(* The example programs of the SDK, each alone with its hand: the order in *)
(* which main() makes its calls, what it does when one throws, when it     *)
(* looks at its shutdown flag, and the destructor at its end.  Values,     *)
(* printing and sleeping are left out.                                     *)
(*                                                                         *)
(*   app   the program, the item of its script that is next, the flag the  *)
(*         SIGINT handler sets, the recoveries tried, the exit code        *)
(*   wire  the TCP connection of the external server and its client        *)
(*                                                                         *)
(* A definition that no other uses is the one after it with a bug in it.   *)
(***************************************************************************)
EXTENDS HandContract, Sequences

CONSTANTS
  Programs,     \* the examples that are run
  Verbs,        \* what the client of the external server asks for
  MaxLines      \* bound: how many lines it has on their way

(* The server's parser knows the calls of the table, and nothing else. *)
ASSUME ApplicationsAssumption == MaxLines \in Nat /\ Verbs \subseteq DOMAIN ActionOf

VARIABLES app, wire
vars == <<hand, world, app, wire>>

-----------------------------------------------------------------------------
(* Items of a script.  Must: an exception leaves main() through its catch.  *)
(* Demo: a call the program expects to be refused.  Try: an exception skips *)
(* the next n items.  A loop looks at the flag at its head; one that counts *)
(* may also run out there.                                                  *)
Must(c) == <<[kind |-> "must", call |-> c, n |-> 0]>>
Demo(c) == <<[kind |-> "demo", call |-> c, n |-> 0]>>
Try(c, n) == <<[kind |-> "try", call |-> c, n |-> n]>>
Control(kind, n) == <<[kind |-> kind, call |-> "none", n |-> n]>>

Loop(kind, body) == Control(kind, Len(body) + 1) \o body \o Control("again", Len(body) + 1)
Forever(body) == Loop("forever", body)
Count(body) == Loop("count", body)

Target == Must("target")
Look == Count(Must("get_state"))
Open == Must("connect") \o Must("set_max_effort")
OpenHomed == Open \o Must("run") \o Must("home")
IdleStop == Must("idle") \o Must("stop")

CreateAndDestroy == Must("destroy") \o Demo("get_diagnostics") \o Must("destroy")
Homing == Open \o Demo("target") \o Must("run") \o Must("idle") \o Must("home") \o Target \o Must("stop")
MaxEffort == Open \o Must("run") \o Must("home") \o Target \o Count(Must("set_max_effort") \o Look) \o IdleStop
PositionController ==
  OpenHomed \o Count(Must("set_controller_config") \o Target \o Target \o Look)
  \o Must("set_controller_config") \o Target \o Count(Target) \o IdleStop
ImpedanceController ==
  OpenHomed \o Count(Must("set_controller_config") \o Target \o Look) \o Must("idle") \o Look \o Must("stop")
IdleCommand ==
  Open \o Demo("idle") \o Must("run") \o Must("idle") \o Look \o Must("stop") \o Look
  \o Must("home") \o Target \o Must("stop") \o Must("run") \o IdleStop
JointPosition == OpenHomed \o Count(Target \o Look) \o Target \o Must("nan") \o Target \o IdleStop
JointImpedance ==
  OpenHomed \o Target \o Look \o Target \o Must("set_controller_config") \o Target \o Look \o IdleStop
ActuatorPosition == OpenHomed \o Count(Target \o Look) \o Must("nan") \o IdleStop
ActuatorEffort ==
  OpenHomed \o Count(Target \o Look) \o Target \o Must("set_max_effort") \o IdleStop
Kinematics == Must("connect") \o Must("get_state")
ReadState == Must("get_state") \o OpenHomed \o Target \o Look \o IdleStop
Tactile ==
  Must("connect") \o Must("set_tactile_bias") \o Forever(Must("get_state")) \o Must("reset_tactile_bias")
DiagnosticsLoop == Must("connect") \o Forever(Must("get_state"))
ExitOnFailure == Open \o Must("run") \o Count(Target \o Target)
MotionSequence == Open \o Must("set_controller_config") \o Must("run") \o Must("home") \o Forever(Target) \o IdleStop
BasicControl == OpenHomed \o Count(Target) \o Must("stop") \o Must("destroy")

(* Every 100 ms: if the hand reads Faulted, one attempt at the four steps.  *)
FaultRecovery ==
  OpenHomed \o Target
  \o Count(Control("attempt", 4) \o Try("reconnect", 3) \o Try("run", 2) \o Try("home", 1) \o Try("target", 0))
  \o IdleStop \o Must("disconnect") \o Must("destroy")
(* Every 20 ms: the switch enters the fall-through at the step that is due. *)
SelfManaged ==
  Must("set_max_effort")
  \o Forever(Control("switch", 0) \o Try("reconnect", 3) \o Try("connect", 2) \o Try("run", 1) \o Try("target", 0))
LifecycleWalkthrough == Control("keys", 0)
ExternalServer == Control("serve", 0)

Script ==
  [create_and_destroy |-> CreateAndDestroy, homing |-> Homing, max_effort |-> MaxEffort,
   position_controller |-> PositionController, impedance_controller |-> ImpedanceController,
   idle |-> IdleCommand, joint_position |-> JointPosition, joint_impedance |-> JointImpedance,
   actuator_position |-> ActuatorPosition, actuator_effort |-> ActuatorEffort, kinematics |-> Kinematics,
   read_state |-> ReadState, tactile |-> Tactile, diagnostics |-> DiagnosticsLoop,
   exit_on_failure |-> ExitOnFailure, motion_sequence |-> MotionSequence, basic_control |-> BasicControl,
   fault_recovery |-> FaultRecovery, self_managed |-> SelfManaged,
   lifecycle_walkthrough |-> LifecycleWalkthrough, external_server |-> ExternalServer]

ASSUME ProgramsAssumption == Programs \subseteq DOMAIN Script

AutoHome(p) == p \in {"exit_on_failure", "basic_control", "self_managed"}
AutoReconnect(p) == p = "self_managed"
kMaxRecoveryAttempts == 3

Unknown == <<"unknown", "unknown">>
Init ==
  /\ \E p \in Programs :
       /\ HandInit(AutoHome(p), AutoReconnect(p))
       /\ app = [name |-> p, at |-> 1, shutdown |-> FALSE, attempts |-> 0, exit |-> "-"]
  /\ wire = [client |-> "none", fd |-> FALSE, lines |-> <<>>, shown |-> Unknown]

-----------------------------------------------------------------------------
(* A step of main() *)

Item == Script[app.name][app.at]
Inside == app.exit = "-" /\ app.at <= Len(Script[app.name])
At(kind) == Inside /\ Item.kind = kind
Ready == hand.call = "none" /\ hand.code = "-"
Goto(i) == app' = [app EXCEPT !.at = i]
Skip(n) == Goto(app.at + 1 + n)
Leave(code) == app' = [app EXCEPT !.exit = code]
OnlyMain == UNCHANGED <<hand, world, wire>>

Issue == /\ Inside /\ Item.call # "none" /\ Ready /\ Begin(Item.call)
         /\ UNCHANGED <<world, app, wire>>

(* The call has returned or thrown. *)
Forgotten == hand' = [hand EXCEPT !.code = "-", !.early = FALSE] /\ UNCHANGED <<world, wire>>
Take ==
  /\ Inside /\ hand.code # "-" /\ Forgotten
  /\ \/ At("must") /\ IF hand.code = "None" THEN Skip(0) ELSE Leave("1")
     \/ At("demo") /\ Skip(0)
     \/ At("try") /\ Skip(IF hand.code = "None" THEN 0 ELSE Item.n)
     \/ (At("keys") \/ At("serve")) /\ UNCHANGED app

GoesOnForever == ~app.shutdown \/ At("forever")
GoesOn == ~app.shutdown
LoopHead ==
  /\ OnlyMain /\ (At("count") \/ At("forever"))
  /\ \/ GoesOn /\ Skip(0)
     \/ (~GoesOn \/ At("count")) /\ Skip(Item.n)
Again == At("again") /\ OnlyMain /\ Goto(app.at - Item.n)

GivesUp == app.attempts >= kMaxRecoveryAttempts
Attempt ==
  /\ At("attempt") /\ OnlyMain
  /\ \/ hand.observed # "Faulted" /\ Skip(Item.n)
     \/ /\ hand.observed = "Faulted"
        /\ app' = [app EXCEPT !.attempts = @ + 1, !.at = IF GivesUp THEN @ ELSE @ + 1,
                              !.exit = IF GivesUp THEN "1" ELSE @]

Switch ==
  /\ At("switch") /\ OnlyMain
  /\ Skip(CASE hand.observed = "Faulted" -> 0
            [] hand.observed = "Disconnected" -> 1
            [] hand.observed \in {"Connected", "Stopped"} -> 2
            [] hand.observed = "Running" -> 3)

(* The terminal: every key is a call, whatever the lifecycle. *)
Keys == {"connect", "reconnect", "run", "home", "stop", "disconnect", "idle", "target"}
Key ==
  /\ At("keys") /\ Ready
  /\ \/ ~app.shutdown /\ \E c \in Keys : Begin(c) /\ UNCHANGED <<world, app, wire>>
     \/ Leave("0") /\ OnlyMain

(* The end of main(), then the destructor of the HandManager. *)
RunsOut == app.exit = "-" /\ ~Inside /\ Leave("0") /\ OnlyMain
Destructor == app.exit # "-" /\ ~hand.destroyed /\ Ready /\ Begin("destroy") /\ UNCHANGED <<world, app, wire>>
Ended == app.exit # "-" /\ hand.destroyed /\ hand.call = "none"

-----------------------------------------------------------------------------
(* The external server and its client *)

Status == <<hand.observed, hand.homing>>
PublishedOnce(attached) == IF attached /\ wire.shown = Unknown THEN Status ELSE wire.shown
(* A client that has just been accepted is told, and then every change. *)
Published(attached) == IF attached THEN Status ELSE wire.shown

ApplyClosing(line) ==
  IF line = "quit" THEN Begin("disconnect") /\ UNCHANGED app ELSE Begin(line) /\ UNCHANGED app
Apply(line) ==
  IF line = "quit" THEN app' = [app EXCEPT !.shutdown = TRUE] /\ UNCHANGED hand ELSE Begin(line) /\ UNCHANGED app

(* One pass: accept if nobody is, publish, carry out one line. *)
Serve ==
  /\ At("serve") /\ Ready /\ ~app.shutdown /\ UNCHANGED world
  /\ LET attached == wire.fd \/ wire.client # "none"
         reads == attached /\ wire.lines # <<>>
     IN /\ wire' = [wire EXCEPT !.fd = attached, !.shown = Published(attached),
                                !.lines = IF reads THEN Tail(@) ELSE @]
        /\ IF reads THEN Apply(Head(wire.lines)) ELSE UNCHANGED <<hand, app>>
StopsServing == At("serve") /\ Ready /\ app.shutdown /\ Leave("0") /\ OnlyMain

OnlyClient == UNCHANGED <<hand, world, app>>
ClientComes == At("serve") /\ wire.client = "none" /\ wire' = [wire EXCEPT !.client = "on"] /\ OnlyClient
ClientAsks ==
  /\ wire.client = "on" /\ Len(wire.lines) < MaxLines /\ OnlyClient
  /\ \E verb \in Verbs : wire' = [wire EXCEPT !.lines = Append(@, verb)]
(* 'q' and Ctrl-C both send it.  A client that is killed sends nothing, and *)
(* the server does not notice.                                              *)
ClientQuits ==
  /\ wire.client = "on" /\ OnlyClient
  /\ wire' = [wire EXCEPT !.client = "gone", !.lines = Append(@, "quit")]
ClientDies == wire.client = "on" /\ wire' = [wire EXCEPT !.client = "gone"] /\ OnlyClient
Client == ClientComes \/ ClientAsks \/ ClientQuits \/ ClientDies

-----------------------------------------------------------------------------
Main == Issue \/ Take \/ LoopHead \/ Again \/ Attempt \/ Switch \/ Key \/ RunsOut \/ Destructor
        \/ Serve \/ StopsServing

(* SIGINT.  basic_control has no handler. *)
Interrupt == /\ app.exit = "-" /\ app.name # "basic_control" /\ ~app.shutdown
             /\ app' = [app EXCEPT !.shutdown = TRUE] /\ OnlyMain

Sdk == (CallEnds \/ ControlLoop \/ SendFails) /\ UNCHANGED <<app, wire>>
Cable == (Cut \/ Mend) /\ UNCHANGED <<app, wire>>

Next == Main \/ Client \/ Interrupt \/ Sdk \/ Cable
Spec == Init /\ [][Next]_vars

(* main() is scheduled, a call returns once it can, the loop goes on.       *)
FairSpec ==
  /\ Spec /\ WF_vars(Main)
  /\ WF_vars(CallEnds /\ UNCHANGED <<app, wire>>) /\ WF_vars(ControlLoop /\ UNCHANGED <<app, wire>>)

-----------------------------------------------------------------------------
(* Properties *)

(* Types; a recovery is tried at most kMaxRecoveryAttempts times, and the   *)
(* attempt that is one too many leaves.                                     *)
TypeOK ==
  /\ HandType
  /\ app.name \in DOMAIN Script /\ app.at \in 1..(Len(Script[app.name]) + 1)
  /\ app.shutdown \in BOOLEAN /\ app.attempts \in 0..(kMaxRecoveryAttempts + 1) /\ app.exit \in {"-", "0", "1"}
  /\ wire.client \in {"none", "on", "gone"} /\ wire.fd \in BOOLEAN
  /\ wire.shown = Unknown \/ wire.shown \in Lifecycle \X {"NotRun", "InProgress", "Succeeded", "Failed"}
  /\ Len(wire.lines) <= MaxLines + 1

(* The programs that walk one path, and say at each call what it needs.     *)
Tutorial == {p \in DOMAIN Script : \A i \in 1..Len(Script[p]) : Script[p][i].kind \notin {"try", "keys", "serve"}}

(* An example that teaches an order of calls is never told that its order   *)
(* is wrong, whatever the link and the drives do, except where it means to, *)
(* and where a target falls between the stores with which the loop ends a   *)
(* homing; and where it means to, it is refused ("which the SDK is not      *)
(* supposed to allow").                                                     *)
ScriptsAreInOrder ==
  app.name \in Tutorial /\ Inside /\ hand.code # "-" =>
    /\ hand.code = "WrongCallOrder" => Item.kind = "demo" \/ (Item.call \in {"target", "nan"} /\ hand.early)
    /\ Item.kind = "demo" => hand.code # "None"

(* "The HandManager destructor is what confirms the quick stop and closes   *)
(* the link": however main() ended, nothing is powered behind it, unless    *)
(* the link or a drive had failed.                                          *)
LeftSafe == Ended => hand.observed = "Disconnected" /\ (hand.powered => hand.hurt)

(* The wait that nobody ends: a run() has confirmed over a fault that ended *)
(* the loop, and home() waits for a loop that is no longer there.           *)
Hangs == hand.call = "home" /\ hand.loop = "gone" /\ hand.observed # "Faulted"

(* Ctrl-C ends every example, through its destructor, in whatever call it   *)
(* comes, but for a home() that hangs.  self_managed is left out: its       *)
(* destructor may wait for ever for a recovery that took back the exit      *)
(* request.                                                                 *)
ShutdownEndsIt == app.shutdown /\ app.name # "self_managed" ~> Ended \/ Hangs

(* A fault reaches the attached client although it has asked for nothing.   *)
FaultIsSeen ==
  wire.fd /\ hand.observed = "Faulted" ~> hand.observed # "Faulted" \/ app.shutdown \/ wire.shown[1] = "Faulted"

(* A client that quits takes the server along, and with it the hand, also   *)
(* when the server is inside a call that blocks, but for a home() that      *)
(* hangs.                                                                   *)
QuitEndsTheServer == "quit" \in {wire.lines[i] : i \in DOMAIN wire.lines} ~> Ended \/ Hangs

=============================================================================
