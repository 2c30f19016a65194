--------------------------- MODULE HandCoreProofs ---------------------------
(***************************************************************************)
(* Type correctness and eight safety properties of HandCore, for any       *)
(* drives, calls and bounds, four of the eight for any configuration, one  *)
(* unless a loop recovers and may throw as well, and three for a loop that *)
(* does not recover on its own.                                            *)
(*                                                                         *)
(* TypeOK is inductive together with Labels: which call may be at which    *)
(* label, and that only a verdict waits to be stored.  Each of the other   *)
(* properties follows from an invariant about both threads.                *)
(*                                                                         *)
(* The first four are about requests and faults: what the standing request *)
(* says about the loop (Requests), who has noticed a fault (FaultsSeen),   *)
(* where its cause is kept (CauseKept), and which frame may still be late  *)
(* (OneLate).  Most steps disturb none of them (QuietCall, QuietCycle);    *)
(* what each of the rest does to the few fields the invariants speak of is *)
(* stated once, and the invariants follow.                                 *)
(*                                                                         *)
(* The others are about targets and homings: where a target may wait that  *)
(* has been voided (TargetsVoided, StaysOff), who asked for a homing       *)
(* (Asked), on which link one has finished (Homed), and what a target has  *)
(* behind it (Targets).  Their steps are summed up as the effects they     *)
(* have on the fields of the request, the targets, the homing and the link *)
(* (Passes to AsksTarget for the calls, Turns to Resumes for the loop).    *)
(***************************************************************************)
EXTENDS HandCore, TLAPS

-----------------------------------------------------------------------------
(* Type correctness *)

(* Which call and which goal may be at a label of the user thread. *)
UserFits(pc, call, goal) ==
  /\ pc \in {"leave", "join"} => goal \in {"connect", "reconnect", "disconnect", "close"}
  /\ pc \in {"stop", "disconnect", "close", "reconnect"} => call = pc
  /\ pc = "quiesce" => call \in {"disconnect", "close"}
  /\ pc = "confirm stop" => call \in {"stop", "disconnect", "close"}
  /\ pc = "void command" => call = "stop"
  /\ pc \in {"stop", "void command", "disconnect", "close", "reconnect", "quiesce", "confirm stop"} =>
       goal = call

(* Which verdict the loop may hold at a label. *)
LoopFits(pc, store) ==
  /\ pc = "verdict" => store # "None"
  /\ store \in {"None", "Connected", "Running", "Stopped"}

Labels == UserFits(user.pc, user.call, user.goal) /\ LoopFits(rt.pc, rt.store)

TypeInv == TypeOK /\ Labels

-----------------------------------------------------------------------------
(* What the helpers of HandCore make of well-typed records *)

(* A thread that moves to another label keeps its type. *)
LEMMA GotoTyped ==
  ASSUME user \in UserType, NEW label \in UserLabels, Goto(label)
  PROVE  /\ user' \in UserType
         /\ user'.pc = label /\ user'.call = user.call /\ user'.goal = user.goal
<1> DEFINE moved == [user EXCEPT !.pc = label]
<1>1. moved \in UserType
  BY DEF UserType
<1>2. user' = [moved EXCEPT !.waited = 0] /\ 0 \in 0..WaitCycles
  BY HandCoreAssumption DEF Goto, HandCoreAssumption
<1>3. user'.pc = label /\ user'.call = user.call /\ user'.goal = user.goal
  BY DEF Goto, UserType
<1> HIDE DEF moved
<1>4. user' \in UserType
  BY <1>1, <1>2 DEF UserType
<1> QED
  BY <1>3, <1>4

(* A call that returns leaves the user thread idle. *)
LEMMA ReturnTyped ==
  ASSUME user \in UserType, NEW code \in ErrorCodes, Return(code)
  PROVE  /\ user' \in UserType
         /\ user'.pc = "idle" /\ user'.call = "none" /\ user'.goal = "none"
<1>1. 0 \in 0..WaitCycles /\ "idle" \in UserLabels /\ "None" \in StopCauses
  BY HandCoreAssumption DEF HandCoreAssumption, UserLabels, StopCauses
<1>2. user' \in UserType
  BY <1>1, Zenon DEF Return, UserType
<1>3. user'.pc = "idle" /\ user'.call = "none" /\ user'.goal = "none"
  BY DEF Return, UserType
<1> QED
  BY <1>2, <1>3

(* Every answer of the table is an error code. *)
LEMMA CodeTyped ==
  ASSUME hand \in HandType, NEW action \in HandAction
  PROVE  CheckAllowed(action) \in ErrorCodes
<1>1. hand.destroyed \in BOOLEAN
  BY DEF HandType
<1>2. FaultedCode(hand.cause) \in ErrorCodes
  BY DEF FaultedCode, ErrorCodes
<1>3. CASE hand.destroyed
  BY <1>3 DEF CheckAllowed, CheckActionAllowed, ErrorCodes
<1>4. CASE ~hand.destroyed /\ hand.observed = "Faulted"
  BY <1>2, <1>4 DEF CheckAllowed, CheckActionAllowed, ErrorCodes
<1>5. CASE ~hand.destroyed /\ hand.observed # "Faulted"
  BY <1>5 DEF CheckAllowed, CheckActionAllowed, ErrorCodes
<1> QED
  BY <1>1, <1>3, <1>4, <1>5

(* Staging a command touches neither the lifecycle nor the cause. *)
LEMMA StageTyped ==
  ASSUME NEW h \in HandType, NEW command \in Commands
  PROVE  /\ Stage(h, command) \in HandType
         /\ \A f \in {"requested", "observed", "cause"} : Stage(h, command)[f] = h[f]
  BY DEF Stage, HandType

(* Any lifecycle but Faulted may be requested, *)
LEMMA RequestTyped ==
  ASSUME NEW h \in HandType, NEW lifecycle \in Lifecycle \ {"Faulted"}
  PROVE  Request(h, lifecycle) \in HandType
  BY DEF Request, HandType

(* and any may be observed. *)
LEMMA ObserveTyped ==
  ASSUME NEW h \in HandType, NEW lifecycle \in Lifecycle
  PROVE  Observe(h, lifecycle) \in HandType
  BY DEF Observe, HandType

(* reset_fault_state() keeps the type. *)
LEMMA ResetTyped ==
  ASSUME NEW h \in HandType
  PROVE  ResetFaultState(h) \in HandType
  BY DEF ResetFaultState, HandType, StopCauses

(* So does what connect() forgets of the last link. *)
LEMMA NewLinkTyped ==
  ASSUME NEW h \in HandType
  PROVE  NewLink(h) \in HandType
  BY DEF NewLink, HandType, HomingStates

(* A link that is opened, and one that is closed. *)
LEMMA CommsTyped ==
  ASSUME NEW c \in CommsType
  PROVE  Opened(c) \in CommsType /\ Closed(c) \in CommsType
<1> DEFINE open == [Unopened EXCEPT !.socket = TRUE]
<1>1. Unopened \in CommsType
  BY HandCoreAssumption DEF HandCoreAssumption, Unopened, CommsType, DriveStates
<1>2. open \in CommsType
  BY <1>1 DEF CommsType
<1>3. Opened(c) = [open EXCEPT !.outcome = c.outcome]
  BY DEF Opened
<1> HIDE DEF open
<1>4. Opened(c) \in CommsType
  BY <1>2, <1>3 DEF CommsType
<1>5. Closed(c) \in CommsType
  BY DEF Closed, CommsType
<1> QED
  BY <1>4, <1>5

(* One observation; the count of silent cycles stops above the limit. *)
LEMMA ReceivedTyped ==
  ASSUME NEW c \in CommsType, env \in EnvType
  PROVE  Received(c) \in CommsType
<1>0. CASE ~c.socket
  BY <1>0 DEF Received
<1>1. CASE c.socket /\ env.up
  <2> DEFINE heard == [c EXCEPT !.rx = env.drive]
             first == [heard EXCEPT !.anyFrame = TRUE]
             loud == [first EXCEPT !.silent = 0]
  <2>1. heard \in CommsType /\ heard.seenHigh = c.seenHigh
    BY DEF CommsType, EnvType
  <2> HIDE DEF heard
  <2>2. first \in CommsType /\ first.seenHigh = c.seenHigh
    BY <2>1 DEF CommsType
  <2> HIDE DEF first
  <2>3. loud \in CommsType /\ loud.seenHigh = c.seenHigh
    BY <2>2, HandCoreAssumption DEF HandCoreAssumption, CommsType
  <2>4. Received(c) = [loud EXCEPT !.seenHigh = @ \cup {d \in Drives : env.drive[d] \in HighBit5}]
    BY <1>1 DEF Received, loud, first, heard
  <2> HIDE DEF loud
  <2> QED
    BY <2>3, <2>4 DEF CommsType
<1>2. CASE c.socket /\ ~env.up
  BY <1>2, HandCoreAssumption DEF HandCoreAssumption, Received, CommsType
<1> QED
  BY <1>0, <1>1, <1>2

(* A homing that goes on, is canceled, or ends. *)
LEMMA AdvanceTyped ==
  ASSUME NEW c \in CommsType, NEW d \in AdvanceHoming(c)
  PROVE  d \in CommsType
<1> DEFINE ended == [c EXCEPT !.homing = FALSE]
<1>1. ended \in CommsType
  BY DEF CommsType
<1>2. \/ d = c
      \/ d = ended
      \/ \E o \in {"Succeeded", "Failed"} : d = [ended EXCEPT !.outcome = o]
  BY DEF AdvanceHoming
<1> HIDE DEF ended
<1> QED
  BY <1>1, <1>2 DEF CommsType

-----------------------------------------------------------------------------
(* Type correctness *)

(* A step of a call that moves on to another label. *)
LEMMA GotoKeeps ==
  ASSUME TypeInv, NEW label \in UserLabels, Goto(label), UserFits(label, user.call, user.goal),
         hand' \in HandType, seen' \in SeenType, UNCHANGED <<comms, rt, env>>
  PROVE  TypeInv'
<1>1. user' \in UserType /\ user'.pc = label /\ user'.call = user.call /\ user'.goal = user.goal
  BY GotoTyped DEF TypeInv, TypeOK
<1> QED
  BY <1>1 DEF TypeInv, TypeOK, Labels

(* A step with which a call returns. *)
LEMMA ReturnKeeps ==
  ASSUME TypeInv, NEW code \in ErrorCodes, Return(code), hand' \in HandType, seen' \in SeenType,
         comms' \in CommsType, rt' \in LoopType, LoopFits(rt.pc, rt.store)', UNCHANGED env
  PROVE  TypeInv'
<1>1. user' \in UserType /\ user'.pc = "idle"
  BY ReturnTyped DEF TypeInv, TypeOK
<1> QED
  BY <1>1 DEF TypeInv, TypeOK, Labels, UserFits

(* A refusal, or an answer to what is already so. *)
LEMMA AnswerKeeps ==
  ASSUME TypeInv, NEW label, NEW code \in ErrorCodes, Answer(label, code)
  PROVE  TypeInv'
<1>1. hand' \in HandType /\ seen' \in SeenType /\ comms' \in CommsType /\ rt' \in LoopType
  BY DEF Answer, TypeInv, TypeOK
<1>2. LoopFits(rt.pc, rt.store)'
  BY DEF Answer, TypeInv, Labels
<1> QED
  BY <1>1, <1>2, ReturnKeeps DEF Answer

(* A refusal is an answer of the table. *)
LEMMA RefusalKeeps ==
  ASSUME TypeInv, NEW label, NEW action \in HandAction, Answer(label, CheckAllowed(action))
  PROVE  TypeInv'
  BY AnswerKeeps, CodeTyped DEF TypeInv, TypeOK

(* A step of the loop that takes no verdict. *)
LEMMA CycleKeeps ==
  ASSUME TypeInv, hand' \in HandType, comms' \in CommsType, rt' \in LoopType,
         env' \in EnvType, seen' \in SeenType, UNCHANGED user,
         rt'.pc # "verdict", rt'.store \in {rt.store, "None"}
  PROVE  TypeInv'
  BY DEF TypeInv, TypeOK, Labels, LoopFits

(* Success is an answer. *)
LEMMA ErrorCodeNone == "None" \in ErrorCodes
  BY DEF ErrorCodes

(* Asking for a stop starts the count of late frames over. *)
LEMMA StopAskedTyped ==
  ASSUME TypeInv PROVE StopAsked \in SeenType
  BY DEF StopAsked, TypeInv, TypeOK, SeenType

(* A call starts at the label of its name. *)
LEMMA CallTyped == ASSUME TypeInv, Call PROVE TypeInv'
<1> PICK c \in Calls : user' = [user EXCEPT !.pc = c, !.call = c, !.goal = c, !.ret = "None", !.made = @ + 1]
  BY DEF Call
<1>1. c \in Procedures /\ c \in UserLabels /\ user.made + 1 \in 0..MaxCalls
  <2>1. c \in Procedures /\ MaxCalls \in Nat
    BY HandCoreAssumption DEF HandCoreAssumption
  <2>2. user.made \in 0..MaxCalls /\ user.made < MaxCalls
    BY DEF Call, TypeInv, TypeOK, UserType
  <2>3. user.made + 1 \in 0..MaxCalls
    BY <2>1, <2>2
  <2>4. c \in UserLabels
    BY <2>1 DEF UserLabels
  <2> QED
    BY <2>1, <2>3, <2>4
<1>2. user' \in UserType
  <2> DEFINE at == [user EXCEPT !.pc = c]
             in == [at EXCEPT !.call = c]
             goes == [in EXCEPT !.goal = c]
             new == [goes EXCEPT !.ret = "None"]
  <2>1. at \in UserType /\ at.made = user.made
    BY <1>1 DEF TypeInv, TypeOK, UserType
  <2> HIDE DEF at
  <2>2. in \in UserType /\ in.made = user.made
    BY <1>1, <2>1 DEF UserType
  <2> HIDE DEF in
  <2>3. goes \in UserType /\ goes.made = user.made
    BY <1>1, <2>2 DEF UserType
  <2> HIDE DEF goes
  <2>4. new \in UserType /\ new.made = user.made
    BY ErrorCodeNone, <2>3 DEF UserType
  <2>5. user' = [new EXCEPT !.made = @ + 1]
    BY DEF new, goes, in, at
  <2> HIDE DEF new
  <2> QED
    BY <1>1, <2>4, <2>5 DEF UserType
<1>3. user'.pc = c /\ user'.call = c /\ user'.goal = c
  BY DEF TypeInv, TypeOK, UserType
<1>4. UserFits(c, c, c)
  BY <1>1 DEF UserFits, Procedures
<1> QED
  BY <1>2, <1>3, <1>4 DEF Call, TypeInv, TypeOK, Labels

(* The steps of connect(). *)
LEMMA ConnectTyped == ASSUME TypeInv, ConnectStep PROVE TypeInv'
<1>1. CASE ConnectRefused
  BY <1>1, RefusalKeeps DEF ConnectRefused, HandAction, AllowedStates
<1>2. CASE ConnectIgnored
  BY <1>2, AnswerKeeps, ErrorCodeNone DEF ConnectIgnored
<1>9. CASE ConnectChecked \/ ConnectAsked \/ ConnectAgain \/ Terminates
  <2>1. PICK label \in {"asked", "confirmed", "open", "terminated"} : Goto(label)
    BY <1>9 DEF ConnectChecked, ConnectAsked, ConnectAgain, Terminates
  <2>2. UNCHANGED <<hand, comms, rt, env, seen>>
    BY <1>9 DEF ConnectChecked, ConnectAsked, ConnectAgain, Terminates
  <2>3. label \in UserLabels /\ UserFits(label, user.call, user.goal)
    BY DEF UserLabels, UserFits
  <2> QED
    BY <2>1, <2>2, <2>3, GotoKeeps DEF TypeInv, TypeOK
<1>3. CASE ConnectOpen
  <2>1. hand' \in HandType
    BY <1>3, NewLinkTyped, RequestTyped DEF ConnectOpen, TypeInv, TypeOK, Lifecycle
  <2>2. comms' \in CommsType
    BY <1>3, CommsTyped DEF ConnectOpen, TypeInv, TypeOK
  <2>3. rt' \in LoopType /\ LoopFits(rt.pc, rt.store)'
    BY <1>3 DEF ConnectOpen, FreshLoop, LoopType, LoopLabels, Lifecycle, Commands, LoopFits
  <2>4. seen' \in SeenType
    BY <1>3 DEF ConnectOpen, TypeInv, TypeOK, SeenType
  <2>5. Goto("first frame") /\ "first frame" \in UserLabels /\ UNCHANGED env
    BY <1>3 DEF ConnectOpen, UserLabels
  <2>6. user' \in UserType /\ user'.pc = "first frame"
    BY <2>5, GotoTyped DEF TypeInv, TypeOK
  <2> QED
    BY <2>1, <2>2, <2>3, <2>4, <2>5, <2>6 DEF TypeInv, TypeOK, Labels, UserFits
<1>4. CASE SocketIsOpen \/ ConnectOpenFails
  <2>1. PICK code \in {"WrongCallOrder", "InterfaceUnavailable"} : ConnectFails(hand, code)
    BY <1>4 DEF SocketIsOpen, ConnectOpenFails
  <2>2. UNCHANGED <<comms, rt, env, seen>>
    BY <1>4 DEF SocketIsOpen, ConnectOpenFails
  <2>3. hand' \in HandType
    BY <2>1 DEF ConnectFails, TypeInv, TypeOK, HandType, UserType, Lifecycle
  <2> QED
    BY <2>1, <2>2, <2>3, ReturnKeeps DEF ConnectFails, ErrorCodes, TypeInv, TypeOK, Labels
<1>5. CASE ConnectThreadFails
  <2> DEFINE down == Observe(Request(NewLink(hand), "Disconnected"), "Disconnected")
  <2>1. down \in HandType
    BY NewLinkTyped, RequestTyped, ObserveTyped DEF TypeInv, TypeOK, Lifecycle
  <2>2. ConnectFails(down, "ControlLoopFault")
    BY <1>5 DEF ConnectThreadFails
  <2> HIDE DEF down
  <2>3. hand' \in HandType
    BY <2>1, <2>2 DEF ConnectFails, TypeInv, TypeOK, HandType, UserType, Lifecycle
  <2>4. comms' \in CommsType
    BY <1>5, CommsTyped DEF ConnectThreadFails, TypeInv, TypeOK
  <2>5. seen' \in SeenType
    BY <1>5 DEF ConnectThreadFails, TypeInv, TypeOK, SeenType
  <2>6. UNCHANGED <<rt, env>> /\ Return("ControlLoopFault") /\ "ControlLoopFault" \in ErrorCodes
    BY <1>5, <2>2 DEF ConnectThreadFails, ConnectFails, ErrorCodes
  <2> QED
    BY <2>3, <2>4, <2>5, <2>6, ReturnKeeps DEF TypeInv, TypeOK, Labels
<1>6. CASE FirstFrameSeen
  BY <1>6, GotoKeeps DEF FirstFrameSeen, TypeInv, TypeOK, UserLabels, UserFits
<1>7. CASE FirstFrameMissed
  <2> DEFINE at == [user EXCEPT !.pc = "leave"]
             goes == [at EXCEPT !.goal = "connect"]
  <2>1. "leave" \in UserLabels /\ "connect" \in Procedures /\ 0 \in 0..WaitCycles
    BY HandCoreAssumption DEF HandCoreAssumption, UserLabels, Procedures
  <2>2. at \in UserType
    BY <2>1 DEF TypeInv, TypeOK, UserType
  <2>3. user' = [goes EXCEPT !.waited = 0]
    BY <1>7 DEF FirstFrameMissed
  <2>4. user'.pc = "leave" /\ user'.goal = "connect"
    BY <1>7 DEF FirstFrameMissed, TypeInv, TypeOK, UserType
  <2> HIDE DEF at
  <2>5. goes \in UserType
    BY <2>1, <2>2 DEF UserType
  <2> HIDE DEF goes
  <2>6. user' \in UserType
    BY <2>1, <2>3, <2>5 DEF UserType
  <2> QED
    BY <1>7, <2>4, <2>6 DEF FirstFrameMissed, TypeInv, TypeOK, Labels, UserFits
<1>8. CASE ConnectSucceeds
  <2>1. hand' \in HandType
    BY <1>8, ObserveTyped DEF ConnectSucceeds, TypeInv, TypeOK, Lifecycle
  <2> QED
    BY <1>8, <2>1, ReturnKeeps, ErrorCodeNone DEF ConnectSucceeds, TypeInv, TypeOK, Labels
<1> QED
  BY <1>1, <1>2, <1>3, <1>4, <1>5, <1>6, <1>7, <1>8, <1>9 DEF ConnectStep

(* The steps of disconnect(), close() and reconnect() up to the join. *)
LEMMA LeaveTyped == ASSUME TypeInv, LeaveStep PROVE TypeInv'
<1>1. CASE ReconnectRefused \/ DisconnectRefused
  BY <1>1, RefusalKeeps DEF ReconnectRefused, DisconnectRefused, HandAction, AllowedStates
<1>2. CASE DisconnectIgnored \/ CloseIgnored
  BY <1>2, AnswerKeeps, ErrorCodeNone DEF DisconnectIgnored, CloseIgnored
<1>3. CASE ReconnectStart
  BY <1>3, GotoKeeps DEF ReconnectStart, At, TypeInv, TypeOK, Labels, UserLabels, UserFits
<1>4. CASE DisconnectReset
  <2>1. hand' \in HandType
    BY <1>4, StageTyped DEF DisconnectReset, TypeInv, TypeOK, Commands
  <2> QED
    BY <1>4, <2>1, GotoKeeps DEF DisconnectReset, At, TypeInv, TypeOK, Labels, UserLabels, UserFits
<1>5. CASE Close
  <2>1. hand' \in HandType
    BY <1>5 DEF Close, TypeInv, TypeOK, HandType
  <2> QED
    BY <1>5, <2>1, GotoKeeps DEF Close, At, TypeInv, TypeOK, Labels, UserLabels, UserFits
<1>6. CASE Quiesce
  <2>1. CASE ControlRequested /\ hand.observed # "Stopped"
    <3>1. hand' \in HandType /\ seen' \in SeenType
      BY <1>6, <2>1, RequestTyped, StopAskedTyped DEF Quiesce, TypeInv, TypeOK, Lifecycle
    <3> QED
      BY <1>6, <2>1, <3>1, GotoKeeps DEF Quiesce, At, TypeInv, TypeOK, Labels, UserLabels, UserFits
  <2>2. CASE ~(ControlRequested /\ hand.observed # "Stopped")
    BY <1>6, <2>2, GotoKeeps DEF Quiesce, At, TypeInv, TypeOK, Labels, UserLabels, UserFits
  <2> QED
    BY <2>1, <2>2
<1>7. CASE Leave
  <2>1. hand' \in HandType
    BY <1>7, RequestTyped DEF Leave, TypeInv, TypeOK, Lifecycle
  <2> QED
    BY <1>7, <2>1, GotoKeeps DEF Leave, At, TypeInv, TypeOK, Labels, UserLabels, UserFits
<1>8. CASE Join
  <2> DEFINE left == Observe(hand, "Disconnected")
  <2>1. left \in HandType /\ comms' \in CommsType
    BY <1>8, ObserveTyped, CommsTyped DEF Join, TypeInv, TypeOK, Lifecycle
  <2>2. rt' \in LoopType /\ LoopFits(rt.pc, rt.store)' /\ UNCHANGED <<env, seen>>
    BY <1>8 DEF Join, FreshLoop, LoopType, LoopLabels, Lifecycle, Commands, LoopFits
  <2>3. CASE user.goal = "connect"
    <3>1. ConnectFails(left, "CommunicationLost") /\ "CommunicationLost" \in ErrorCodes
      BY <1>8, <2>3 DEF Join, ErrorCodes
    <3> HIDE DEF left
    <3>2. hand' \in HandType
      BY <2>1, <3>1 DEF ConnectFails, TypeInv, TypeOK, HandType, UserType, Lifecycle
    <3> QED
      BY <2>1, <2>2, <3>1, <3>2, ReturnKeeps DEF ConnectFails, TypeInv, TypeOK
  <2>4. CASE user.goal = "reconnect"
    <3> DEFINE at == [user EXCEPT !.pc = "connect"]
    <3>1. at \in UserType
      BY DEF TypeInv, TypeOK, UserType, UserLabels, Procedures
    <3>2. user' = [at EXCEPT !.saved = hand.cause] /\ hand' = Stage(ResetFaultState(left), "Idle")
      BY <1>8, <2>4 DEF Join
    <3>3. user'.pc = "connect"
      BY <1>8, <2>4 DEF Join, TypeInv, TypeOK, UserType
    <3> HIDE DEF left, at
    <3>4. user' \in UserType
      BY <3>1, <3>2 DEF UserType, TypeInv, TypeOK, HandType
    <3>5. hand' \in HandType
      BY <2>1, <3>2, ResetTyped, StageTyped DEF Commands
    <3> QED
      BY <2>1, <2>2, <3>3, <3>4, <3>5 DEF TypeInv, TypeOK, Labels, UserFits
  <2>5. CASE user.goal = "disconnect"
    <3>1. hand' \in HandType /\ Return("None")
      BY <1>8, <2>1, <2>5 DEF Join, HandType
    <3> QED
      BY <2>1, <2>2, <3>1, ReturnKeeps, ErrorCodeNone DEF TypeInv, TypeOK
  <2>6. CASE user.goal = "close"
    <3>1. hand' \in HandType /\ Return("None")
      BY <1>8, <2>1, <2>6 DEF Join
    <3> QED
      BY <2>1, <2>2, <3>1, ReturnKeeps, ErrorCodeNone DEF TypeInv, TypeOK
  <2>7. user.goal \in {"connect", "reconnect", "disconnect", "close"}
    BY <1>8 DEF Join, At, TypeInv, Labels, UserFits
  <2> QED
    BY <2>3, <2>4, <2>5, <2>6, <2>7
<1> QED
  BY <1>1, <1>2, <1>3, <1>4, <1>5, <1>6, <1>7, <1>8 DEF LeaveStep

(* The steps of stop(), and of the stop inside disconnect() and close(). *)
LEMMA StopTyped == ASSUME TypeInv, StopStep PROVE TypeInv'
<1>1. CASE StopRefused
  BY <1>1, RefusalKeeps DEF StopRefused, HandAction, AllowedStates
<1>2. CASE StopIgnored
  BY <1>2, AnswerKeeps, ErrorCodeNone DEF StopIgnored
<1>3. CASE Stop
  <2>1. hand' \in HandType /\ seen' \in SeenType
    BY <1>3, RequestTyped, StopAskedTyped DEF Stop, TypeInv, TypeOK, Lifecycle
  <2> QED
    BY <1>3, <2>1, GotoKeeps DEF Stop, At, TypeInv, TypeOK, Labels, UserLabels, UserFits
<1>4. CASE StopReset
  <2>1. hand' \in HandType
    BY <1>4, StageTyped DEF StopReset, TypeInv, TypeOK, Commands
  <2> QED
    BY <1>4, <2>1, GotoKeeps DEF StopReset, At, TypeInv, TypeOK, Labels, UserLabels, UserFits
<1>5. CASE StopConfirmed
  <2>1. CASE user.call = "stop"
    BY <1>5, <2>1, ReturnKeeps, ErrorCodeNone DEF StopConfirmed, TypeInv, TypeOK, Labels
  <2>2. CASE user.call # "stop"
    BY <1>5, <2>2, GotoKeeps DEF StopConfirmed, At, TypeInv, TypeOK, Labels, UserLabels, UserFits
  <2> QED
    BY <2>1, <2>2
<1>6. CASE StopNotConfirmed
  <2>1. user.call \in {"stop", "disconnect", "close"} /\ UNCHANGED <<hand, comms, rt, env, seen>>
    BY <1>6 DEF StopNotConfirmed, At, TypeInv, Labels, UserFits
  <2>2. UnconfirmedCode("Stop") \in ErrorCodes /\ UnconfirmedCode("Disconnect") \in ErrorCodes
    BY CodeTyped DEF UnconfirmedCode, LinkCode, ErrorCodes, HandAction, AllowedStates, TypeInv, TypeOK
  <2>3. CASE user.call = "stop"
    BY <1>6, <2>1, <2>2, <2>3, ReturnKeeps DEF StopNotConfirmed, TypeInv, TypeOK, Labels
  <2>4. CASE user.call = "disconnect"
    BY <1>6, <2>1, <2>2, <2>4, ReturnKeeps DEF StopNotConfirmed, TypeInv, TypeOK, Labels
  <2>5. CASE user.call = "close"
    BY <1>6, <2>1, <2>5, GotoKeeps DEF StopNotConfirmed, At, TypeInv, TypeOK, Labels, UserLabels, UserFits
  <2> QED
    BY <2>1, <2>3, <2>4, <2>5
<1> QED
  BY <1>1, <1>2, <1>3, <1>4, <1>5, <1>6 DEF StopStep

(* The steps of run(). *)
LEMMA RunTyped == ASSUME TypeInv, RunStep PROVE TypeInv'
<1>1. CASE RunRefused
  BY <1>1, RefusalKeeps DEF RunRefused, HandAction, AllowedStates
<1>2. CASE RunIgnored
  BY <1>2, AnswerKeeps, ErrorCodeNone DEF RunIgnored
<1>3. CASE Run
  <2>1. CASE HomeFirst
    <3> DEFINE at == [user EXCEPT !.pc = "home"]
    <3>1. at \in UserType
      BY DEF TypeInv, TypeOK, UserType, UserLabels, Procedures
    <3>2. user' = [at EXCEPT !.goal = "home"]
      BY <1>3, <2>1 DEF Run
    <3>3. user'.pc = "home"
      BY <3>2 DEF TypeInv, TypeOK, UserType
    <3> HIDE DEF at
    <3>4. user' \in UserType
      BY <3>1, <3>2 DEF UserType, Procedures
    <3> QED
      BY <1>3, <3>3, <3>4 DEF Run, TypeInv, TypeOK, Labels, UserFits
  <2>2. CASE ~HomeFirst
    <3>1. user' = [user EXCEPT !.pc = "control"]
      BY <1>3, <2>2 DEF Run
    <3>2. user' \in UserType /\ user'.pc = "control"
      BY <3>1 DEF TypeInv, TypeOK, UserType, UserLabels
    <3> QED
      BY <1>3, <3>2 DEF Run, TypeInv, TypeOK, Labels, UserFits
  <2> QED
    BY <2>1, <2>2
<1>4. CASE ControlHeld
  BY <1>4, GotoKeeps DEF ControlHeld, AfterControl, TypeInv, TypeOK, UserLabels, UserFits
<1>5. CASE ControlRefused
  BY <1>5, AnswerKeeps DEF ControlRefused, ErrorCodes
<1>6. CASE ControlFromStopped
  <2>1. hand' \in HandType
    BY <1>6, StageTyped DEF ControlFromStopped, TypeInv, TypeOK, Commands
  <2> QED
    BY <1>6, <2>1, GotoKeeps DEF ControlFromStopped, TypeInv, TypeOK, UserLabels, UserFits
<1>7. CASE RequestHold
  <2>1. hand' \in HandType
    BY <1>7 DEF RequestHold, TypeInv, TypeOK, HandType
  <2> QED
    BY <1>7, <2>1, GotoKeeps DEF RequestHold, TypeInv, TypeOK, UserLabels, UserFits
<1>8. CASE ControlElsewhere
  BY <1>8, GotoKeeps DEF ControlElsewhere, TypeInv, TypeOK, UserLabels, UserFits
<1>9. CASE RequestRun
  <2>1. hand' \in HandType
    BY <1>9, RequestTyped DEF RequestRun, TypeInv, TypeOK, Lifecycle
  <2> QED
    BY <1>9, <2>1, GotoKeeps DEF RequestRun, AfterControl, TypeInv, TypeOK, UserLabels, UserFits
<1>10. CASE RunConfirmed
  BY <1>10, GotoKeeps DEF RunConfirmed, TypeInv, TypeOK, UserLabels, UserFits
<1>11. CASE RunSucceeds
  <2>1. hand' \in HandType
    BY <1>11, ObserveTyped DEF RunSucceeds, TypeInv, TypeOK, Lifecycle
  <2> QED
    BY <1>11, <2>1, ReturnKeeps, ErrorCodeNone DEF RunSucceeds, TypeInv, TypeOK, Labels
<1>12. CASE RunNotConfirmed
  <2>1. hand' \in HandType /\ seen' \in SeenType
    BY <1>12, RequestTyped, StopAskedTyped DEF RunNotConfirmed, TypeInv, TypeOK, Lifecycle
  <2> QED
    BY <1>12, <2>1, GotoKeeps DEF RunNotConfirmed, UserLabels, UserFits
<1>13. CASE RunFails
  <2>1. hand' \in HandType /\ LinkCode \in ErrorCodes
    BY <1>13, StageTyped DEF RunFails, TypeInv, TypeOK, Commands, LinkCode, ErrorCodes
  <2> QED
    BY <1>13, <2>1, ReturnKeeps DEF RunFails, TypeInv, TypeOK, Labels
<1> QED
  BY <1>1, <1>2, <1>3, <1>4, <1>5, <1>6, <1>7, <1>8, <1>9, <1>10, <1>11, <1>12, <1>13 DEF RunStep

(* The steps of home() and start_homing(). *)
LEMMA HomeTyped == ASSUME TypeInv, HomeStep PROVE TypeInv'
<1>1. CASE HomeRefused
  BY <1>1, RefusalKeeps DEF HomeRefused, HandAction, AllowedStates
<1>2. CASE StartHoming
  <2> DEFINE begun == [hand EXCEPT !.homing = "InProgress"]
  <2>1. begun \in HandType /\ hand' = Stage(begun, "Idle")
    BY <1>2 DEF StartHoming, TypeInv, TypeOK, HandType, HomingStates
  <2> HIDE DEF begun
  <2>2. hand' \in HandType
    BY <2>1, StageTyped DEF Commands
  <2> QED
    BY <1>2, <2>2, GotoKeeps DEF StartHoming, TypeInv, TypeOK, UserLabels, UserFits
<1>3. CASE RequestHoming
  <2>1. hand' \in HandType /\ seen' \in SeenType
    BY <1>3 DEF RequestHoming, TypeInv, TypeOK, HandType, SeenType
  <2>2. CASE user.goal = "home"
    BY <1>3, <2>1, <2>2, GotoKeeps DEF RequestHoming, UserLabels, UserFits
  <2>3. CASE user.goal # "home"
    BY <1>3, <2>1, <2>3, ReturnKeeps, ErrorCodeNone DEF RequestHoming, TypeInv, TypeOK, Labels
  <2> QED
    BY <2>2, <2>3
<1>4. CASE HomeReturns
  <2>1. HomeCode \in ErrorCodes
    BY CodeTyped DEF HomeCode, ErrorCodes, HandAction, AllowedStates, TypeInv, TypeOK
  <2> QED
    BY <1>4, <2>1, ReturnKeeps DEF HomeReturns, TypeInv, TypeOK, Labels
<1> QED
  BY <1>1, <1>2, <1>3, <1>4 DEF HomeStep

(* The steps of set_command(). *)
LEMMA CommandTyped == ASSUME TypeInv, CommandStep PROVE TypeInv'
<1>1. CASE SetCommandRefused
  BY <1>1, RefusalKeeps DEF SetCommandRefused, HandAction, AllowedStates
<1>2. CASE SetCommand
  BY <1>2, GotoKeeps DEF SetCommand, TypeInv, TypeOK, UserLabels, UserFits
<1>3. CASE StageCommand
  <2>1. hand' \in HandType /\ seen' \in SeenType
    BY <1>3, StageTyped DEF StageCommand, TypeInv, TypeOK, Commands, SeenType
  <2> QED
    BY <1>3, <2>1, ReturnKeeps, ErrorCodeNone DEF StageCommand, TypeInv, TypeOK, Labels
<1> QED
  BY <1>1, <1>2, <1>3 DEF CommandStep

(* The steps of one cycle of the loop. *)
LEMMA CycleTyped == ASSUME TypeInv, CycleStep PROVE TypeInv'
<1>1. CASE LoopTop
  <2>1. PICK label \in {"dead", "input", "reopen"} :
          rt' = [rt EXCEPT !.pc = label, !.req = hand.requested, !.obs = hand.observed]
    <3>1. CASE hand.requested = "Disconnected"
      BY <1>1, <3>1 DEF LoopTop
    <3>2. CASE hand.requested # "Disconnected" /\ hand.observed # "Faulted"
      BY <1>1, <3>2 DEF LoopTop
    <3>3. CASE hand.requested # "Disconnected" /\ hand.observed = "Faulted"
      BY <1>1, <3>3 DEF LoopTop
    <3> QED
      BY <3>1, <3>2, <3>3
  <2> DEFINE moved == [rt EXCEPT !.pc = label]
             asked == [moved EXCEPT !.req = hand.requested]
  <2>3. moved \in LoopType /\ moved.pc # "verdict" /\ moved.store = rt.store
    BY <2>1 DEF TypeInv, TypeOK, LoopType, LoopLabels
  <2> HIDE DEF moved
  <2>4. asked \in LoopType /\ asked.pc # "verdict" /\ asked.store = rt.store
    BY <2>3 DEF TypeInv, TypeOK, LoopType, HandType
  <2>5. rt' = [asked EXCEPT !.obs = hand.observed]
    BY <2>1 DEF asked, moved
  <2> HIDE DEF asked
  <2>6. rt' \in LoopType /\ rt'.pc # "verdict" /\ rt'.store = rt.store
    BY <2>4, <2>5 DEF TypeInv, TypeOK, LoopType, HandType
  <2>2. user' \in UserType /\ user'.pc = user.pc /\ user'.call = user.call /\ user'.goal = user.goal
    BY <1>1, HandCoreAssumption DEF HandCoreAssumption, LoopTop, CycleBegins, TypeInv, TypeOK, UserType
  <2> QED
    BY <1>1, <2>2, <2>6 DEF LoopTop, TypeInv, TypeOK, Labels, LoopFits
<1>2. CASE TakeCommand
  <2>1. hand' \in HandType
    BY <1>2 DEF TakeCommand, TypeInv, TypeOK, HandType
  <2>2. rt' \in LoopType /\ rt'.pc # "verdict" /\ rt'.store = rt.store
    BY <1>2 DEF TakeCommand, TypeInv, TypeOK, HandType, LoopType, LoopLabels
  <2> QED
    BY <1>2, <2>1, <2>2, CycleKeeps DEF TakeCommand, TypeInv, TypeOK
<1>3. CASE TakeHomingRequest
  <2>1. hand' \in HandType
    BY <1>3 DEF TakeHomingRequest, TypeInv, TypeOK, HandType
  <2>2. rt' \in LoopType /\ rt'.pc # "verdict" /\ rt'.store = rt.store
    BY <1>3 DEF TakeHomingRequest, TypeInv, TypeOK, LoopType, LoopLabels
  <2> QED
    BY <1>3, <2>1, <2>2, CycleKeeps DEF TakeHomingRequest, TypeInv, TypeOK
<1>4. CASE BeginHoming
  <2>1. hand' \in HandType
    BY <1>4 DEF BeginHoming, TypeInv, TypeOK, HandType, HomingStates
  <2>3. comms' \in CommsType
    <3> DEFINE begun == [comms EXCEPT !.homing = TRUE]
    <3>1. begun \in CommsType
      BY DEF TypeInv, TypeOK, CommsType
    <3>2. comms' = [begun EXCEPT !.outcome = "InProgress"] \/ comms' = comms
      BY <1>4 DEF BeginHoming, StartSequence
    <3> HIDE DEF begun
    <3> QED
      BY <3>1, <3>2 DEF TypeInv, TypeOK, CommsType
  <2>2. rt' \in LoopType /\ rt'.pc # "verdict" /\ rt'.store = rt.store
    BY <1>4 DEF BeginHoming, TypeInv, TypeOK, LoopType, LoopLabels
  <2> QED
    BY <1>4, <2>1, <2>2, <2>3, CycleKeeps DEF BeginHoming, TypeInv, TypeOK
<1>5. CASE Observation
  <2> DEFINE now == Received(comms)
             receiving == now.anyFrame /\ now.silent <= LossCycles
             silenced == now.anyFrame /\ rt.prevReceiving /\ ~receiving /\ rt.obs # "Faulted"
  <2>1. now \in CommsType
    BY ReceivedTyped DEF TypeInv, TypeOK
  <2>2. receiving \in BOOLEAN /\ silenced \in BOOLEAN /\ now.anyFrame \in BOOLEAN
    BY <2>1 DEF CommsType
  <2>3. /\ comms' = now
        /\ hand' = [hand EXCEPT !.checkFirst = @ \/ now.anyFrame,
                                !.cause = IF silenced THEN "ReceiveSilence" ELSE @]
        /\ rt' = [rt EXCEPT !.receiving = receiving,
                            !.prevReceiving = IF now.anyFrame THEN receiving ELSE @,
                            !.pc = IF silenced THEN "silence" ELSE "hold"]
        /\ UNCHANGED <<user, env, seen>>
    BY <1>5 DEF Observation
  <2> HIDE DEF now, receiving, silenced
  <2>4. hand' \in HandType
    BY <2>2, <2>3 DEF TypeInv, TypeOK, HandType, StopCauses
  <2>5. rt' \in LoopType /\ rt'.pc # "verdict" /\ rt'.store = rt.store
    BY <2>2, <2>3 DEF TypeInv, TypeOK, LoopType, LoopLabels
  <2> QED
    BY <2>1, <2>3, <2>4, <2>5, CycleKeeps DEF TypeInv, TypeOK
<1>6. CASE SilenceFault
  <2>1. hand' \in HandType
    BY <1>6, ObserveTyped DEF SilenceFault, TypeInv, TypeOK, Lifecycle
  <2>2. rt' \in LoopType /\ rt'.pc # "verdict" /\ rt'.store = rt.store
    BY <1>6 DEF SilenceFault, TypeInv, TypeOK, LoopType, LoopLabels, Lifecycle
  <2> QED
    BY <1>6, <2>1, <2>2, CycleKeeps DEF SilenceFault, TypeInv, TypeOK
<1>7. CASE TakeHoldRequest
  <2>1. hand' \in HandType
    BY <1>7 DEF TakeHoldRequest, TypeInv, TypeOK, HandType
  <2>2. rt' \in LoopType /\ rt'.pc # "verdict" /\ rt'.store = rt.store
    BY <1>7 DEF TakeHoldRequest, TypeInv, TypeOK, LoopType, LoopLabels
  <2> QED
    BY <1>7, <2>1, <2>2, CycleKeeps DEF TakeHoldRequest, TypeInv, TypeOK
<1>8. CASE StageHold
  <2>1. hand' \in HandType
    BY <1>8, StageTyped DEF StageHold, TypeInv, TypeOK, Commands
  <2>2. rt' \in LoopType /\ rt'.pc # "verdict" /\ rt'.store = rt.store
    BY <1>8 DEF StageHold, TypeInv, TypeOK, LoopType, LoopLabels
  <2> QED
    BY <1>8, <2>1, <2>2, CycleKeeps DEF StageHold, TypeInv, TypeOK
<1>9. CASE ReadLatest
  <2>1. rt' \in LoopType /\ rt'.pc # "verdict" /\ rt'.store = rt.store
    BY <1>9 DEF ReadLatest, TypeInv, TypeOK, LoopType, LoopLabels, HandType
  <2> QED
    BY <1>9, <2>1, CycleKeeps DEF ReadLatest, TypeInv, TypeOK
<1>10. CASE Send
  <2>1. comms' \in CommsType
    BY <1>10, AdvanceTyped DEF Send, TypeInv, TypeOK
  <2>2. env' \in EnvType
    BY <1>10 DEF Send, Sends, TypeInv, TypeOK, EnvType
  <2>3. hand' \in HandType
    BY <1>10 DEF Send, TypeInv, TypeOK, HandType, StopCauses
  <2>4. rt' \in LoopType /\ rt'.pc # "verdict" /\ rt'.store = rt.store
    BY <1>10 DEF Send, TypeInv, TypeOK, LoopType, LoopLabels
  <2>5. seen' \in SeenType
    <3> DEFINE origin == seen.origin \/ (comms.homing /\ comms'.outcome = "Succeeded")
               voided == seen.voided \/ (rt.latest # "Running" /\ hand.requested # "Running")
               late == IF comms.socket /\ ~QuickStop /\ hand.requested = "Stopped" /\ seen.late < 2
                       THEN seen.late + 1 ELSE seen.late
               homed == [seen EXCEPT !.origin = origin]
               off == [homed EXCEPT !.voided = voided]
    <3>1. origin \in BOOLEAN /\ voided \in BOOLEAN
      BY DEF TypeInv, TypeOK, SeenType, CommsType
    <3>2. late \in 0..2
      BY DEF TypeInv, TypeOK, SeenType
    <3>3. seen' = [seen EXCEPT !.origin = origin, !.voided = voided, !.late = late]
      BY <1>10 DEF Send
    <3> HIDE DEF origin, voided, late
    <3>4. homed \in SeenType
      BY <3>1 DEF TypeInv, TypeOK, SeenType
    <3>5. seen' = [off EXCEPT !.late = late]
      BY <3>3 DEF off, homed
    <3> HIDE DEF homed
    <3>6. off \in SeenType
      BY <3>1, <3>4 DEF SeenType
    <3> HIDE DEF off
    <3> QED
      BY <3>2, <3>5, <3>6 DEF SeenType
  <2> QED
    BY <1>10, <2>1, <2>2, <2>3, <2>4, <2>5, CycleKeeps DEF Send
<1>11. CASE WriteFault
  <2>1. hand' \in HandType
    BY <1>11, ObserveTyped DEF WriteFault, TypeInv, TypeOK, Lifecycle
  <2>2. rt' \in LoopType /\ rt'.pc # "verdict" /\ rt'.store = rt.store
    BY <1>11 DEF WriteFault, TypeInv, TypeOK, LoopType, LoopLabels, Lifecycle
  <2> QED
    BY <1>11, <2>1, <2>2, CycleKeeps DEF WriteFault, TypeInv, TypeOK
<1>12. CASE JudgeLink
  <2>1. hand' \in HandType
    BY <1>12 DEF JudgeLink, TypeInv, TypeOK, HandType, LoopType
  <2>2. rt' \in LoopType /\ rt'.pc # "verdict" /\ rt'.store = "None"
    BY <1>12 DEF JudgeLink, FreshLoop, TypeInv, TypeOK, LoopType, LoopLabels, Lifecycle
  <2> QED
    BY <1>12, <2>1, <2>2, CycleKeeps DEF JudgeLink, TypeInv, TypeOK
<1>13. CASE JudgeDrives
  <2>1. DriveVerdict \in {"None", "Connected", "Running", "Stopped"}
    BY DEF DriveVerdict
  <2>2. rt' = [rt EXCEPT !.store = DriveVerdict, !.receiving = FALSE,
                         !.pc = IF DriveVerdict = "None" THEN "homed" ELSE "verdict"]
        /\ UNCHANGED <<hand, comms, user, env, seen>>
    BY <1>13 DEF JudgeDrives
  <2>3. PICK verdict \in {"None", "Connected", "Running", "Stopped"} :
          /\ rt' = [rt EXCEPT !.store = verdict, !.receiving = FALSE,
                              !.pc = IF verdict = "None" THEN "homed" ELSE "verdict"]
          /\ UNCHANGED <<hand, comms, user, env, seen>>
    BY <2>1, <2>2
  <2> DEFINE judged == [rt EXCEPT !.store = verdict]
             done == [judged EXCEPT !.receiving = FALSE]
  <2>4. judged \in LoopType /\ judged.store = verdict
    BY <2>3 DEF TypeInv, TypeOK, LoopType, Lifecycle
  <2> HIDE DEF judged
  <2>5. done \in LoopType /\ done.store = verdict
    BY <2>4 DEF LoopType
  <2>6. rt' = [done EXCEPT !.pc = IF verdict = "None" THEN "homed" ELSE "verdict"]
    BY <2>3 DEF done, judged
  <2> HIDE DEF done
  <2>7. rt' \in LoopType /\ rt'.store = verdict /\ (rt'.pc = "verdict" => verdict # "None")
    BY <2>5, <2>6 DEF LoopType, LoopLabels
  <2> QED
    BY <2>3, <2>7 DEF TypeInv, TypeOK, Labels, LoopFits
<1>14. CASE StoreVerdict
  <2>1. rt.store \in Lifecycle
    BY <1>14 DEF StoreVerdict, InCycle, TypeInv, Labels, LoopFits, Lifecycle
  <2>2. hand' \in HandType
    BY <1>14, <2>1, ObserveTyped DEF StoreVerdict, TypeInv, TypeOK
  <2>3. rt' \in LoopType /\ rt'.pc # "verdict" /\ rt'.store = "None"
    BY <1>14 DEF StoreVerdict, TypeInv, TypeOK, LoopType, LoopLabels
  <2> QED
    BY <1>14, <2>2, <2>3, CycleKeeps DEF StoreVerdict, TypeInv, TypeOK
<1>15. CASE HomingResult
  <2>1. hand' \in HandType
    BY <1>15 DEF HomingResult, TypeInv, TypeOK, HandType
  <2>2. rt' \in LoopType /\ rt'.pc # "verdict" /\ rt'.store = rt.store
    BY <1>15 DEF HomingResult, TypeInv, TypeOK, LoopType, LoopLabels
  <2> QED
    BY <1>15, <2>1, <2>2, CycleKeeps DEF HomingResult, TypeInv, TypeOK
<1>16. CASE HomingOver
  <2>1. hand' \in HandType
    BY <1>16 DEF HomingOver, TypeInv, TypeOK, HandType
  <2>2. rt' \in LoopType /\ rt'.pc # "verdict" /\ rt'.store = rt.store
    BY <1>16 DEF HomingOver, TypeInv, TypeOK, LoopType, LoopLabels
  <2> QED
    BY <1>16, <2>1, <2>2, CycleKeeps DEF HomingOver, TypeInv, TypeOK
<1>17. CASE HomingState
  <2>1. hand' \in HandType
    BY <1>17 DEF HomingState, TypeInv, TypeOK, HandType, HomingStates
  <2>2. rt' \in LoopType /\ rt'.pc # "verdict" /\ rt'.store = rt.store
    BY <1>17 DEF HomingState, TypeInv, TypeOK, LoopType, LoopLabels
  <2> QED
    BY <1>17, <2>1, <2>2, CycleKeeps DEF HomingState, TypeInv, TypeOK
<1>18. CASE StageOrigin
  <2>1. hand' \in HandType
    BY <1>18, StageTyped DEF StageOrigin, TypeInv, TypeOK, Commands
  <2>2. rt' \in LoopType /\ rt'.pc # "verdict" /\ rt'.store = rt.store
    BY <1>18 DEF StageOrigin, TypeInv, TypeOK, LoopType, LoopLabels
  <2> QED
    BY <1>18, <2>1, <2>2, CycleKeeps DEF StageOrigin, TypeInv, TypeOK
<1> QED
  BY <1>1, <1>2, <1>3, <1>4, <1>5, <1>6, <1>7, <1>8, <1>9, <1>10, <1>11, <1>12, <1>13, <1>14,
     <1>15, <1>16, <1>17, <1>18 DEF CycleStep

(* The steps of the exception handler. *)
LEMMA FailureTyped == ASSUME TypeInv, FailureStep PROVE TypeInv'
<1>1. CASE LoopThrows
  <2>1. hand' \in HandType
    BY <1>1 DEF LoopThrows, TypeInv, TypeOK, HandType, StopCauses
  <2>2. rt' \in LoopType /\ rt'.pc # "verdict" /\ rt'.store = rt.store
    BY <1>1 DEF LoopThrows, TypeInv, TypeOK, LoopType, LoopLabels
  <2> QED
    BY <1>1, <2>1, <2>2, CycleKeeps DEF LoopThrows, TypeInv, TypeOK
<1>2. CASE LoopFails
  <2>1. hand' \in HandType
    BY <1>2, ObserveTyped DEF LoopFails, TypeInv, TypeOK, Lifecycle
  <2>2. rt' \in LoopType /\ rt'.pc # "verdict" /\ rt'.store = rt.store
    BY <1>2 DEF LoopFails, TypeInv, TypeOK, LoopType, LoopLabels, Lifecycle
  <2> QED
    BY <1>2, <2>1, <2>2, CycleKeeps DEF LoopFails, TypeInv, TypeOK
<1>3. CASE LastQuickStops
  <2>1. comms' \in CommsType /\ env' \in EnvType /\ seen' \in SeenType
    BY <1>3 DEF LastQuickStops, Sends, TypeInv, TypeOK, CommsType, EnvType, SeenType
  <2>2. rt' \in LoopType /\ rt'.pc # "verdict" /\ rt'.store = rt.store
    BY <1>3 DEF LastQuickStops, TypeInv, TypeOK, LoopType, LoopLabels
  <2> QED
    BY <1>3, <2>1, <2>2, CycleKeeps DEF LastQuickStops, TypeInv, TypeOK
<1> QED
  BY <1>1, <1>2, <1>3 DEF FailureStep

(* The steps of try_reconnect_once(). *)
LEMMA RecoveryTyped == ASSUME TypeInv, RecoveryStep PROVE TypeInv'
<1>1. rt' \in LoopType /\ rt'.pc # "verdict" /\ rt'.store = rt.store
  BY DEF RecoveryStep, Reopen, ReopenFails, GiveUp, AwaitFrame, ForgetFault, ForgetCommand, Resume,
     Recovered, TypeInv, TypeOK, LoopType, LoopLabels
<1>2. CASE Reopen \/ ReopenFails \/ GiveUp
  <2>1. comms' \in CommsType /\ seen' \in SeenType
    BY <1>2, CommsTyped DEF Reopen, ReopenFails, GiveUp, TypeInv, TypeOK, SeenType
  <2> QED
    BY <1>1, <1>2, <2>1, CycleKeeps DEF Reopen, ReopenFails, GiveUp, TypeInv, TypeOK
<1>3. CASE AwaitFrame
  <2>1. comms' \in CommsType
    BY <1>3, CommsTyped, ReceivedTyped DEF AwaitFrame, TypeInv, TypeOK
  <2> QED
    BY <1>1, <1>3, <2>1, CycleKeeps DEF AwaitFrame, TypeInv, TypeOK
<1>4. CASE ForgetFault
  <2>1. ResetFaultState(hand) \in HandType
    BY ResetTyped DEF TypeInv, TypeOK
  <2>2. hand' \in HandType
    BY <1>4, <2>1 DEF ForgetFault, HandType, HomingStates
  <2> QED
    BY <1>1, <1>4, <2>2, CycleKeeps DEF ForgetFault, TypeInv, TypeOK
<1>5. CASE ForgetCommand
  <2>1. Stage(hand, "Idle") \in HandType
    BY StageTyped DEF TypeInv, TypeOK, Commands
  <2>2. AutoReconnectHome \in BOOLEAN
    BY HandCoreAssumption DEF HandCoreAssumption
  <2>3. hand' \in HandType /\ seen' \in SeenType
    BY <1>5, <2>1, <2>2 DEF ForgetCommand, HandType, TypeInv, TypeOK, SeenType
  <2> QED
    BY <1>1, <1>5, <2>3, CycleKeeps DEF ForgetCommand, TypeInv, TypeOK
<1>6. CASE Resume \/ Recovered
  <2>1. hand' \in HandType
    BY <1>6, RequestTyped, ObserveTyped DEF Resume, Recovered, TypeInv, TypeOK, Lifecycle
  <2> QED
    BY <1>1, <1>6, <2>1, CycleKeeps DEF Resume, Recovered, TypeInv, TypeOK
<1> QED
  BY <1>2, <1>3, <1>4, <1>5, <1>6 DEF RecoveryStep

(* The initial state is well typed, and every step keeps it so. *)
LEMMA InitTyped == Init => TypeInv
<1> SUFFICES ASSUME Init PROVE TypeInv
  OBVIOUS
<1>1. hand \in HandType
  <2>1. /\ "Disconnected" \in Lifecycle \ {"Faulted"} /\ "None" \in StopCauses
        /\ "NotRun" \in HomingStates /\ "Idle" \in Commands
    BY DEF Lifecycle, StopCauses, HomingStates, Commands
  <2> QED
    BY <2>1, Zenon DEF Init, Fresh, HandType
<1>2. comms \in CommsType
  <2>1. 0 \in 0..LossCycles + 1 /\ "low" \in DriveStates
    BY HandCoreAssumption DEF HandCoreAssumption, DriveStates
  <2> QED
    BY <2>1 DEF Init, Unopened, CommsType
<1>3. rt \in LoopType
  <2>1. FreshLoop \in LoopType
    BY DEF FreshLoop, LoopType, LoopLabels, Lifecycle, Commands
  <2> QED
    BY <2>1 DEF Init, LoopType, LoopLabels
<1>4. user \in UserType
  <2>1. /\ 0 \in 0..MaxCalls /\ 0 \in 0..WaitCycles /\ "idle" \in UserLabels
        /\ "None" \in ErrorCodes /\ "None" \in StopCauses
    BY HandCoreAssumption DEF HandCoreAssumption, UserLabels, ErrorCodes, StopCauses
  <2> QED
    BY <2>1, Zenon DEF Init, UserType
<1>5. env \in EnvType /\ seen \in SeenType
  BY HandCoreAssumption DEF HandCoreAssumption, Init, EnvType, SeenType, DriveStates
<1>6. Labels
  BY DEF Init, Labels, UserFits, LoopFits, FreshLoop
<1> QED
  BY <1>1, <1>2, <1>3, <1>4, <1>5, <1>6 DEF TypeInv, TypeOK

(* Every step keeps the types and the labels. *)
LEMMA NextTyped == TypeInv /\ [Next]_vars => TypeInv'
<1> SUFFICES ASSUME TypeInv, [Next]_vars PROVE TypeInv'
  OBVIOUS
<1>1. CASE LinkDown \/ LinkUp
  <2>1. env' \in EnvType
    <3>1. CASE LinkDown
      <4> DEFINE down == [env EXCEPT !.up = FALSE]
      <4>1. env.drops + 1 \in 0..MaxDrops
        <5>1. env.drops \in 0..MaxDrops /\ env.drops < MaxDrops /\ MaxDrops \in Nat
          BY <3>1, HandCoreAssumption DEF HandCoreAssumption, LinkDown, TypeInv, TypeOK, EnvType
        <5> QED
          BY <5>1
      <4>2. down \in EnvType /\ down.drops = env.drops
        BY DEF TypeInv, TypeOK, EnvType
      <4>3. env' = [down EXCEPT !.drops = @ + 1]
        BY <3>1 DEF LinkDown
      <4> HIDE DEF down
      <4> QED
        BY <4>1, <4>2, <4>3 DEF EnvType
    <3>2. CASE LinkUp
      BY <3>2 DEF LinkUp, TypeInv, TypeOK, EnvType
    <3> QED
      BY <1>1, <3>1, <3>2
  <2> QED
    BY <1>1, <2>1 DEF LinkDown, LinkUp, TypeInv, TypeOK, Labels
<1>2. CASE UNCHANGED vars
  BY <1>2 DEF vars, TypeInv, TypeOK, Labels, HandType, CommsType, LoopType, UserType, EnvType, SeenType
<1> QED
  BY <1>1, <1>2, CallTyped, ConnectTyped, LeaveTyped, StopTyped, RunTyped, HomeTyped, CommandTyped,
     CycleTyped, FailureTyped, RecoveryTyped DEF Next, InCall, ControlLoop

(* So they always hold. *)
LEMMA Typed == Spec => []TypeInv
  BY InitTyped, NextTyped, PTL DEF Spec

(* Every variable keeps its type; Faulted is never requested. *)
THEOREM TypeCorrect == Spec => []TypeOK
<1>1. TypeInv => TypeOK
  BY DEF TypeInv
<1> QED
  BY Typed, <1>1, PTL

-----------------------------------------------------------------------------
(* Requests and faults *)

(* connect() is past its check.                                            *)
Opening == {"asked", "confirmed", "open"}

(* A loop whose exit was requested is being joined; connect() that got past *)
(* its check finds what it checked unless a loop is alive, and none is      *)
(* while reconnect() connects.                                              *)
Requests ==
  /\ hand.requested = "Disconnected" => rt.pc = "none" \/ user.pc = "join"
  /\ user.pc \in Opening => ~hand.destroyed
  /\ user.pc \in Opening /\ rt.pc = "none" => hand.requested \in {"Disconnected", "Connected"}
  /\ user.call = "reconnect" /\ user.pc \in {"connect"} \cup Opening => rt.pc = "none"
  /\ user.pc \in {"confirm run", "running"} => hand.requested = "Running"

(* Only the loop stores Faulted while it runs, and it remembers it for the *)
(* rest of the cycle.                                                      *)
FaultsSeen ==
  /\ rt.pc \in {"input", "request", "start homing", "observe", "silence", "write fault"} =>
       hand.observed # "Faulted"
  /\ rt.pc \in {"hold", "stage hold", "latest", "send"} /\ hand.observed = "Faulted" =>
       rt.obs = "Faulted"

(* The cause is there before the fault, stays while reconnect() gets under *)
(* way, and is saved by the time reconnect() has cleared it.               *)
CauseKept ==
  /\ FaultHasCause
  /\ rt.pc \in {"silence", "write fault", "failed"} => hand.cause # "None"
  /\ user.pc \in {"leave", "join"} /\ user.goal = "reconnect" => hand.cause # "None"
  /\ user.call = "reconnect" /\ user.pc \in {"connect", "first frame"} \cup Opening => user.saved # "None"
  /\ user.call = "reconnect" /\ user.pc \in {"leave", "join"} /\ user.goal = "connect" =>
       user.saved # "None"
  /\ rt.pc \notin Recovering

(* The frame that may go out late is the one whose cycle read Running      *)
(* before the stop was requested.                                          *)
OneLate ==
  /\ seen.late <= 1
  /\ hand.requested = "Stopped" /\ rt.pc = "send" /\ rt.latest = "Running" => seen.late = 0

-----------------------------------------------------------------------------
(* What most steps leave alone *)

(* A step of a call that disturbs none of the invariants below. *)
QuietCall ==
  /\ hand'.requested = hand.requested /\ hand'.observed = hand.observed /\ hand'.cause = hand.cause
  /\ rt' = rt /\ seen'.late = seen.late
  /\ user.pc \notin {"connected", "leave", "join"}
  /\ user.pc = "first frame" => user'.pc \in {"connected", "leave"}
  /\ user'.pc # "join"
  /\ user'.pc = "confirm run" => hand.requested = "Running"
  /\ user'.pc = "running" => user.pc = "confirm run"
  /\ user'.pc = "leave" /\ user'.goal = "reconnect" => hand.observed = "Faulted"
  /\ user'.pc \in Opening =>
       /\ ~hand'.destroyed
       /\ user.pc \in Opening \/ hand.requested \in {"Disconnected", "Connected"}
  /\ user'.call = "reconnect" =>
       /\ user'.pc \notin {"connect", "first frame"}
       /\ user'.pc \in Opening =>
            user.call = "reconnect" /\ user.pc \in {"connect"} \cup Opening /\ user'.saved = user.saved
  /\ user'.call = "reconnect" /\ user'.pc = "leave" /\ user'.goal = "connect" =>
       user.call = "reconnect" /\ user.pc = "first frame" /\ user'.saved = user.saved

(* A step of the loop that disturbs none of them. *)
QuietCycle ==
  /\ hand'.requested = hand.requested /\ hand'.observed = hand.observed /\ hand'.cause = hand.cause
  /\ user' = user /\ seen'.late = seen.late /\ hand'.destroyed = hand.destroyed
  /\ rt'.obs = rt.obs /\ rt'.store = rt.store /\ rt'.latest = rt.latest
  /\ rt.pc # "none"
  /\ rt'.pc \notin {"none", "silence", "hold", "send", "write fault", "failed", "input"}
  /\ rt'.pc \in {"request", "start homing", "observe"} => rt.pc \in {"input", "request", "start homing"}
  /\ rt'.pc \in {"stage hold", "latest"} => rt.pc \in {"hold", "stage hold"}
  /\ rt'.pc \in Recovering => rt.pc \in Recovering

(* Staging a command leaves the lifecycle and the cause alone. *)
LEMMA StageLeaves ==
  ASSUME NEW h \in HandType, NEW command
  PROVE  /\ Stage(h, command).requested = h.requested
         /\ Stage(h, command).observed = h.observed
         /\ Stage(h, command).cause = h.cause /\ Stage(h, command).destroyed = h.destroyed
  BY DEF Stage, HandType

(* Moving to another label keeps the call, *)
LEMMA GotoMoves ==
  ASSUME TypeInv, NEW label, Goto(label)
  PROVE  user'.pc = label /\ user'.call = user.call /\ user'.goal = user.goal /\ user'.saved = user.saved
  BY DEF Goto, TypeInv, TypeOK, UserType

(* and returning ends it. *)
LEMMA ReturnMoves ==
  ASSUME TypeInv, \E code : Return(code)
  PROVE  user'.pc = "idle" /\ user'.call = "none" /\ user'.goal = "none"
  BY DEF Return, TypeInv, TypeOK, UserType

(* What is refused, or already so, ends where it began. *)
LEMMA AnswersAreQuiet ==
  ASSUME TypeInv,
         \/ ConnectRefused \/ ConnectIgnored \/ ReconnectRefused \/ DisconnectRefused
         \/ DisconnectIgnored \/ CloseIgnored \/ StopRefused \/ StopIgnored \/ RunRefused
         \/ RunIgnored \/ ControlRefused \/ HomeRefused \/ SetCommandRefused
  PROVE  QuietCall
<1>1. PICK label \in {"connect", "confirmed", "reconnect", "disconnect", "close", "stop", "run", "control",
                      "home", "start_homing", "set_command"} : \E code : Answer(label, code)
  <2>1. HomeRefused => \E code : Answer("home", code) \/ Answer("start_homing", code)
    <3> SUFFICES ASSUME HomeRefused PROVE \E code : Answer("home", code) \/ Answer("start_homing", code)
      OBVIOUS
    <3>1. CASE user.pc = "home"
      BY <3>1, Zenon DEF HomeRefused
    <3>2. CASE user.pc = "start_homing"
      BY <3>2, Zenon DEF HomeRefused
    <3> QED
      BY <3>1, <3>2 DEF HomeRefused, Homing, At
  <2> QED
    BY <2>1, Zenon DEF ConnectRefused, ConnectIgnored, ReconnectRefused, DisconnectRefused, DisconnectIgnored,
         CloseIgnored, StopRefused, StopIgnored, RunRefused, RunIgnored, ControlRefused,
         SetCommandRefused
<1>2. /\ user.pc = label
      /\ \E code : Return(code)
      /\ UNCHANGED <<hand, comms, rt, env, seen>>
  BY <1>1, Zenon DEF Answer, At
<1> QED
  BY <1>1, <1>2, ReturnMoves DEF QuietCall, Opening

(* Of the steps that move on, the ones that disturb nothing. *)
LEMMA GotoIsQuiet ==
  ASSUME TypeInv, NEW label, Goto(label),
         label \notin {"join", "confirm run", "running", "connect", "first frame", "leave"} \cup Opening,
         user.pc \notin {"first frame", "connected", "leave", "join"},
         hand'.requested = hand.requested, hand'.observed = hand.observed, hand'.cause = hand.cause,
         rt' = rt, seen'.late = seen.late
  PROVE  QuietCall
  BY GotoMoves DEF QuietCall, Opening

(* A call that returns from anywhere but a join. *)
LEMMA ReturnIsQuiet ==
  ASSUME TypeInv, \E code : Return(code),
         user.pc \notin {"first frame", "connected", "leave", "join"},
         hand'.requested = hand.requested, hand'.observed = hand.observed, hand'.cause = hand.cause,
         rt' = rt, seen'.late = seen.late
  PROVE  QuietCall
  BY ReturnMoves DEF QuietCall, Opening

(* reconnect() is let through in Faulted alone. *)
LEMMA OnlyFaultedReconnects ==
  ASSUME TypeInv, CheckAllowed("Reconnect") = "None" PROVE hand.observed = "Faulted"
<1>1. hand.destroyed \in BOOLEAN /\ hand.requested # "Faulted" /\ AllowedStates["Reconnect"] = {"Faulted"}
  BY DEF TypeInv, TypeOK, HandType, AllowedStates
<1> QED
  BY <1>1 DEF CheckAllowed, CheckActionAllowed

(* The table refuses everything to a hand that is destroyed. *)
LEMMA DestroyedIsRefused ==
  ASSUME TypeInv, NEW action \in HandAction, CheckAllowed(action) = "None" PROVE ~hand.destroyed
  BY DEF CheckAllowed, CheckActionAllowed

(* It lets connect() through only where no more than a connection is asked  *)
(* for.                                                                     *)
LEMMA ConnectAllowed ==
  ASSUME TypeInv, CheckAllowed("Connect") = "None"
  PROVE  ~hand.destroyed /\ hand.requested \in {"Disconnected", "Connected"}
<1>1. hand.destroyed \in BOOLEAN /\ AllowedStates["Connect"] = {"Disconnected", "Connected"}
  BY DEF TypeInv, TypeOK, HandType, AllowedStates
<1>2. FaultedCode(hand.cause) # "None"
  BY DEF FaultedCode
<1> QED
  BY <1>1, <1>2 DEF CheckAllowed, CheckActionAllowed

(* The quiet steps of the calls that open and close the link. *)
LEMMA LinkCallsAreQuiet ==
  ASSUME TypeInv, Requests,
         \/ Call \/ ConnectChecked \/ ConnectAsked \/ ConnectAgain \/ Terminates
         \/ FirstFrameSeen \/ FirstFrameMissed \/ ReconnectStart \/ DisconnectReset \/ Close
  PROVE  QuietCall
<1>7. CASE ConnectChecked
  <2>1. /\ user.pc = "connect" /\ ~hand.destroyed /\ hand.requested \in {"Disconnected", "Connected"}
        /\ UNCHANGED <<hand, comms, rt, env, seen>>
    BY <1>7, ConnectAllowed DEF ConnectChecked, At
  <2>2. user'.pc = "asked" /\ user'.call = user.call /\ user'.saved = user.saved
    BY <1>7, GotoMoves DEF ConnectChecked
  <2> QED
    BY <2>1, <2>2 DEF QuietCall, Opening
<1>8. CASE ConnectAsked \/ ConnectAgain \/ Terminates
  <2>1. PICK label \in {"confirmed", "open", "terminated"} : Goto(label)
    BY <1>8 DEF ConnectAsked, ConnectAgain, Terminates
  <2>2. user.pc \in Opening /\ UNCHANGED <<hand, comms, rt, env, seen>>
    BY <1>8 DEF ConnectAsked, ConnectAgain, Terminates, At, Opening
  <2>3. user'.pc = label /\ user'.call = user.call /\ user'.saved = user.saved
    BY <2>1, GotoMoves
  <2> QED
    BY <2>1, <2>2, <2>3 DEF QuietCall, Requests, Opening
<1>1. CASE Call
  <2>1. PICK c \in Calls : user' = [user EXCEPT !.pc = c, !.call = c, !.goal = c, !.ret = "None", !.made = @ + 1]
    BY <1>1 DEF Call
  <2>2. c \in Procedures /\ user'.pc = c /\ user'.goal = c
    BY <2>1, HandCoreAssumption DEF HandCoreAssumption, TypeInv, TypeOK, UserType
  <2>3. user'.call = c
    BY <2>1 DEF TypeInv, TypeOK, UserType
  <2> QED
    BY <1>1, <2>2, <2>3 DEF Call, At, QuietCall, Opening, Procedures
<1>2. CASE FirstFrameSeen
  <2>1. user'.pc = "connected" /\ UNCHANGED <<hand, comms, rt, env, seen>>
    BY <1>2, GotoMoves DEF FirstFrameSeen
  <2> QED
    BY <1>2, <2>1 DEF FirstFrameSeen, At, QuietCall, Opening
<1>3. CASE FirstFrameMissed
  <2>1. user'.pc = "leave" /\ user'.goal = "connect" /\ user'.call = user.call /\ user'.saved = user.saved
    BY <1>3 DEF FirstFrameMissed, TypeInv, TypeOK, UserType
  <2> QED
    BY <1>3, <2>1 DEF FirstFrameMissed, At, QuietCall, Opening
<1>4. CASE ReconnectStart
  <2>1. user.goal = "reconnect"
    BY <1>4 DEF ReconnectStart, At, TypeInv, Labels, UserFits
  <2>2. /\ user'.pc = "leave" /\ user'.goal = "reconnect" /\ hand.observed = "Faulted"
        /\ UNCHANGED <<hand, comms, rt, env, seen>>
    BY <1>4, <2>1, GotoMoves, OnlyFaultedReconnects DEF ReconnectStart
  <2> QED
    BY <1>4, <2>2 DEF ReconnectStart, At, QuietCall, Opening
<1>5. CASE DisconnectReset
  BY <1>5, GotoIsQuiet, StageLeaves DEF DisconnectReset, At, TypeInv, TypeOK, Opening
<1>6. CASE Close
  BY <1>6, GotoIsQuiet DEF Close, At, TypeInv, TypeOK, HandType, Opening
<1> QED
  BY <1>1, <1>2, <1>3, <1>4, <1>5, <1>6, <1>7, <1>8

(* A stop that was confirmed, or was not. *)
LEMMA StopIsQuiet ==
  ASSUME TypeInv, StopReset \/ StopConfirmed \/ StopNotConfirmed PROVE QuietCall
<1>1. CASE StopReset
  BY <1>1, GotoIsQuiet, StageLeaves DEF StopReset, At, TypeInv, TypeOK, Opening
<1>2. CASE StopConfirmed \/ StopNotConfirmed
  <2>1. user.pc = "confirm stop" /\ UNCHANGED <<hand, comms, rt, env, seen>>
    BY <1>2 DEF StopConfirmed, StopNotConfirmed, At
  <2>2. user.call \in {"stop", "disconnect", "close"} /\ user.goal = user.call
    BY <2>1 DEF TypeInv, Labels, UserFits
  <2>3. (\E code : Return(code)) \/ Goto("leave")
    BY <1>2, <2>2, Zenon DEF StopConfirmed, StopNotConfirmed
  <2>4. CASE Goto("leave")
    <3>1. user'.pc = "leave" /\ user'.goal = user.goal /\ user'.call = user.call
      BY <2>4, GotoMoves
    <3> QED
      BY <2>1, <2>2, <3>1 DEF QuietCall, Opening
  <2>5. CASE \E code : Return(code)
    BY <2>1, <2>5, ReturnIsQuiet
  <2> QED
    BY <2>3, <2>4, <2>5
<1> QED
  BY <1>1, <1>2

(* The quiet steps of run(). *)
LEMMA RunIsQuiet ==
  ASSUME TypeInv,
         \/ Run \/ ControlHeld \/ ControlFromStopped \/ RequestHold \/ ControlElsewhere
         \/ RunConfirmed \/ RunFails
  PROVE  QuietCall
<1>1. CASE Run
  <2>1. user'.pc \in {"home", "control"}
    BY <1>1 DEF Run, TypeInv, TypeOK, UserType
  <2> QED
    BY <1>1, <2>1 DEF Run, At, QuietCall, Opening
<1>2. CASE ControlHeld
  <2>1. /\ user'.pc \in {"confirm run", "request homing"} /\ hand.requested = "Running"
        /\ UNCHANGED <<hand, comms, rt, env, seen>>
    BY <1>2, GotoMoves DEF ControlHeld, BothRunning, AfterControl
  <2> QED
    BY <1>2, <2>1 DEF ControlHeld, At, QuietCall, Opening
<1>3. CASE ControlFromStopped
  BY <1>3, GotoIsQuiet, StageLeaves DEF ControlFromStopped, At, TypeInv, TypeOK, Opening
<1>4. CASE RequestHold
  BY <1>4, GotoIsQuiet DEF RequestHold, At, TypeInv, TypeOK, HandType, Opening
<1>5. CASE ControlElsewhere
  BY <1>5, GotoIsQuiet DEF ControlElsewhere, At, Opening
<1>6. CASE RunConfirmed
  <2>1. user'.pc = "running" /\ UNCHANGED <<hand, comms, rt, env, seen>>
    BY <1>6, GotoMoves DEF RunConfirmed
  <2> QED
    BY <1>6, <2>1 DEF RunConfirmed, At, QuietCall, Opening
<1>7. CASE RunFails
  <2>1. \E code : Return(code)
    BY <1>7, Zenon DEF RunFails
  <2> QED
    BY <1>7, <2>1, ReturnIsQuiet, StageLeaves DEF RunFails, At, TypeInv, TypeOK
<1> QED
  BY <1>1, <1>2, <1>3, <1>4, <1>5, <1>6, <1>7

(* The steps of homing calls and of set_command(). *)
LEMMA HomeIsQuiet ==
  ASSUME TypeInv, StartHoming \/ RequestHoming \/ HomeReturns \/ SetCommand \/ StageCommand
  PROVE  QuietCall
<1>1. CASE StartHoming
  <2> DEFINE begun == [hand EXCEPT !.homing = "InProgress"]
  <2>1. /\ begun \in HandType /\ begun.requested = hand.requested
        /\ begun.observed = hand.observed /\ begun.cause = hand.cause
    BY DEF TypeInv, TypeOK, HandType, HomingStates
  <2>2. hand' = Stage(begun, "Idle")
    BY <1>1 DEF StartHoming
  <2>3. hand'.requested = hand.requested /\ hand'.observed = hand.observed /\ hand'.cause = hand.cause
    <3> HIDE DEF begun
    <3> QED
      BY <2>1, <2>2, StageLeaves
  <2> QED
    BY <1>1, <2>3, GotoIsQuiet DEF StartHoming, Homing, At, Opening
<1>2. CASE RequestHoming
  <2>1. /\ hand'.requested = hand.requested /\ hand'.observed = hand.observed
        /\ hand'.cause = hand.cause /\ seen'.late = seen.late
    BY <1>2 DEF RequestHoming, TypeInv, TypeOK, HandType, SeenType
  <2>2. (\E code : Return(code)) \/ Goto("homing")
    BY <1>2, Zenon DEF RequestHoming
  <2> QED
    BY <1>2, <2>1, <2>2, GotoIsQuiet, ReturnIsQuiet DEF RequestHoming, At, Opening
<1>3. CASE HomeReturns
  <2>1. \E code : Return(code)
    BY <1>3, Zenon DEF HomeReturns
  <2> QED
    BY <1>3, <2>1, ReturnIsQuiet DEF HomeReturns, At
<1>4. CASE SetCommand
  BY <1>4, GotoIsQuiet DEF SetCommand, At, Opening
<1>5. CASE StageCommand
  <2>1. \E code : Return(code)
    BY <1>5, Zenon DEF StageCommand
  <2> QED
    BY <1>5, <2>1, ReturnIsQuiet, StageLeaves DEF StageCommand, At, TypeInv, TypeOK, SeenType
<1> QED
  BY <1>1, <1>2, <1>3, <1>4, <1>5

(* Every step of a call is quiet, or one of the twelve that are not. *)
LEMMA CallsMostlyQuiet ==
  ASSUME TypeInv, Requests, Call \/ InCall
  PROVE  \/ QuietCall
         \/ SocketIsOpen \/ ConnectOpen \/ ConnectOpenFails \/ ConnectThreadFails \/ ConnectSucceeds
         \/ Leave \/ Join \/ Quiesce \/ Stop \/ RequestRun \/ RunSucceeds \/ RunNotConfirmed
  BY AnswersAreQuiet, LinkCallsAreQuiet, StopIsQuiet, RunIsQuiet, HomeIsQuiet
  DEF InCall, ConnectStep, LeaveStep, StopStep, RunStep, HomeStep, CommandStep

(* Of the steps of the loop, the ones that disturb nothing. *)
LEMMA CyclesAreQuiet ==
  ASSUME TypeInv,
         \/ TakeCommand \/ TakeHomingRequest \/ BeginHoming \/ TakeHoldRequest \/ StageHold
         \/ HomingResult \/ HomingOver \/ HomingState \/ StageOrigin
  PROVE  QuietCycle
<1> USE DEF TypeInv, TypeOK, HandType, LoopType, InCycle, QuietCycle, Recovering
<1>1. CASE TakeCommand
  BY <1>1 DEF TakeCommand
<1>2. CASE TakeHomingRequest
  BY <1>2 DEF TakeHomingRequest
<1>3. CASE BeginHoming
  BY <1>3 DEF BeginHoming
<1>4. CASE TakeHoldRequest
  BY <1>4 DEF TakeHoldRequest
<1>5. CASE StageHold
  BY <1>5, StageLeaves DEF StageHold
<1>6. CASE HomingResult
  BY <1>6 DEF HomingResult
<1>7. CASE HomingOver
  BY <1>7 DEF HomingOver
<1>8. CASE HomingState
  BY <1>8 DEF HomingState
<1>9. CASE StageOrigin
  BY <1>9, StageLeaves DEF StageOrigin
<1> QED
  BY <1>1, <1>2, <1>3, <1>4, <1>5, <1>6, <1>7, <1>8, <1>9

(* The quiet steps of the failure handler and of the recovery. *)
LEMMA RecoveryIsQuiet ==
  ASSUME TypeInv,
         LastQuickStops \/ Reopen \/ ReopenFails \/ GiveUp \/ AwaitFrame \/ ForgetCommand
  PROVE  QuietCycle
<1> USE DEF TypeInv, TypeOK, HandType, LoopType, SeenType, InCycle, QuietCycle, Recovering
<1>1. CASE LastQuickStops
  BY <1>1 DEF LastQuickStops
<1>2. CASE Reopen
  BY <1>2 DEF Reopen
<1>3. CASE ReopenFails \/ GiveUp
  BY <1>3 DEF ReopenFails, GiveUp
<1>4. CASE AwaitFrame
  BY <1>4 DEF AwaitFrame
<1>5. CASE ForgetCommand
  <2>1. /\ hand'.requested = hand.requested /\ hand'.observed = hand.observed
        /\ hand'.cause = hand.cause /\ hand'.destroyed = hand.destroyed
    BY <1>5 DEF ForgetCommand, Stage
  <2> QED
    BY <1>5, <2>1 DEF ForgetCommand
<1> QED
  BY <1>1, <1>2, <1>3, <1>4, <1>5

(* Every step of the loop is quiet, or one of these. *)
LEMMA CyclesMostlyQuiet ==
  ASSUME TypeInv, ControlLoop
  PROVE  \/ QuietCycle
         \/ LoopTop \/ Observation \/ SilenceFault \/ ReadLatest \/ Send \/ WriteFault \/ JudgeLink
         \/ JudgeDrives \/ StoreVerdict \/ LoopThrows \/ LoopFails
         \/ ForgetFault \/ Resume \/ Recovered
  BY CyclesAreQuiet, RecoveryIsQuiet DEF ControlLoop, CycleStep, FailureStep, RecoveryStep

-----------------------------------------------------------------------------
(* What the other steps change *)

(* connect() that opens the link, *)
LEMMA ConnectOpenDoes ==
  ASSUME TypeInv, ConnectOpen
  PROVE  /\ At("open") /\ rt.pc = "none"
         /\ hand'.requested = "Connected" /\ hand'.observed = hand.observed /\ hand'.cause = hand.cause
         /\ rt'.pc = "top" /\ rt'.store = "None" /\ seen'.late = seen.late
         /\ user'.pc = "first frame" /\ user'.call = user.call /\ user'.saved = user.saved
<1>1. user'.pc = "first frame" /\ user'.call = user.call /\ user'.saved = user.saved
  BY GotoMoves DEF ConnectOpen
<1>2. hand'.requested = "Connected" /\ hand'.observed = hand.observed /\ hand'.cause = hand.cause
  BY DEF ConnectOpen, Request, NewLink, TypeInv, TypeOK, HandType
<1>3. seen'.late = seen.late
  BY DEF ConnectOpen, TypeInv, TypeOK, SeenType
<1>4. rt'.pc = "top" /\ rt'.store = "None"
  BY DEF ConnectOpen, FreshLoop
<1> QED
  BY <1>1, <1>2, <1>3, <1>4 DEF ConnectOpen

(* A connect() that fails ends; inside reconnect() it puts the fault back. *)
LEMMA ConnectFailsDoes ==
  ASSUME TypeInv, NEW h \in HandType, NEW code, ConnectFails(h, code)
  PROVE  /\ hand'.requested = h.requested
         /\ \/ hand'.observed = h.observed /\ hand'.cause = h.cause
            \/ user.call = "reconnect" /\ hand'.observed = "Faulted" /\ hand'.cause = user.saved
         /\ user'.pc = "idle" /\ user'.call = "none"
<1>1. user'.pc = "idle" /\ user'.call = "none"
  BY ReturnMoves DEF ConnectFails
<1> QED
  BY <1>1 DEF ConnectFails, HandType

(* So does a connect() that opened nothing, or could not start its loop. *)
LEMMA FailedConnectDoes ==
  ASSUME TypeInv, SocketIsOpen \/ ConnectOpenFails \/ ConnectThreadFails
  PROVE  /\ At("open")
         /\ \/ hand'.requested = hand.requested
            \/ hand'.requested = "Disconnected" /\ rt.pc = "none"
         /\ \/ hand'.observed \in {hand.observed, "Disconnected"} /\ hand'.cause = hand.cause
            \/ user.call = "reconnect" /\ hand'.observed = "Faulted" /\ hand'.cause = user.saved
         /\ user'.pc = "idle" /\ user'.call = "none"
         /\ rt' = rt /\ seen'.late = seen.late
<1>1. CASE SocketIsOpen \/ ConnectOpenFails
  <2>1. (\E code : ConnectFails(hand, code)) /\ hand \in HandType
    BY <1>1 DEF SocketIsOpen, ConnectOpenFails, TypeInv, TypeOK
  <2> QED
    BY <1>1, <2>1, ConnectFailsDoes DEF SocketIsOpen, ConnectOpenFails
<1>2. CASE ConnectThreadFails
  <2> DEFINE link == NewLink(hand)
             left == Request(link, "Disconnected")
             none == Observe(left, "Disconnected")
  <2>1. link \in HandType /\ link.cause = hand.cause
    BY NewLinkTyped DEF NewLink, TypeInv, TypeOK, HandType
  <2> HIDE DEF link
  <2>2. left \in HandType /\ left.cause = hand.cause /\ left.requested = "Disconnected"
    BY <2>1 DEF Request, HandType, Lifecycle
  <2> HIDE DEF left
  <2>3. /\ none \in HandType /\ none.cause = hand.cause
        /\ none.requested = "Disconnected" /\ none.observed = "Disconnected"
    BY <2>2 DEF Observe, HandType, Lifecycle
  <2>4. ConnectFails(none, "ControlLoopFault")
    BY <1>2 DEF ConnectThreadFails, none, left, link
  <2> HIDE DEF none
  <2>5. seen'.late = seen.late
    BY <1>2 DEF ConnectThreadFails, TypeInv, TypeOK, SeenType
  <2> QED
    BY <1>2, <2>3, <2>4, <2>5, ConnectFailsDoes DEF ConnectThreadFails
<1> QED
  BY <1>1, <1>2

(* stop_control_loop() asks the loop to end. *)
LEMMA LeaveDoes ==
  ASSUME TypeInv, Leave
  PROVE  /\ user.pc = "leave" /\ user'.pc = "join" /\ user'.call = user.call
         /\ user'.goal = user.goal /\ user'.saved = user.saved
         /\ hand'.requested = "Disconnected" /\ hand'.observed = hand.observed
         /\ hand'.cause = hand.cause /\ rt' = rt /\ seen' = seen
<1>1. /\ user'.pc = "join" /\ user'.call = user.call /\ user'.goal = user.goal
      /\ user'.saved = user.saved
  BY GotoMoves DEF Leave
<1> QED
  BY <1>1 DEF Leave, At, Request, TypeInv, TypeOK, HandType

(* A joined loop is gone; reconnect() goes on to connect() with the cause   *)
(* saved, and everyone else returns.                                        *)
LEMMA JoinDoes ==
  ASSUME TypeInv, Join
  PROVE  /\ user.pc = "join" /\ rt'.pc = "none" /\ rt'.store = "None" /\ seen' = seen
         /\ hand'.requested = hand.requested
         /\ \/ /\ user.goal = "reconnect" /\ user'.pc = "connect" /\ user'.saved = hand.cause
               /\ hand'.observed = "Disconnected"
            \/ /\ user'.pc = "idle" /\ user'.call = "none"
               /\ \/ hand'.observed = "Disconnected"
                  \/ /\ user.goal = "connect" /\ user.call = "reconnect"
                     /\ hand'.observed = "Faulted" /\ hand'.cause = user.saved
<1> DEFINE left == Observe(hand, "Disconnected")
<1>1. left \in HandType /\ left.requested = hand.requested /\ left.observed = "Disconnected"
  BY DEF Observe, TypeInv, TypeOK, HandType, Lifecycle
<1>2. user.pc = "join" /\ rt'.pc = "none" /\ rt'.store = "None" /\ seen' = seen
  BY DEF Join, At, FreshLoop
<1>3. CASE user.goal = "connect"
  <2>1. ConnectFails(left, "CommunicationLost")
    BY <1>3 DEF Join
  <2> HIDE DEF left
  <2> QED
    BY <1>1, <1>2, <1>3, <2>1, ConnectFailsDoes
<1>4. CASE user.goal = "reconnect"
  <2> DEFINE reset == ResetFaultState(left)
  <2>1. hand' = Stage(reset, "Idle") /\ user' = [user EXCEPT !.pc = "connect", !.saved = hand.cause]
    BY <1>4 DEF Join
  <2> HIDE DEF left
  <2>2. reset \in HandType /\ reset.requested = hand.requested /\ reset.observed = "Disconnected"
    BY <1>1, ResetTyped DEF ResetFaultState, HandType
  <2> HIDE DEF reset
  <2>3. hand'.requested = hand.requested /\ hand'.observed = "Disconnected"
    BY <2>1, <2>2, StageLeaves
  <2>4. user'.pc = "connect" /\ user'.saved = hand.cause
    BY <2>1 DEF TypeInv, TypeOK, UserType
  <2> QED
    BY <1>2, <1>4, <2>3, <2>4
<1>5. CASE user.goal = "disconnect"
  <2>1. hand' = [left EXCEPT !.checkFirst = FALSE, !.checkComm = FALSE] /\ Return("None")
    BY <1>5 DEF Join
  <2> HIDE DEF left
  <2>2. user'.pc = "idle" /\ user'.call = "none"
    BY <2>1, ReturnMoves
  <2> QED
    BY <1>1, <1>2, <2>1, <2>2 DEF HandType
<1>6. CASE user.goal = "close"
  <2>1. hand' = left /\ Return("None")
    BY <1>6 DEF Join
  <2> HIDE DEF left
  <2>2. user'.pc = "idle" /\ user'.call = "none"
    BY <2>1, ReturnMoves
  <2> QED
    BY <1>1, <1>2, <2>1, <2>2
<1> QED
  BY <1>2, <1>3, <1>4, <1>5, <1>6 DEF TypeInv, Labels, UserFits

(* The steps that request Stopped forget the frames sent late before. *)
LEMMA StopAsks ==
  ASSUME TypeInv, Quiesce \/ Stop \/ RunNotConfirmed
  PROVE  \/ /\ hand'.requested = "Stopped" /\ seen'.late = 0 /\ rt' = rt
            /\ hand'.observed = hand.observed /\ hand'.cause = hand.cause
            /\ user.pc \in {"quiesce", "stop", "confirm run"}
            /\ user'.pc \in {"confirm stop", "void command", "run failed"}
         \/ /\ UNCHANGED <<hand, rt, seen>>
            /\ user.pc = "quiesce" /\ user'.pc = "leave" /\ user'.goal \in {"disconnect", "close"}
<1>1. Request(hand, "Stopped").requested = "Stopped"
      /\ Request(hand, "Stopped").observed = hand.observed
      /\ Request(hand, "Stopped").cause = hand.cause
      /\ StopAsked.late = 0
  BY DEF Request, StopAsked, TypeInv, TypeOK, HandType, SeenType
<1>2. CASE Stop
  <2>1. user'.pc = "void command"
    BY <1>2, GotoMoves DEF Stop
  <2> QED
    BY <1>1, <1>2, <2>1 DEF Stop, At
<1>3. CASE RunNotConfirmed
  <2>1. user'.pc = "run failed"
    BY <1>3, GotoMoves DEF RunNotConfirmed
  <2> QED
    BY <1>1, <1>3, <2>1 DEF RunNotConfirmed, At
<1>4. CASE Quiesce
  <2>1. user.pc = "quiesce" /\ user.goal \in {"disconnect", "close"}
    BY <1>4 DEF Quiesce, At, TypeInv, Labels, UserFits
  <2>2. CASE ControlRequested /\ hand.observed # "Stopped"
    <3>1. user'.pc = "confirm stop"
      BY <1>4, <2>2, GotoMoves DEF Quiesce
    <3> QED
      BY <1>1, <1>4, <2>1, <2>2, <3>1 DEF Quiesce
  <2>3. CASE ~(ControlRequested /\ hand.observed # "Stopped")
    <3>1. user'.pc = "leave" /\ user'.goal = user.goal
      BY <1>4, <2>3, GotoMoves DEF Quiesce
    <3> QED
      BY <1>4, <2>1, <2>3, <3>1 DEF Quiesce
  <2> QED
    BY <2>2, <2>3
<1> QED
  BY <1>2, <1>3, <1>4

(* The steps that move the hand on from the user's side. *)
LEMMA SuccessDoes ==
  ASSUME TypeInv, ConnectSucceeds \/ RequestRun \/ RunSucceeds
  PROVE  /\ rt' = rt /\ seen' = seen /\ hand'.cause = hand.cause
         /\ \/ /\ user.pc = "connected" /\ user'.pc = "idle" /\ user'.call = "none"
               /\ hand'.requested = hand.requested /\ hand'.observed = "Connected"
            \/ /\ user.pc = "running" /\ user'.pc = "idle" /\ user'.call = "none"
               /\ hand'.requested = hand.requested /\ hand'.observed = "Running"
            \/ /\ user.pc = "request run" /\ user'.pc \in {"confirm run", "request homing"}
               /\ hand'.requested = "Running" /\ hand'.observed = hand.observed
<1>1. CASE ConnectSucceeds
  <2>1. user'.pc = "idle" /\ user'.call = "none"
    BY <1>1, ReturnMoves DEF ConnectSucceeds
  <2> QED
    BY <1>1, <2>1 DEF ConnectSucceeds, At, Observe, TypeInv, TypeOK, HandType
<1>2. CASE RunSucceeds
  <2>1. user'.pc = "idle" /\ user'.call = "none"
    BY <1>2, ReturnMoves DEF RunSucceeds
  <2> QED
    BY <1>2, <2>1 DEF RunSucceeds, At, Observe, TypeInv, TypeOK, HandType
<1>3. CASE RequestRun
  <2>1. user'.pc \in {"confirm run", "request homing"}
    BY <1>3, GotoMoves DEF RequestRun, AfterControl
  <2> QED
    BY <1>3, <2>1 DEF RequestRun, At, Request, TypeInv, TypeOK, HandType
<1> QED
  BY <1>1, <1>2, <1>3

(* The head of the loop decides on what it reads. *)
LEMMA LoopTopDoes ==
  ASSUME TypeInv, LoopTop
  PROVE  /\ UNCHANGED <<hand, comms, env, seen>>
         /\ user'.pc = user.pc /\ user'.call = user.call /\ user'.goal = user.goal
         /\ user'.saved = user.saved
         /\ rt.pc = "top" /\ rt'.store = rt.store /\ rt'.pc \in {"dead", "input", "reopen"}
         /\ rt'.pc = "input" => hand.observed # "Faulted"
         /\ rt'.pc = "reopen" => AutoReconnect
<1>1. /\ user'.pc = user.pc /\ user'.call = user.call /\ user'.goal = user.goal
      /\ user'.saved = user.saved
  BY DEF LoopTop, CycleBegins, TypeInv, TypeOK, UserType
<1> QED
  BY <1>1 DEF LoopTop, InCycle, TypeInv, TypeOK, LoopType

(* Between two heads: what each step that is not quiet does to the view of *)
(* hand that the other thread has, and where it goes.                      *)
LEMMA LinkDoes ==
  ASSUME TypeInv, Observation \/ SilenceFault \/ WriteFault \/ LoopThrows \/ LoopFails
  PROVE  /\ user' = user /\ seen' = seen /\ rt'.store = rt.store
         /\ hand'.requested = hand.requested /\ hand'.destroyed = hand.destroyed
         /\ \/ /\ rt.pc = "observe" /\ hand'.observed = hand.observed
               /\ \/ rt'.pc = "hold" /\ hand'.cause = hand.cause
                  \/ rt'.pc = "silence" /\ hand'.cause = "ReceiveSilence"
            \/ /\ rt.pc \in Throwing /\ rt'.pc = "failed" /\ hand'.observed = hand.observed
               /\ hand'.cause = "ControlLoopFailure"
            \/ /\ rt.pc \in {"silence", "write fault", "failed"} /\ hand'.observed = "Faulted"
               /\ hand'.cause = hand.cause /\ rt'.obs = "Faulted"
               /\ rt'.pc \in {"hold", "link", "last words"}
<1> USE DEF TypeInv, TypeOK, HandType, LoopType, InCycle
<1>1. CASE Observation
  BY <1>1 DEF Observation
<1>2. CASE SilenceFault
  BY <1>2 DEF SilenceFault, Observe
<1>3. CASE WriteFault
  BY <1>3 DEF WriteFault, Observe
<1>4. CASE LoopThrows
  BY <1>4 DEF LoopThrows
<1>5. CASE LoopFails
  BY <1>5 DEF LoopFails, Observe
<1> QED
  BY <1>1, <1>2, <1>3, <1>4, <1>5

(* A frame goes out; it is late only if the cycle read Running before the   *)
(* stop.                                                                    *)
LEMMA SendDoes ==
  ASSUME TypeInv, Send
  PROVE  /\ user' = user /\ hand'.requested = hand.requested /\ hand'.observed = hand.observed
         /\ hand'.destroyed = hand.destroyed /\ rt.pc = "send" /\ rt'.store = rt.store
         /\ \/ rt'.pc = "link" /\ hand'.cause = hand.cause
            \/ /\ rt'.pc = "write fault" /\ hand'.cause = "TransmitFailure"
               /\ rt.obs # "Faulted"
         /\ \/ seen'.late = seen.late
            \/ rt.latest = "Running" /\ hand.requested = "Stopped" /\ seen'.late = seen.late + 1
<1>1. \/ seen'.late = seen.late
      \/ rt.latest = "Running" /\ hand.requested = "Stopped" /\ seen'.late = seen.late + 1
  BY DEF Send, QuickStop, TypeInv, TypeOK, SeenType
<1> QED
  BY <1>1 DEF Send, InCycle, TypeInv, TypeOK, HandType, LoopType

(* The request is read again, and the link and the drives are judged. *)
LEMMA VerdictDoes ==
  ASSUME TypeInv, ReadLatest \/ JudgeLink \/ JudgeDrives \/ StoreVerdict
  PROVE  /\ user' = user /\ seen' = seen
         /\ hand'.requested = hand.requested /\ hand'.cause = hand.cause
         /\ hand'.destroyed = hand.destroyed
         /\ \/ /\ rt.pc = "latest" /\ rt'.pc = "send" /\ hand' = hand
               /\ rt'.latest = hand.requested /\ rt'.obs = rt.obs /\ rt'.store = rt.store
            \/ /\ rt.pc = "link" /\ rt'.pc = "drives" /\ hand'.observed = hand.observed
               /\ rt'.store = "None"
            \/ /\ rt.pc = "drives" /\ rt'.pc \in {"homed", "verdict"} /\ hand' = hand
               /\ hand.requested = "Connected" => rt'.store \in {"None", "Connected"}
            \/ /\ rt.pc = "verdict" /\ rt'.pc = "homed" /\ rt'.store = "None"
               /\ hand'.observed = rt.store /\ rt.store # "Faulted" /\ rt.store # "None"
<1> USE DEF TypeInv, TypeOK, HandType, LoopType, InCycle
<1>1. CASE ReadLatest
  BY <1>1 DEF ReadLatest
<1>2. CASE JudgeLink
  BY <1>2 DEF JudgeLink, FreshLoop
<1>3. CASE JudgeDrives
  <2>1. hand.requested = "Connected" => DriveVerdict \in {"None", "Connected"}
    BY DEF DriveVerdict
  <2>2. /\ rt'.store = DriveVerdict /\ rt'.pc \in {"homed", "verdict"} /\ rt.pc = "drives"
        /\ UNCHANGED <<hand, comms, user, env, seen>>
    BY <1>3 DEF JudgeDrives
  <2> QED
    BY <2>1, <2>2
<1>4. CASE StoreVerdict
  BY <1>4 DEF StoreVerdict, Observe, Labels, LoopFits
<1> QED
  BY <1>1, <1>2, <1>3, <1>4

(* The steps with which the loop recovers from a fault on its own. *)
LEMMA RecoveryDoes ==
  ASSUME TypeInv, ForgetFault \/ Resume \/ Recovered
  PROVE  /\ user' = user /\ seen' = seen /\ rt'.store = rt.store
         /\ rt.pc \in {"forget fault", "resume", "recovered"}
         /\ rt'.pc \in {"forget command", "recovered", "top"}
         /\ hand'.requested \in {hand.requested, "Running"} /\ hand'.destroyed = hand.destroyed
         /\ hand'.observed \in {hand.observed, "Connected"}
<1> USE DEF TypeInv, TypeOK, HandType, LoopType, InCycle
<1>1. CASE ForgetFault
  BY <1>1 DEF ForgetFault, ResetFaultState
<1>2. CASE Resume
  BY <1>2 DEF Resume, Request
<1>3. CASE Recovered
  BY <1>3 DEF Recovered, Observe
<1> QED
  BY <1>1, <1>2, <1>3

-----------------------------------------------------------------------------
(* What was requested, and what was checked *)

(* The steps of the calls keep Requests. *)
LEMMA RequestsInCall == ASSUME TypeInv, Requests, Call \/ InCall PROVE Requests'
<1>1. CASE QuietCall
  BY <1>1 DEF QuietCall, Requests, Opening
<1>2. CASE ConnectOpen
  BY <1>2, ConnectOpenDoes DEF Requests, Opening
<1>3. CASE SocketIsOpen \/ ConnectOpenFails \/ ConnectThreadFails
  BY <1>3, FailedConnectDoes DEF Requests, Opening, At
<1>4. CASE Leave
  BY <1>4, LeaveDoes DEF Requests, Opening
<1>5. CASE Join
  BY <1>5, JoinDoes DEF Requests, Opening
<1>6. CASE Quiesce \/ Stop \/ RunNotConfirmed
  BY <1>6, StopAsks DEF Requests, Opening
<1>7. CASE ConnectSucceeds \/ RequestRun \/ RunSucceeds
  BY <1>7, SuccessDoes DEF Requests, Opening
<1> QED
  BY <1>1, <1>2, <1>3, <1>4, <1>5, <1>6, <1>7, CallsMostlyQuiet

(* The loop requests nothing but Running, and ends only where it is joined. *)
LEMMA RequestsInLoop == ASSUME TypeInv, Requests, ControlLoop PROVE Requests'
<1>1. CASE QuietCycle
  BY <1>1 DEF QuietCycle, Requests, Opening
<1>2. CASE LoopTop
  BY <1>2, LoopTopDoes DEF Requests, Opening
<1>3. CASE Observation \/ SilenceFault \/ WriteFault \/ LoopThrows \/ LoopFails
  BY <1>3, LinkDoes DEF Requests, Opening, Throwing, Recovering
<1>4. CASE Send
  BY <1>4, SendDoes DEF Requests, Opening
<1>5. CASE ReadLatest \/ JudgeLink \/ JudgeDrives \/ StoreVerdict
  BY <1>5, VerdictDoes DEF Requests, Opening
<1>6. CASE ForgetFault \/ Resume \/ Recovered
  BY <1>6, RecoveryDoes DEF Requests, Opening
<1> QED
  BY <1>1, <1>2, <1>3, <1>4, <1>5, <1>6, CyclesMostlyQuiet

(* So Requests always holds. *)
LEMMA Requested == Spec => []Requests
<1>1. Init => Requests
  BY DEF Init, Fresh, FreshLoop, Requests
<1>2. TypeInv /\ Requests /\ [Next]_vars => Requests'
  <2> SUFFICES ASSUME TypeInv, Requests, [Next]_vars PROVE Requests'
    OBVIOUS
  <2>1. CASE LinkDown \/ LinkUp \/ UNCHANGED vars
    BY <2>1 DEF LinkDown, LinkUp, vars, Requests
  <2> QED
    BY <2>1, RequestsInCall, RequestsInLoop DEF Next
<1> QED
  BY <1>1, <1>2, Typed, PTL DEF Spec

-----------------------------------------------------------------------------
(* A fault the loop has stored is on the wire *)

(* Every step keeps FaultsSeen. *)
LEMMA FaultsSeenKept == ASSUME TypeInv, Requests, FaultsSeen, [Next]_vars PROVE FaultsSeen'
<1>1. CASE QuietCall
  BY <1>1 DEF QuietCall, FaultsSeen
<1>2. CASE ConnectOpen
  BY <1>2, ConnectOpenDoes DEF FaultsSeen
<1>3. CASE SocketIsOpen \/ ConnectOpenFails \/ ConnectThreadFails
  BY <1>3, FailedConnectDoes DEF Requests, Opening, FaultsSeen, At
<1>4. CASE Leave
  BY <1>4, LeaveDoes DEF FaultsSeen
<1>5. CASE Join
  BY <1>5, JoinDoes DEF FaultsSeen
<1>6. CASE Quiesce \/ Stop \/ RunNotConfirmed
  BY <1>6, StopAsks DEF FaultsSeen
<1>7. CASE ConnectSucceeds \/ RequestRun \/ RunSucceeds
  BY <1>7, SuccessDoes DEF FaultsSeen
<1>8. CASE QuietCycle
  BY <1>8 DEF QuietCycle, Recovering, FaultsSeen
<1>9. CASE LoopTop
  BY <1>9, LoopTopDoes DEF FaultsSeen
<1>10. CASE Observation \/ SilenceFault \/ WriteFault \/ LoopThrows \/ LoopFails
  BY <1>10, LinkDoes DEF Throwing, Recovering, FaultsSeen
<1>11. CASE Send
  BY <1>11, SendDoes DEF FaultsSeen
<1>12. CASE ReadLatest \/ JudgeLink \/ JudgeDrives \/ StoreVerdict
  BY <1>12, VerdictDoes DEF FaultsSeen
<1>13. CASE ForgetFault \/ Resume \/ Recovered
  BY <1>13, RecoveryDoes DEF FaultsSeen
<1>14. CASE LinkDown \/ LinkUp \/ UNCHANGED vars
  BY <1>14 DEF LinkDown, LinkUp, vars, FaultsSeen
<1> QED
  BY <1>1, <1>2, <1>3, <1>4, <1>5, <1>6, <1>7, <1>8, <1>9, <1>10, <1>11, <1>12, <1>13, <1>14,
     CallsMostlyQuiet, CyclesMostlyQuiet DEF Next

(* No frame but a quick stop goes out under an observed Faulted: the fault  *)
(* is the loop's own store, and it goes on with the value it stored.        *)
THEOREM FaultIsQuickStopped == Spec => []FaultQuickStops
<1>1. Init => FaultsSeen
  BY DEF Init, Fresh, FreshLoop, FaultsSeen
<1>2. TypeInv /\ Requests /\ FaultsSeen /\ [Next]_vars => FaultsSeen'
  BY FaultsSeenKept
<1>3. FaultsSeen => FaultQuickStops
  BY DEF FaultsSeen, FaultQuickStops, InCycle, FrameKind, QuickStop
<1> QED
  BY <1>1, <1>2, <1>3, Typed, Requested, PTL DEF Spec

-----------------------------------------------------------------------------
(* A requested stop reaches the wire *)

(* Every step keeps OneLate. *)
LEMMA OneLateKept == ASSUME TypeInv, Requests, OneLate, [Next]_vars PROVE OneLate'
<1>0. seen.late \in 0..2
  BY DEF TypeInv, TypeOK, SeenType
<1>1. CASE QuietCall
  BY <1>0, <1>1 DEF QuietCall, OneLate
<1>2. CASE ConnectOpen
  BY <1>0, <1>2, ConnectOpenDoes DEF OneLate
<1>3. CASE SocketIsOpen \/ ConnectOpenFails \/ ConnectThreadFails
  BY <1>0, <1>3, FailedConnectDoes DEF OneLate
<1>4. CASE Leave
  BY <1>0, <1>4, LeaveDoes DEF OneLate
<1>5. CASE Join
  BY <1>0, <1>5, JoinDoes DEF OneLate
<1>6. CASE Quiesce \/ Stop \/ RunNotConfirmed
  <2>1. seen'.late = 0 \/ UNCHANGED <<hand, rt, seen>>
    BY <1>6, StopAsks
  <2>2. CASE seen'.late = 0
    BY <2>2 DEF OneLate
  <2>3. CASE UNCHANGED <<hand, rt, seen>>
    BY <2>3 DEF OneLate
  <2> QED
    BY <2>1, <2>2, <2>3
<1>7. CASE ConnectSucceeds \/ RequestRun \/ RunSucceeds
  BY <1>0, <1>7, SuccessDoes DEF OneLate
<1>8. CASE QuietCycle
  BY <1>0, <1>8 DEF QuietCycle, Recovering, OneLate
<1>9. CASE LoopTop
  BY <1>0, <1>9, LoopTopDoes DEF OneLate
<1>10. CASE Observation \/ SilenceFault \/ WriteFault \/ LoopThrows \/ LoopFails
  BY <1>0, <1>10, LinkDoes DEF Throwing, Recovering, OneLate
<1>11. CASE Send
  <2>1. /\ rt.pc = "send" /\ rt'.pc # "send"
        /\ \/ seen'.late = seen.late
           \/ rt.latest = "Running" /\ hand.requested = "Stopped" /\ seen'.late = seen.late + 1
    BY <1>11, SendDoes
  <2> QED
    BY <1>0, <2>1 DEF OneLate
<1>12. CASE ReadLatest \/ JudgeLink \/ JudgeDrives \/ StoreVerdict
  BY <1>0, <1>12, VerdictDoes DEF OneLate
<1>13. CASE ForgetFault \/ Resume \/ Recovered
  BY <1>0, <1>13, RecoveryDoes DEF OneLate
<1>14. CASE LinkDown \/ LinkUp \/ UNCHANGED vars
  BY <1>14 DEF LinkDown, LinkUp, vars, OneLate
<1> QED
  BY <1>1, <1>2, <1>3, <1>4, <1>5, <1>6, <1>7, <1>8, <1>9, <1>10, <1>11, <1>12, <1>13, <1>14,
     CallsMostlyQuiet, CyclesMostlyQuiet DEF Next

(* After Stopped is requested at most one frame that is not a quick stop    *)
(* goes out: the loop loads the request again right before every frame.     *)
THEOREM StopReaches == Spec => []StopReachesTheWire
<1>1. Init => OneLate
  BY DEF Init, Fresh, OneLate
<1>2. TypeInv /\ Requests /\ OneLate /\ [Next]_vars => OneLate'
  BY OneLateKept
<1>3. OneLate => StopReachesTheWire
  BY DEF OneLate, StopReachesTheWire
<1> QED
  BY <1>1, <1>2, <1>3, Typed, Requested, PTL DEF Spec

-----------------------------------------------------------------------------
(* A fault has a cause *)

(* Every step keeps CauseKept, without recovery by the loop. *)
LEMMA CauseKeptKept ==
  ASSUME ~AutoReconnect, TypeInv, Requests, CauseKept, [Next]_vars PROVE CauseKept'
<1> USE DEF FaultHasCause, Opening, Recovering, Throwing
<1>1. CASE QuietCall
  BY <1>1 DEF QuietCall, CauseKept
<1>2. CASE ConnectOpen
  BY <1>2, ConnectOpenDoes DEF CauseKept, At
<1>3. CASE SocketIsOpen \/ ConnectOpenFails \/ ConnectThreadFails
  BY <1>3, FailedConnectDoes DEF CauseKept, At
<1>4. CASE Leave
  BY <1>4, LeaveDoes DEF CauseKept
<1>5. CASE Join
  BY <1>5, JoinDoes DEF CauseKept
<1>6. CASE Quiesce \/ Stop \/ RunNotConfirmed
  BY <1>6, StopAsks DEF CauseKept
<1>7. CASE ConnectSucceeds \/ RequestRun \/ RunSucceeds
  BY <1>7, SuccessDoes DEF CauseKept
<1>8. CASE QuietCycle
  BY <1>8 DEF QuietCycle, CauseKept
<1>9. CASE LoopTop
  BY <1>9, LoopTopDoes DEF CauseKept
<1>10. CASE Observation \/ SilenceFault \/ WriteFault \/ LoopThrows \/ LoopFails
  BY <1>10, LinkDoes DEF CauseKept
<1>11. CASE Send
  BY <1>11, SendDoes DEF CauseKept
<1>12. CASE ReadLatest \/ JudgeLink \/ JudgeDrives \/ StoreVerdict
  BY <1>12, VerdictDoes DEF CauseKept
<1>13. CASE ForgetFault \/ Resume \/ Recovered
  BY <1>13, RecoveryDoes DEF CauseKept
<1>14. CASE LinkDown \/ LinkUp \/ UNCHANGED vars
  BY <1>14 DEF LinkDown, LinkUp, vars, CauseKept
<1> QED
  BY <1>1, <1>2, <1>3, <1>4, <1>5, <1>6, <1>7, <1>8, <1>9, <1>10, <1>11, <1>12, <1>13, <1>14,
     CallsMostlyQuiet, CyclesMostlyQuiet DEF Next

(* Whoever sees Faulted finds its cause, as long as the loop does not       *)
(* recover on its own: recovery clears the cause before the fault.          *)
THEOREM CauseKnown == ~AutoReconnect => (Spec => []FaultHasCause)
<1> SUFFICES ASSUME ~AutoReconnect PROVE Spec => []FaultHasCause
  OBVIOUS
<1>1. Init => CauseKept
  BY DEF Init, Fresh, FreshLoop, CauseKept, FaultHasCause, Opening, Recovering
<1>2. TypeInv /\ Requests /\ CauseKept /\ [Next]_vars => CauseKept'
  BY CauseKeptKept
<1>3. CauseKept => FaultHasCause
  BY DEF CauseKept
<1> QED
  BY <1>1, <1>2, <1>3, Typed, Requested, PTL DEF Spec

-----------------------------------------------------------------------------
(* Targets, homings and the link: what a step does to them *)

(* The fields the invariants below speak of. *)
SameRequest ==
  hand'.requested = hand.requested /\ hand'.destroyed = hand.destroyed /\ hand'.checkFirst = hand.checkFirst
SameTargets == hand'.staged = hand.staged /\ hand'.buffered = hand.buffered
SameHoming ==
  /\ hand'.homing = hand.homing /\ hand'.requestHoming = hand.requestHoming
  /\ hand'.activeHoming = hand.activeHoming
SameHand == SameRequest /\ SameTargets /\ SameHoming
SameLink ==
  comms'.socket = comms.socket /\ comms'.homing = comms.homing /\ comms'.outcome = comms.outcome
SameUser == user'.pc = user.pc /\ user'.goal = user.goal
SameSeen == seen'.origin = seen.origin /\ seen'.asked = seen.asked /\ seen'.voided = seen.voided
NewSeen == ~seen'.origin /\ ~seen'.asked /\ seen'.voided
Staged(command) == hand'.staged = command /\ hand'.buffered = command

(* A step of a call that leaves them alone and goes on, or returns. *)
Passes ==
  /\ SameHand /\ UNCHANGED <<comms, rt, seen>>
  /\ user.pc \notin {"leave", "join", "void command", "run failed", "terminated"}
  /\ user'.pc \notin {"join", "void command", "run failed", "quiesce", "first frame"}
  /\ user.pc \in Opening => user'.pc \in Opening \cup {"idle", "terminated"}
  /\ user.pc \in {"quiesce", "confirm stop"} =>
       user'.pc = "idle" \/ (user'.pc = "leave" /\ user'.goal = user.goal)
  /\ user.pc = "first frame" =>
       \/ user'.pc = "connected" /\ hand.checkFirst
       \/ user'.pc = "leave" /\ user'.goal = "connect"
  /\ user.pc = "idle" => user'.pc \in Procedures
  /\ user.pc \in Procedures => user'.pc = "idle" \/ ~hand.destroyed
  /\ user'.pc \in {"leave", "confirm stop"} =>
       user.pc \in {"quiesce", "confirm stop", "first frame"} \/ user'.goal = "reconnect"
  /\ user'.pc = "stage" => hand.requested = "Running" /\ hand.homing = "Succeeded"
  /\ user.pc \in Procedures /\ hand.requested = "Disconnected" =>
       user'.pc \in Procedures \cup {"idle", "leave", "asked"}

(* connect() opens the link and starts the loop, *)
Opens ==
  /\ user.pc = "open" /\ ~hand.destroyed /\ rt.pc = "none"
  /\ hand.requested \in {"Disconnected", "Connected"}
  /\ hand'.requested = "Connected" /\ hand'.destroyed = hand.destroyed /\ ~hand'.checkFirst
  /\ hand'.staged = hand.staged /\ hand'.buffered = hand.staged /\ hand'.homing = "NotRun"
  /\ hand'.requestHoming = hand.requestHoming /\ hand'.activeHoming = hand.activeHoming
  /\ comms'.socket /\ ~comms'.homing /\ comms'.outcome = comms.outcome
  /\ rt'.pc = "top" /\ rt'.req = "Disconnected" /\ rt'.command = "Idle"
  /\ user'.pc = "first frame" /\ NewSeen

(* or opens it and has to close it again. *)
Reclosed ==
  /\ user.pc = "open" /\ ~hand.destroyed /\ rt.pc = "none"
  /\ hand.requested \in {"Disconnected", "Connected"}
  /\ rt' = rt
  /\ hand'.requested = "Disconnected" /\ hand'.destroyed = hand.destroyed
  /\ hand'.staged = hand.staged /\ hand'.buffered = hand.staged /\ hand'.homing = "NotRun"
  /\ hand'.requestHoming = hand.requestHoming /\ hand'.activeHoming = hand.activeHoming
  /\ ~comms'.socket /\ ~comms'.homing /\ comms'.outcome = comms.outcome
  /\ user'.pc = "idle" /\ NewSeen

(* The loop is asked to end, and has been joined. *)
Leaves ==
  /\ user.pc = "leave" /\ user'.pc = "join" /\ user'.goal = user.goal
  /\ hand'.requested = "Disconnected" /\ hand'.destroyed = hand.destroyed
  /\ hand'.checkFirst = hand.checkFirst
  /\ SameTargets /\ SameHoming /\ UNCHANGED <<comms, rt, seen>>
Joins ==
  /\ user.pc = "join" /\ rt.pc \in {"none", "dead"} /\ rt'.pc = "none" /\ rt'.command = "Idle"
  /\ ~comms'.socket /\ comms'.homing = comms.homing /\ comms'.outcome = comms.outcome
  /\ hand'.requested = hand.requested /\ hand'.destroyed = hand.destroyed
  /\ hand'.homing = hand.homing /\ UNCHANGED seen
  /\ \/ /\ user.goal = "reconnect" /\ user'.pc = "connect" /\ Staged("Idle")
        /\ ~hand'.requestHoming /\ ~hand'.activeHoming
     \/ user.goal # "reconnect" /\ user'.pc = "idle" /\ SameTargets /\ SameHoming

(* The command is voided. *)
Voids ==
  /\ SameRequest /\ Staged("Idle") /\ UNCHANGED <<comms, rt, seen>>
  /\ hand'.homing \in {hand.homing, "InProgress"}
  /\ hand'.requestHoming = hand.requestHoming /\ hand'.activeHoming = hand.activeHoming
  /\ user'.pc \in {"quiesce", "confirm stop", "control", "hold", "idle"}
  /\ user'.pc \in {"quiesce", "confirm stop"} => user'.goal \in {"disconnect", "stop"}
  /\ user.pc \notin {"idle", "first frame", "leave", "join", "quiesce", "confirm stop", "terminated"} \cup Opening
  /\ user.pc \in Procedures => ~hand.destroyed
  /\ user.pc \in Procedures /\ hand.requested = "Disconnected" => user'.pc = "quiesce"

(* close() begins. *)
Closes ==
  /\ user.pc = "close" /\ user'.pc = "quiesce" /\ user'.goal = "close" /\ hand'.destroyed
  /\ hand'.requested = hand.requested /\ hand'.checkFirst = hand.checkFirst
  /\ SameTargets /\ SameHoming /\ UNCHANGED <<comms, rt, seen>>

(* Stopped is requested, *)
AsksStop ==
  /\ hand'.requested = "Stopped" /\ hand'.destroyed = hand.destroyed
  /\ hand'.checkFirst = hand.checkFirst
  /\ SameTargets /\ SameHoming /\ SameSeen /\ UNCHANGED <<comms, rt>>
  /\ \/ /\ user.pc = "stop" /\ ~hand.destroyed /\ hand.requested # "Disconnected"
        /\ user'.pc = "void command"
     \/ user.pc = "confirm run" /\ user'.pc = "run failed"
     \/ /\ user.pc = "quiesce" /\ hand.requested # "Disconnected"
        /\ user'.pc = "confirm stop" /\ user'.goal = user.goal

(* or Running, *)
AsksRun ==
  /\ user.pc = "request run" /\ user'.pc \in {"confirm run", "request homing"}
  /\ hand'.requested = "Running" /\ hand'.destroyed = hand.destroyed
  /\ hand'.checkFirst = hand.checkFirst
  /\ SameTargets /\ SameHoming /\ UNCHANGED <<comms, rt, seen>>

(* or a homing, *)
AsksHoming ==
  /\ user.pc = "request homing" /\ user'.pc \in {"homing", "idle"}
  /\ SameRequest /\ SameTargets /\ hand'.homing = hand.homing /\ hand'.requestHoming
  /\ hand'.activeHoming = hand.activeHoming
  /\ UNCHANGED <<comms, rt>>
  /\ seen'.origin = seen.origin /\ seen'.asked /\ seen'.voided = seen.voided

(* or a target. *)
AsksTarget ==
  /\ user.pc = "stage" /\ user'.pc = "idle"
  /\ SameRequest /\ Staged("User") /\ SameHoming /\ UNCHANGED <<comms, rt>>
  /\ seen'.origin = seen.origin /\ seen'.asked = seen.asked /\ ~seen'.voided

(* The table lets set_command() through only to a hand that runs and is     *)
(* homed,                                                                   *)
LEMMA TargetAllowed ==
  ASSUME TypeInv, CheckAllowed("SetCommand") = "None"
  PROVE  hand.requested = "Running" /\ hand.homing = "Succeeded"
<1>1. hand.destroyed \in BOOLEAN /\ AllowedStates["SetCommand"] = {"Running"}
  BY DEF TypeInv, TypeOK, HandType, AllowedStates
<1>2. FaultedCode(hand.cause) # "None"
  BY DEF FaultedCode
<1> QED
  BY <1>1, <1>2 DEF CheckAllowed, CheckActionAllowed

(* run(), stop() and the homing calls only with a link that was asked for.  *)
LEMMA ControlAllowed ==
  ASSUME TypeInv, NEW action \in {"Run", "Stop", "Home"}, CheckAllowed(action) = "None"
  PROVE  hand.requested # "Disconnected"
<1>1. /\ hand.destroyed \in BOOLEAN
      /\ "Disconnected" \notin AllowedStates[action] /\ "Faulted" \notin AllowedStates[action]
  BY DEF TypeInv, TypeOK, HandType, AllowedStates
<1>2. FaultedCode(hand.cause) # "None"
  BY DEF FaultedCode
<1> QED
  BY <1>1, <1>2 DEF CheckAllowed, CheckActionAllowed

(* What is refused, or already so, passes. *)
LEMMA AnswersPass ==
  ASSUME TypeInv,
         \/ ConnectRefused \/ ConnectIgnored \/ ReconnectRefused \/ DisconnectRefused
         \/ DisconnectIgnored \/ CloseIgnored \/ StopRefused \/ StopIgnored \/ RunRefused
         \/ RunIgnored \/ ControlRefused \/ HomeRefused \/ SetCommandRefused
  PROVE  Passes
<1>1. PICK label \in {"connect", "confirmed", "reconnect", "disconnect", "close", "stop", "run", "control",
                      "home", "start_homing", "set_command"} : \E code : Answer(label, code)
  <2>1. HomeRefused => \E code : Answer("home", code) \/ Answer("start_homing", code)
    <3> SUFFICES ASSUME HomeRefused PROVE \E code : Answer("home", code) \/ Answer("start_homing", code)
      OBVIOUS
    <3>1. CASE user.pc = "home"
      BY <3>1, Zenon DEF HomeRefused
    <3>2. CASE user.pc = "start_homing"
      BY <3>2, Zenon DEF HomeRefused
    <3> QED
      BY <3>1, <3>2 DEF HomeRefused, Homing, At
  <2> QED
    BY <2>1, Zenon DEF ConnectRefused, ConnectIgnored, ReconnectRefused, DisconnectRefused, DisconnectIgnored,
         CloseIgnored, StopRefused, StopIgnored, RunRefused, RunIgnored, ControlRefused,
         SetCommandRefused
<1>2. /\ user.pc = label
      /\ \E code : Return(code)
      /\ UNCHANGED <<hand, comms, rt, env, seen>>
  BY <1>1, Zenon DEF Answer, At
<1>3. user'.pc = "idle"
  BY <1>2, ReturnMoves
<1> QED
  BY <1>1, <1>2, <1>3 DEF Passes, SameHand, SameRequest, SameTargets, SameHoming, Opening

(* connect() and reconnect(), *)
LEMMA ConnectCalls ==
  ASSUME TypeInv, Requests, Call \/ ConnectStep \/ ReconnectStart
  PROVE  Passes \/ Opens \/ Reclosed
<1> USE DEF SameHand, SameRequest, SameTargets, SameHoming, Opening
<1>1. CASE Call
  <2>1. user.pc = "idle" /\ user'.pc \in Procedures /\ UNCHANGED <<hand, comms, rt, env, seen>>
    BY <1>1, HandCoreAssumption DEF Call, At, HandCoreAssumption, TypeInv, TypeOK, UserType
  <2> QED
    BY <2>1 DEF Passes, Procedures
<1>2. CASE FirstFrameSeen
  <2>1. /\ user.pc = "first frame" /\ hand.checkFirst /\ user'.pc = "connected"
        /\ UNCHANGED <<hand, comms, rt, env, seen>>
    BY <1>2, GotoMoves DEF FirstFrameSeen, At
  <2> QED
    BY <2>1 DEF Passes, Procedures
<1>3. CASE FirstFrameMissed
  <2>1. /\ user.pc = "first frame" /\ user'.pc = "leave" /\ user'.goal = "connect"
        /\ UNCHANGED <<hand, comms, rt, env, seen>>
    BY <1>3 DEF FirstFrameMissed, At, TypeInv, TypeOK, UserType
  <2> QED
    BY <2>1 DEF Passes, Procedures
<1>4. CASE ReconnectStart
  <2>1. /\ user.pc = "reconnect" /\ user'.pc = "leave" /\ user'.goal = "reconnect"
        /\ ~hand.destroyed /\ UNCHANGED <<hand, comms, rt, env, seen>>
    BY <1>4, GotoMoves, DestroyedIsRefused
    DEF ReconnectStart, At, TypeInv, Labels, UserFits, HandAction, AllowedStates
  <2> QED
    BY <2>1 DEF Passes, Procedures
<1>5. CASE ConnectSucceeds
  <2>1. user.pc = "connected" /\ user'.pc = "idle" /\ UNCHANGED <<comms, rt, env, seen>>
    BY <1>5, ReturnMoves DEF ConnectSucceeds, At
  <2>2. SameHand
    BY <1>5 DEF ConnectSucceeds, Observe, TypeInv, TypeOK, HandType
  <2> QED
    BY <2>1, <2>2 DEF Passes, Procedures
<1>10. CASE ConnectChecked
  <2>1. user.pc = "connect" /\ ~hand.destroyed /\ UNCHANGED <<hand, comms, rt, env, seen>>
    BY <1>10, ConnectAllowed DEF ConnectChecked, At
  <2>2. user'.pc = "asked"
    BY <1>10, GotoMoves DEF ConnectChecked
  <2> QED
    BY <2>1, <2>2 DEF Passes, Procedures
<1>11. CASE ConnectAsked \/ ConnectAgain \/ Terminates
  <2>1. PICK label \in {"confirmed", "open", "terminated"} : Goto(label)
    BY <1>11 DEF ConnectAsked, ConnectAgain, Terminates
  <2>2. user.pc \in Opening /\ UNCHANGED <<hand, comms, rt, env, seen>>
    BY <1>11 DEF ConnectAsked, ConnectAgain, Terminates, At
  <2>3. user'.pc = label
    BY <2>1, GotoMoves
  <2> QED
    BY <2>1, <2>2, <2>3 DEF Passes, Procedures
<1>6. ASSUME ConnectOpen \/ ConnectThreadFails
      PROVE  /\ user.pc = "open" /\ ~hand.destroyed /\ rt.pc = "none"
             /\ hand.requested \in {"Disconnected", "Connected"}
  BY <1>6 DEF ConnectOpen, ConnectThreadFails, At, Requests
<1>7. CASE SocketIsOpen \/ ConnectOpenFails
  <2>1. PICK code : ConnectFails(hand, code)
    BY <1>7 DEF SocketIsOpen, ConnectOpenFails
  <2>2. user.pc = "open" /\ user'.pc = "idle" /\ UNCHANGED <<comms, rt, env, seen>>
    BY <1>7, <2>1, ReturnMoves DEF SocketIsOpen, ConnectOpenFails, ConnectFails, At
  <2>3. SameHand
    BY <2>1 DEF ConnectFails, TypeInv, TypeOK, HandType
  <2> QED
    BY <2>2, <2>3 DEF Passes, Procedures
<1>8. CASE ConnectOpen
  <2>1. user'.pc = "first frame"
    BY <1>8, GotoMoves DEF ConnectOpen
  <2>2. /\ hand'.requested = "Connected" /\ hand'.destroyed = hand.destroyed /\ ~hand'.checkFirst
        /\ hand'.staged = hand.staged /\ hand'.buffered = hand.staged /\ hand'.homing = "NotRun"
        /\ hand'.requestHoming = hand.requestHoming /\ hand'.activeHoming = hand.activeHoming
    BY <1>8 DEF ConnectOpen, Request, NewLink, TypeInv, TypeOK, HandType
  <2>3. comms'.socket /\ ~comms'.homing /\ comms'.outcome = comms.outcome
    BY <1>8 DEF ConnectOpen, Opened, Unopened
  <2>4. rt'.pc = "top" /\ rt'.req = "Disconnected" /\ rt'.command = "Idle"
    BY <1>8 DEF ConnectOpen, FreshLoop
  <2>5. NewSeen
    BY <1>8 DEF ConnectOpen, NewSeen, TypeInv, TypeOK, SeenType
  <2> QED
    BY <1>6, <1>8, <2>1, <2>2, <2>3, <2>4, <2>5 DEF Opens
<1>9. CASE ConnectThreadFails
  <2> DEFINE link == NewLink(hand)
             none == Observe(Request(link, "Disconnected"), "Disconnected")
  <2>1. /\ link \in HandType /\ link.destroyed = hand.destroyed
        /\ link.staged = hand.staged /\ link.buffered = hand.staged /\ link.homing = "NotRun"
        /\ link.requestHoming = hand.requestHoming /\ link.activeHoming = hand.activeHoming
    BY NewLinkTyped DEF NewLink, TypeInv, TypeOK, HandType
  <2>2. ConnectFails(none, "ControlLoopFault")
    BY <1>9 DEF ConnectThreadFails
  <2> HIDE DEF link
  <2>3. /\ none \in HandType /\ none.requested = "Disconnected" /\ none.destroyed = link.destroyed
        /\ none.staged = link.staged /\ none.buffered = link.buffered /\ none.homing = link.homing
        /\ none.requestHoming = link.requestHoming /\ none.activeHoming = link.activeHoming
    BY <2>1 DEF Request, Observe, HandType, Lifecycle
  <2> HIDE DEF none
  <2>4. /\ hand'.requested = none.requested /\ hand'.destroyed = none.destroyed
        /\ hand'.staged = none.staged /\ hand'.buffered = none.buffered /\ hand'.homing = none.homing
        /\ hand'.requestHoming = none.requestHoming /\ hand'.activeHoming = none.activeHoming
    BY <2>2, <2>3 DEF ConnectFails, HandType
  <2>5. user'.pc = "idle"
    BY <2>2, ReturnMoves DEF ConnectFails
  <2>6. ~comms'.socket /\ ~comms'.homing /\ comms'.outcome = comms.outcome /\ rt' = rt
    BY <1>9 DEF ConnectThreadFails, Opened, Closed, Unopened
  <2>7. NewSeen
    BY <1>9 DEF ConnectThreadFails, NewSeen, TypeInv, TypeOK, SeenType
  <2> QED
    BY <1>6, <1>9, <2>1, <2>3, <2>4, <2>5, <2>6, <2>7 DEF Reclosed
<1> QED
  BY <1>1, <1>2, <1>3, <1>4, <1>5, <1>7, <1>8, <1>9, <1>10, <1>11, AnswersPass DEF ConnectStep
(* disconnect(), close() and the joining of the loop, *)
LEMMA LeaveCalls ==
  ASSUME TypeInv, LeaveStep PROVE Passes \/ Leaves \/ Joins \/ Voids \/ Closes \/ AsksStop
<1> USE DEF SameHand, SameRequest, SameTargets, SameHoming, Opening
<1>1. CASE ReconnectStart
  <2>1. /\ user.pc = "reconnect" /\ user'.pc = "leave" /\ user'.goal = "reconnect"
        /\ ~hand.destroyed /\ UNCHANGED <<hand, comms, rt, env, seen>>
    BY <1>1, GotoMoves, DestroyedIsRefused
    DEF ReconnectStart, At, TypeInv, Labels, UserFits, HandAction, AllowedStates
  <2> QED
    BY <2>1 DEF Passes, Procedures
<1>2. CASE DisconnectReset
  <2>1. /\ user.pc = "disconnect" /\ user'.pc = "quiesce" /\ user'.goal = "disconnect"
        /\ ~hand.destroyed /\ UNCHANGED <<comms, rt, env, seen>>
    BY <1>2, GotoMoves, DestroyedIsRefused
    DEF DisconnectReset, At, HandAction, AllowedStates, TypeInv, Labels, UserFits
  <2>2. /\ SameRequest /\ Staged("Idle") /\ hand'.homing = hand.homing
        /\ hand'.requestHoming = hand.requestHoming /\ hand'.activeHoming = hand.activeHoming
    BY <1>2 DEF DisconnectReset, Stage, Staged, TypeInv, TypeOK, HandType
  <2> QED
    BY <2>1, <2>2 DEF Voids
<1>3. CASE Close
  <2>1. user.pc = "close" /\ user'.pc = "quiesce" /\ user'.goal = "close" /\ UNCHANGED <<comms, rt, env, seen>>
    BY <1>3, GotoMoves DEF Close, At, TypeInv, Labels, UserFits
  <2> QED
    BY <1>3, <2>1 DEF Close, Closes, TypeInv, TypeOK, HandType
<1>4. CASE Quiesce
  <2>1. user.pc = "quiesce"
    BY <1>4 DEF Quiesce, At
  <2>2. CASE ControlRequested /\ hand.observed # "Stopped"
    <3>1. user'.pc = "confirm stop" /\ user'.goal = user.goal /\ UNCHANGED <<comms, rt>>
      BY <1>4, <2>2, GotoMoves DEF Quiesce
    <3>2. SameSeen
      BY <1>4, <2>2 DEF Quiesce, StopAsked, SameSeen, TypeInv, TypeOK, SeenType
    <3> QED
      BY <1>4, <2>1, <2>2, <3>1, <3>2 DEF Quiesce, ControlRequested, AsksStop, Request, TypeInv, TypeOK, HandType
  <2>3. CASE ~(ControlRequested /\ hand.observed # "Stopped")
    <3>1. /\ user'.pc = "leave" /\ user'.goal = user.goal
          /\ UNCHANGED <<hand, comms, rt, env, seen>>
      BY <1>4, <2>3, GotoMoves DEF Quiesce
    <3> QED
      BY <2>1, <3>1 DEF Passes, Procedures
  <2> QED
    BY <2>2, <2>3
<1>5. CASE Leave
  BY <1>5, GotoMoves DEF Leave, At, Leaves, Request, TypeInv, TypeOK, HandType
<1>6. CASE Join
  <2> DEFINE left == Observe(hand, "Disconnected")
  <2>1. /\ left \in HandType /\ left.requested = hand.requested /\ left.destroyed = hand.destroyed
        /\ left.staged = hand.staged /\ left.buffered = hand.buffered /\ left.homing = hand.homing
        /\ left.requestHoming = hand.requestHoming /\ left.activeHoming = hand.activeHoming
    BY DEF Observe, TypeInv, TypeOK, HandType, Lifecycle
  <2>2. user.pc = "join" /\ rt.pc \in {"none", "dead"} /\ rt'.pc = "none" /\ rt'.command = "Idle" /\ UNCHANGED seen
    BY <1>6 DEF Join, At, FreshLoop
  <2>3. ~comms'.socket /\ comms'.homing = comms.homing /\ comms'.outcome = comms.outcome
    BY <1>6 DEF Join, Closed, TypeInv, TypeOK, CommsType
  <2>4. CASE user.goal = "reconnect"
    <3>1. hand' = Stage(ResetFaultState(left), "Idle") /\ user'.pc = "connect"
      BY <1>6, <2>4 DEF Join, TypeInv, TypeOK, UserType
    <3> HIDE DEF left
    <3>2. /\ hand'.requested = left.requested /\ hand'.destroyed = left.destroyed
          /\ hand'.homing = left.homing /\ Staged("Idle")
          /\ ~hand'.requestHoming /\ ~hand'.activeHoming
      BY <2>1, <3>1 DEF Stage, ResetFaultState, Staged, HandType
    <3> QED
      BY <2>1, <2>2, <2>3, <2>4, <3>1, <3>2 DEF Joins
  <2>5. CASE user.goal # "reconnect"
    <3>1. \/ ConnectFails(left, "CommunicationLost")
          \/ hand' = [left EXCEPT !.checkFirst = FALSE, !.checkComm = FALSE] /\ Return("None")
          \/ hand' = left /\ Return("None")
      BY <1>6, <2>2, <2>5 DEF Join, TypeInv, Labels, UserFits
    <3>2. user'.pc = "idle"
      BY <3>1, ReturnMoves DEF ConnectFails
    <3> HIDE DEF left
    <3>3. /\ hand'.requested = left.requested /\ hand'.destroyed = left.destroyed
          /\ hand'.staged = left.staged /\ hand'.buffered = left.buffered /\ hand'.homing = left.homing
          /\ hand'.requestHoming = left.requestHoming /\ hand'.activeHoming = left.activeHoming
      BY <2>1, <3>1 DEF ConnectFails, HandType
    <3> QED
      BY <2>1, <2>2, <2>3, <2>5, <3>2, <3>3 DEF Joins
  <2> QED
    BY <2>4, <2>5
<1> QED
  BY <1>1, <1>2, <1>3, <1>4, <1>5, <1>6, AnswersPass DEF LeaveStep

(* stop(), *)
LEMMA StopCalls ==
  ASSUME TypeInv, StopStep PROVE Passes \/ Voids \/ AsksStop
<1> USE DEF SameHand, SameRequest, SameTargets, SameHoming, Opening
<1>1. CASE Stop
  <2>1. user.pc = "stop" /\ user'.pc = "void command" /\ ~hand.destroyed /\ UNCHANGED <<comms, rt>>
    BY <1>1, GotoMoves, DestroyedIsRefused DEF Stop, At, HandAction, AllowedStates
  <2>3. hand.requested # "Disconnected"
    BY <1>1, ControlAllowed DEF Stop
  <2>2. SameSeen
    BY <1>1 DEF Stop, StopAsked, SameSeen, TypeInv, TypeOK, SeenType
  <2> QED
    BY <1>1, <2>1, <2>2, <2>3 DEF Stop, AsksStop, Request, TypeInv, TypeOK, HandType
<1>2. CASE StopReset
  <2>1. /\ user.pc = "void command" /\ user'.pc = "confirm stop" /\ user'.goal = "stop"
        /\ UNCHANGED <<comms, rt, env, seen>>
    BY <1>2, GotoMoves DEF StopReset, At, TypeInv, Labels, UserFits
  <2>2. /\ SameRequest /\ Staged("Idle") /\ hand'.homing = hand.homing
        /\ hand'.requestHoming = hand.requestHoming /\ hand'.activeHoming = hand.activeHoming
    BY <1>2 DEF StopReset, Stage, Staged, TypeInv, TypeOK, HandType
  <2> QED
    BY <2>1, <2>2 DEF Voids, Procedures
<1>3. CASE StopConfirmed \/ StopNotConfirmed
  <2>1. user.pc = "confirm stop" /\ UNCHANGED <<hand, comms, rt, env, seen>>
    BY <1>3 DEF StopConfirmed, StopNotConfirmed, At
  <2>2. user.call \in {"stop", "disconnect", "close"}
    BY <2>1 DEF TypeInv, Labels, UserFits
  <2>3. (\E code : Return(code)) \/ Goto("leave")
    BY <1>3, <2>2, Zenon DEF StopConfirmed, StopNotConfirmed
  <2>4. CASE Goto("leave")
    <3>1. user'.pc = "leave" /\ user'.goal = user.goal
      BY <2>4, GotoMoves
    <3> QED
      BY <2>1, <3>1 DEF Passes, Procedures
  <2>5. CASE \E code : Return(code)
    BY <2>1, <2>5, ReturnMoves DEF Passes, Procedures
  <2> QED
    BY <2>3, <2>4, <2>5
<1> QED
  BY <1>1, <1>2, <1>3, AnswersPass DEF StopStep

(* run(), *)
LEMMA RunCalls ==
  ASSUME TypeInv, RunStep PROVE Passes \/ Voids \/ AsksStop \/ AsksRun
<1> USE DEF SameHand, SameRequest, SameTargets, SameHoming, Opening
<1>1. CASE Run
  <2>1. /\ user.pc = "run" /\ user'.pc \in {"home", "control"} /\ ~hand.destroyed
        /\ UNCHANGED <<hand, comms, rt, env, seen>>
    BY <1>1, DestroyedIsRefused DEF Run, At, TypeInv, TypeOK, UserType, HandAction, AllowedStates
  <2>2. hand.requested # "Disconnected"
    BY <1>1, ControlAllowed DEF Run
  <2> QED
    BY <2>1, <2>2 DEF Passes, Procedures
<1>2. CASE ControlHeld \/ ControlElsewhere \/ RunConfirmed
  <2>1. /\ user.pc \in {"control", "confirm run"}
        /\ user'.pc \in {"confirm run", "request homing", "request run", "running"}
        /\ UNCHANGED <<hand, comms, rt, env, seen>>
    BY <1>2, GotoMoves DEF ControlHeld, ControlElsewhere, RunConfirmed, At, AfterControl
  <2> QED
    BY <2>1 DEF Passes, Procedures
<1>3. CASE ControlFromStopped
  <2>1. user.pc = "control" /\ user'.pc = "hold" /\ UNCHANGED <<comms, rt, env, seen>>
    BY <1>3, GotoMoves DEF ControlFromStopped, At
  <2>2. /\ SameRequest /\ Staged("Idle") /\ hand'.homing = hand.homing
        /\ hand'.requestHoming = hand.requestHoming /\ hand'.activeHoming = hand.activeHoming
    BY <1>3 DEF ControlFromStopped, Stage, Staged, TypeInv, TypeOK, HandType
  <2> QED
    BY <2>1, <2>2 DEF Voids, Procedures
<1>4. CASE RequestHold
  <2>1. user.pc = "hold" /\ user'.pc = "request run" /\ UNCHANGED <<comms, rt, env, seen>>
    BY <1>4, GotoMoves DEF RequestHold, At
  <2>2. SameHand
    BY <1>4 DEF RequestHold, TypeInv, TypeOK, HandType
  <2> QED
    BY <2>1, <2>2 DEF Passes, Procedures
<1>5. CASE RequestRun
  BY <1>5, GotoMoves DEF RequestRun, At, AfterControl, AsksRun, Request, TypeInv, TypeOK, HandType
<1>6. CASE RunSucceeds
  <2>1. user.pc = "running" /\ user'.pc = "idle" /\ UNCHANGED <<comms, rt, env, seen>>
    BY <1>6, ReturnMoves DEF RunSucceeds, At
  <2>2. SameHand
    BY <1>6 DEF RunSucceeds, Observe, TypeInv, TypeOK, HandType
  <2> QED
    BY <2>1, <2>2 DEF Passes, Procedures
<1>7. CASE RunNotConfirmed
  <2>1. user.pc = "confirm run" /\ user'.pc = "run failed" /\ UNCHANGED <<comms, rt>>
    BY <1>7, GotoMoves DEF RunNotConfirmed, At
  <2>2. SameSeen
    BY <1>7 DEF RunNotConfirmed, StopAsked, SameSeen, TypeInv, TypeOK, SeenType
  <2> QED
    BY <1>7, <2>1, <2>2 DEF RunNotConfirmed, AsksStop, Request, TypeInv, TypeOK, HandType
<1>8. CASE RunFails
  <2>1. user.pc = "run failed" /\ user'.pc = "idle" /\ UNCHANGED <<comms, rt, env, seen>>
    BY <1>8, ReturnMoves DEF RunFails, At
  <2>2. /\ SameRequest /\ Staged("Idle") /\ hand'.homing = hand.homing
        /\ hand'.requestHoming = hand.requestHoming /\ hand'.activeHoming = hand.activeHoming
    BY <1>8 DEF RunFails, Stage, Staged, TypeInv, TypeOK, HandType
  <2> QED
    BY <2>1, <2>2 DEF Voids, Procedures
<1> QED
  BY <1>1, <1>2, <1>3, <1>4, <1>5, <1>6, <1>7, <1>8, AnswersPass DEF RunStep

(* the homing calls, and set_command(). *)
LEMMA HomeCalls ==
  ASSUME TypeInv, HomeStep \/ CommandStep PROVE Passes \/ Voids \/ AsksHoming \/ AsksTarget
<1> USE DEF SameHand, SameRequest, SameTargets, SameHoming, Opening
<1>1. CASE StartHoming
  <2> DEFINE begun == [hand EXCEPT !.homing = "InProgress"]
  <2>1. /\ user.pc \in {"home", "start_homing"} /\ user'.pc = "control" /\ ~hand.destroyed
        /\ UNCHANGED <<comms, rt, env, seen>>
    BY <1>1, GotoMoves, DestroyedIsRefused DEF StartHoming, Homing, At, HandAction, AllowedStates
  <2>2. /\ begun \in HandType /\ begun.homing = "InProgress"
        /\ begun.requested = hand.requested /\ begun.destroyed = hand.destroyed
        /\ begun.checkFirst = hand.checkFirst /\ begun.requestHoming = hand.requestHoming
        /\ begun.activeHoming = hand.activeHoming
    BY DEF TypeInv, TypeOK, HandType, HomingStates
  <2>3. hand' = Stage(begun, "Idle")
    BY <1>1 DEF StartHoming
  <2> HIDE DEF begun
  <2>4. /\ SameRequest /\ Staged("Idle") /\ hand'.homing = "InProgress"
        /\ hand'.requestHoming = hand.requestHoming /\ hand'.activeHoming = hand.activeHoming
    BY <2>2, <2>3 DEF Stage, Staged, HandType
  <2>5. hand.requested # "Disconnected"
    BY <1>1, ControlAllowed DEF StartHoming
  <2> QED
    BY <2>1, <2>4, <2>5 DEF Voids
<1>2. CASE RequestHoming
  <2>1. user.pc = "request homing" /\ user'.pc \in {"homing", "idle"} /\ UNCHANGED <<comms, rt>>
    BY <1>2, GotoMoves, ReturnMoves DEF RequestHoming, At
  <2>2. /\ SameRequest /\ SameTargets /\ hand'.homing = hand.homing /\ hand'.requestHoming
        /\ hand'.activeHoming = hand.activeHoming
    BY <1>2 DEF RequestHoming, TypeInv, TypeOK, HandType
  <2>3. seen'.origin = seen.origin /\ seen'.asked /\ seen'.voided = seen.voided
    BY <1>2 DEF RequestHoming, TypeInv, TypeOK, SeenType
  <2> QED
    BY <2>1, <2>2, <2>3 DEF AsksHoming
<1>3. CASE HomeReturns
  <2>1. user.pc = "homing" /\ user'.pc = "idle" /\ UNCHANGED <<hand, comms, rt, env, seen>>
    BY <1>3, ReturnMoves DEF HomeReturns, At
  <2> QED
    BY <2>1 DEF Passes, Procedures
<1>4. CASE SetCommand
  <2>1. /\ user.pc = "set_command" /\ user'.pc = "stage" /\ ~hand.destroyed
        /\ UNCHANGED <<hand, comms, rt, env, seen>>
    BY <1>4, GotoMoves, DestroyedIsRefused DEF SetCommand, At, HandAction, AllowedStates
  <2>2. hand.requested = "Running" /\ hand.homing = "Succeeded"
    BY <1>4, TargetAllowed DEF SetCommand
  <2> QED
    BY <2>1, <2>2 DEF Passes, Procedures
<1>5. CASE StageCommand
  <2>1. user.pc = "stage" /\ user'.pc = "idle" /\ UNCHANGED <<comms, rt>>
    BY <1>5, ReturnMoves DEF StageCommand, At
  <2>2. SameRequest /\ Staged("User") /\ SameHoming
    BY <1>5 DEF StageCommand, Stage, Staged, TypeInv, TypeOK, HandType
  <2>3. seen'.origin = seen.origin /\ seen'.asked = seen.asked /\ ~seen'.voided
    BY <1>5 DEF StageCommand, TypeInv, TypeOK, SeenType
  <2> QED
    BY <2>1, <2>2, <2>3 DEF AsksTarget
<1> QED
  BY <1>1, <1>2, <1>3, <1>4, <1>5, AnswersPass DEF HomeStep, CommandStep

(* So every step of a call is one of these. *)
LEMMA CallsDo ==
  ASSUME TypeInv, Requests, Call \/ InCall
  PROVE  \/ Passes \/ Opens \/ Reclosed \/ Leaves \/ Joins \/ Voids \/ Closes
         \/ AsksStop \/ AsksRun \/ AsksHoming \/ AsksTarget
  BY ConnectCalls, LeaveCalls, StopCalls, RunCalls, HomeCalls DEF InCall
-----------------------------------------------------------------------------
(* What the steps of the loop do to them *)

(* The request and the command of this cycle are read, and its frame has    *)
(* not gone out.                                                            *)
InTheMaking ==
  {"request", "start homing", "observe", "silence", "hold", "stage hold", "latest", "send"}
(* It has gone out, and the homing has yet to be judged. *)
Judging == {"write fault", "link", "drives", "verdict", "homed"}

(* A step that leaves all of it alone. *)
Turns ==
  /\ hand'.requested = hand.requested /\ hand'.destroyed = hand.destroyed
  /\ rt.pc # "observe" => hand'.checkFirst = hand.checkFirst
  /\ SameTargets /\ SameHoming /\ SameLink /\ SameUser /\ SameSeen /\ rt'.command = rt.command
  /\ \/ rt.pc = "observe" /\ rt'.pc \in {"silence", "hold"} /\ rt'.req = rt.req
     \/ rt.pc \in Throwing /\ rt'.pc = "failed" /\ LoopMayThrow
     \/ rt.pc = "silence" /\ rt'.pc = "hold" /\ rt'.req = rt.req
     \/ rt.pc = "hold" /\ rt'.pc \in {"stage hold", "latest", "link"} /\ rt'.req = rt.req
     \/ rt.pc \in Judging \ {"homed"} /\ rt'.pc \in Judging
     \/ rt.pc = "homed" /\ rt'.pc = IF HomingEnded THEN "homing over" ELSE "top"
     \/ rt.pc = "failed" /\ rt'.pc = "last words"
     \/ rt.pc = "reopen" /\ rt'.pc = "dead"
     \/ rt.pc = "await frame" /\ rt'.pc = "forget fault"
     \/ rt.pc = "recovered" /\ rt'.pc = "top"

(* The head of a cycle reads the request, *)
Heads ==
  /\ SameHand /\ SameUser /\ UNCHANGED <<comms, seen>> /\ rt'.command = rt.command
  /\ rt.pc = "top" /\ rt'.req = hand.requested /\ rt'.pc \in {"dead", "input", "reopen"}
  /\ rt'.pc = "reopen" => AutoReconnect

(* then the command, *)
Takes ==
  /\ SameRequest /\ SameHoming /\ UNCHANGED <<comms, user, seen>>
  /\ hand'.staged = hand.staged /\ hand'.buffered = NothingBuffered
  /\ rt'.command = IF hand.buffered = NothingBuffered THEN rt.command ELSE hand.buffered
  /\ rt.pc = "input" /\ rt'.pc = "request" /\ rt'.req = rt.req

(* then the homing that is asked for, *)
TakesHoming ==
  /\ SameRequest /\ SameTargets /\ UNCHANGED <<comms, user, seen>>
  /\ hand'.homing = hand.homing /\ ~hand'.requestHoming /\ hand'.activeHoming = hand.activeHoming
  /\ rt.pc = "request" /\ rt'.pc = IF hand.requestHoming THEN "start homing" ELSE "observe"
  /\ rt'.command = rt.command /\ rt'.req = rt.req
StartsHoming ==
  /\ SameRequest /\ SameTargets /\ hand'.requestHoming = hand.requestHoming
  /\ UNCHANGED <<user, seen>>
  /\ rt.pc = "start homing" /\ rt'.pc = "observe" /\ rt'.command = rt.command /\ rt'.req = rt.req
  /\ comms'.socket = comms.socket
  /\ \/ /\ rt.req = "Running" /\ hand'.activeHoming /\ hand'.homing = hand.homing
        /\ IF comms.socket THEN comms'.homing /\ comms'.outcome = "InProgress" ELSE comms' = comms
     \/ /\ rt.req # "Running" /\ hand'.activeHoming = hand.activeHoming
        /\ hand'.homing = "Failed" /\ comms' = comms

(* and stages the hold of the pose, or of the origin. *)
Holds ==
  /\ SameRequest /\ SameHoming /\ UNCHANGED <<comms, user, seen>>
  /\ rt'.command = rt.command /\ rt'.req = rt.req
  /\ \/ rt.pc = "stage hold" /\ rt'.pc \in {"latest", "link"} /\ Staged("Hold")
     \/ rt.pc = "stage origin" /\ rt'.pc = "top" /\ Staged("HomeHold")

(* The request is read again, and the frame goes out. *)
Rereads ==
  /\ SameHand /\ UNCHANGED <<comms, user, seen>>
  /\ rt.pc = "latest" /\ rt'.pc = "send" /\ rt'.command = rt.command /\ rt'.req = rt.req
  /\ rt'.latest = hand.requested
SendsFrame ==
  /\ SameHand /\ UNCHANGED user
  /\ rt.pc = "send" /\ rt'.pc \in {"write fault", "link"} /\ rt'.command = rt.command
  /\ comms'.socket = comms.socket
  /\ comms'.homing => comms.homing
  /\ comms'.homing => comms'.outcome = comms.outcome
  /\ comms'.outcome # comms.outcome => comms.homing /\ comms.socket /\ ~QuickStop
  /\ seen'.asked = seen.asked
  /\ seen'.origin = (seen.origin \/ (comms.homing /\ comms'.outcome = "Succeeded"))
  /\ seen'.voided = (seen.voided \/ (rt.latest # "Running" /\ hand.requested # "Running"))

(* A homing that has ended is published. *)
EndsHoming ==
  /\ SameRequest /\ SameTargets /\ UNCHANGED <<comms, user, seen>>
  /\ hand'.requestHoming = hand.requestHoming /\ rt'.command = rt.command
  /\ \/ /\ rt.pc = "homing over" /\ rt'.pc = "homing state"
        /\ hand'.homing = hand.homing /\ ~hand'.activeHoming
     \/ /\ rt.pc = "homing state" /\ rt'.pc \in {"stage origin", "top"}
        /\ hand'.activeHoming = hand.activeHoming
        /\ hand'.homing = IF comms.outcome = "Succeeded" THEN "Succeeded" ELSE "Failed"

(* The last quick stops of a loop that failed. *)
Dies ==
  /\ SameHand /\ UNCHANGED user /\ rt'.command = rt.command
  /\ rt.pc = "last words" /\ rt'.pc = "dead"
  /\ comms'.socket = comms.socket /\ comms'.outcome = comms.outcome
  /\ comms'.homing => comms.homing
  /\ seen'.origin = seen.origin /\ seen'.asked = seen.asked /\ seen'.voided

(* The loop opens the link again, or fails to, and forgets the last one. *)
Reopens ==
  /\ SameHand /\ UNCHANGED user /\ rt'.command = rt.command
  /\ rt.pc = "reopen" /\ rt'.pc = "await frame"
  /\ comms'.socket /\ ~comms'.homing /\ comms'.outcome = comms.outcome /\ NewSeen
Loses ==
  /\ SameHand /\ UNCHANGED <<user, seen>> /\ rt'.command = rt.command
  /\ rt.pc \in {"reopen", "await frame"} /\ rt'.pc = "top"
  /\ ~comms'.socket /\ comms'.homing = comms.homing /\ comms'.outcome = comms.outcome
Forgets ==
  /\ SameRequest /\ SameTargets /\ UNCHANGED <<comms, user, seen>> /\ rt'.command = rt.command
  /\ rt.pc = "forget fault" /\ rt'.pc = "forget command"
  /\ hand'.homing = "NotRun" /\ ~hand'.requestHoming /\ ~hand'.activeHoming
ForgetsTarget ==
  /\ SameRequest /\ Staged("Idle") /\ UNCHANGED <<comms, user>> /\ rt'.command = rt.command
  /\ rt.pc = "forget command" /\ rt'.pc = "resume"
  /\ hand'.homing = hand.homing /\ hand'.activeHoming = hand.activeHoming
  /\ hand'.requestHoming => hand.requestHoming \/ AutoReconnectHome
  /\ seen'.asked = (seen.asked \/ AutoReconnectHome)
  /\ seen'.origin = seen.origin /\ seen'.voided = seen.voided
Resumes ==
  /\ hand'.requested = "Running" /\ hand'.destroyed = hand.destroyed
  /\ hand'.checkFirst = hand.checkFirst /\ SameTargets /\ SameHoming
  /\ UNCHANGED <<comms, user, seen>> /\ rt'.command = rt.command
  /\ rt.pc = "resume" /\ rt'.pc = "recovered"

(* The steps of the loop that leave all of it alone, *)
LEMMA CyclesTurn ==
  ASSUME TypeInv,
         \/ Observation \/ SilenceFault \/ TakeHoldRequest \/ WriteFault \/ JudgeLink \/ JudgeDrives
         \/ StoreVerdict \/ HomingResult \/ LoopThrows \/ LoopFails \/ GiveUp \/ Recovered
  PROVE  Turns
<1> USE DEF SameTargets, SameHoming, SameLink, SameUser, SameSeen, InCycle, TypeInv, TypeOK, HandType,
            LoopType, Judging, Throwing, Turns
<1>1. CASE Observation
  <2>1. SameLink
    BY <1>1 DEF Observation, Received, CommsType
  <2> QED
    BY <1>1, <2>1 DEF Observation
<1>2. CASE SilenceFault
  BY <1>2 DEF SilenceFault, Observe
<1>3. CASE TakeHoldRequest
  BY <1>3 DEF TakeHoldRequest
<1>4. CASE WriteFault
  BY <1>4 DEF WriteFault, Observe
<1>5. CASE JudgeLink
  BY <1>5 DEF JudgeLink, FreshLoop
<1>6. CASE JudgeDrives
  BY <1>6 DEF JudgeDrives
<1>7. CASE StoreVerdict
  BY <1>7 DEF StoreVerdict, Observe
<1>8. CASE HomingResult
  BY <1>8 DEF HomingResult
<1>9. CASE LoopThrows
  BY <1>9 DEF LoopThrows
<1>10. CASE LoopFails
  BY <1>10 DEF LoopFails, Observe
<1>11. CASE GiveUp
  BY <1>11 DEF GiveUp
<1>12. CASE Recovered
  BY <1>12 DEF Recovered, Observe
<1> QED
  BY <1>1, <1>2, <1>3, <1>4, <1>5, <1>6, <1>7, <1>8, <1>9, <1>10, <1>11, <1>12

(* all steps of a cycle and of a loop that fails, *)
LEMMA CyclesDo ==
  ASSUME TypeInv, CycleStep \/ FailureStep
  PROVE  \/ Turns \/ Heads \/ Takes \/ TakesHoming \/ StartsHoming \/ Holds \/ Rereads \/ SendsFrame
         \/ EndsHoming \/ Dies
<1> USE DEF SameHand, SameRequest, SameTargets, SameHoming, SameUser, InCycle
<1>1. CASE LoopTop
  <2>1. SameUser
    BY <1>1, LoopTopDoes
  <2> QED
    BY <1>1, <2>1, LoopTopDoes DEF LoopTop, Heads, TypeInv, TypeOK, LoopType
<1>2. CASE TakeCommand
  BY <1>2 DEF TakeCommand, Takes, TypeInv, TypeOK, LoopType, HandType
<1>3. CASE TakeHomingRequest
  BY <1>3 DEF TakeHomingRequest, TakesHoming, TypeInv, TypeOK, LoopType, HandType
<1>4. CASE BeginHoming
  <2>1. CASE rt.req = "Running"
    <3>1. /\ comms'.socket = comms.socket
          /\ IF comms.socket THEN comms'.homing /\ comms'.outcome = "InProgress" ELSE comms' = comms
      BY <1>4, <2>1 DEF BeginHoming, StartSequence, TypeInv, TypeOK, CommsType
    <3> QED
      BY <1>4, <2>1, <3>1 DEF BeginHoming, StartsHoming, TypeInv, TypeOK, LoopType, HandType
  <2>2. CASE rt.req # "Running"
    BY <1>4, <2>2 DEF BeginHoming, StartsHoming, TypeInv, TypeOK, LoopType, HandType
  <2> QED
    BY <2>1, <2>2
<1>5. CASE StageHold
  BY <1>5 DEF StageHold, Holds, Stage, Staged, TypeInv, TypeOK, LoopType, HandType
<1>6. CASE StageOrigin
  BY <1>6 DEF StageOrigin, Holds, Stage, Staged, TypeInv, TypeOK, LoopType, HandType
<1>7. CASE ReadLatest
  BY <1>7 DEF ReadLatest, Rereads, TypeInv, TypeOK, LoopType
<1>8. CASE Send
  <2>1. /\ comms'.socket = comms.socket
        /\ comms'.homing => comms.homing
        /\ comms'.homing => comms'.outcome = comms.outcome
        /\ comms'.outcome # comms.outcome => comms.homing /\ comms.socket /\ ~QuickStop
    <3>1. \/ comms' = comms
          \/ comms' = [comms EXCEPT !.homing = FALSE] /\ comms.homing
          \/ comms.homing /\ comms.socket /\ ~QuickStop /\ \E o \in {"Succeeded", "Failed"} :
               comms' = [comms EXCEPT !.homing = FALSE, !.outcome = o]
      BY <1>8 DEF Send, AdvanceHoming
    <3> QED
      BY <3>1 DEF TypeInv, TypeOK, CommsType
  <2>2. /\ seen'.asked = seen.asked
        /\ seen'.origin = (seen.origin \/ (comms.homing /\ comms'.outcome = "Succeeded"))
        /\ seen'.voided = (seen.voided \/ (rt.latest # "Running" /\ hand.requested # "Running"))
    BY <1>8 DEF Send, TypeInv, TypeOK, SeenType
  <2>3. /\ SameHand /\ UNCHANGED user /\ rt.pc = "send"
        /\ rt'.pc \in {"write fault", "link"} /\ rt'.command = rt.command
    BY <1>8 DEF Send, TypeInv, TypeOK, LoopType, HandType
  <2> QED
    BY <2>1, <2>2, <2>3 DEF SendsFrame
<1>9. CASE HomingOver
  BY <1>9 DEF HomingOver, EndsHoming, TypeInv, TypeOK, LoopType, HandType
<1>10. CASE HomingState
  BY <1>10 DEF HomingState, EndsHoming, TypeInv, TypeOK, LoopType, HandType
<1>11. CASE LastQuickStops
  BY <1>11 DEF LastQuickStops, Dies, TypeInv, TypeOK, LoopType, CommsType, SeenType
<1> QED
  BY <1>1, <1>2, <1>3, <1>4, <1>5, <1>6, <1>7, <1>8, <1>9, <1>10, <1>11, CyclesTurn
  DEF CycleStep, FailureStep

(* and those of the recovery. *)
LEMMA RecoveriesDo ==
  ASSUME TypeInv, RecoveryStep
  PROVE  Turns \/ Reopens \/ Loses \/ Forgets \/ ForgetsTarget \/ Resumes
<1> USE DEF SameHand, SameRequest, SameTargets, SameHoming, InCycle
<1>1. CASE Reopen
  BY <1>1 DEF Reopen, Reopens, Opened, Unopened, NewSeen, TypeInv, TypeOK, LoopType, SeenType
<1>2. CASE ReopenFails
  BY <1>2 DEF ReopenFails, Loses, Closed, TypeInv, TypeOK, LoopType, CommsType
<1>3. CASE AwaitFrame
  <2>1. CASE env.up
    <3>1. SameLink
      BY <1>3, <2>1 DEF AwaitFrame, Received, SameLink, TypeInv, TypeOK, CommsType
    <3> QED
      BY <1>3, <2>1, <3>1 DEF AwaitFrame, Turns, SameUser, SameSeen, TypeInv, TypeOK, LoopType
  <2>2. CASE ~env.up
    BY <1>3, <2>2 DEF AwaitFrame, Loses, Closed, TypeInv, TypeOK, LoopType, CommsType
  <2> QED
    BY <2>1, <2>2
<1>4. CASE ForgetFault
  BY <1>4 DEF ForgetFault, ResetFaultState, Forgets, TypeInv, TypeOK, LoopType, HandType
<1>5. CASE ForgetCommand
  BY <1>5 DEF ForgetCommand, Stage, Staged, ForgetsTarget, TypeInv, TypeOK, LoopType, HandType, SeenType
<1>6. CASE Resume
  BY <1>6 DEF Resume, Request, Resumes, TypeInv, TypeOK, LoopType, HandType
<1> QED
  BY <1>1, <1>2, <1>3, <1>4, <1>5, <1>6, CyclesTurn DEF RecoveryStep
-----------------------------------------------------------------------------
(* A target that was voided stays off the wire *)

(* The next command the loop goes by is a target of the user. *)
TargetWaits == hand.buffered = "User" \/ (rt.command = "User" /\ hand.buffered = NothingBuffered)
NoTarget == hand.staged # "User" /\ ~TargetWaits

(* The call in progress is about to void the command. *)
Voiding ==
  user.pc \in {"void command", "run failed"} \/ (user.pc = "join" /\ user.goal = "reconnect")

(* Where Running is not requested no target waits, except for a call that   *)
(* is about to void it, or in a hand that is destroyed; connect() and       *)
(* disconnect() find none, or have voided it.                               *)
TargetsVoided ==
  /\ hand.requested # "Running" => hand.destroyed \/ Voiding \/ NoTarget
  /\ hand.destroyed =>
       \/ user.pc \in Procedures \cup {"idle"}
       \/ user.pc \in {"quiesce", "confirm stop", "leave", "join"} /\ user.goal = "close"
  /\ user.pc \in {"quiesce", "confirm stop", "leave", "join"} /\ user.goal = "close" => hand.destroyed
  /\ user.pc = "stage" => hand.requested = "Running"
  /\ user.pc = "first frame" => NoTarget
  /\ user.pc \in {"quiesce", "confirm stop", "leave", "join"} /\ user.goal \in {"connect", "disconnect"} =>
       NoTarget

(* A target that was voided waits at most until Running is requested again, *)
(* and the cycle that took it does not go by it.                            *)
StaysOff ==
  /\ seen.voided /\ comms.socket
  /\ rt.pc \notin {"none", "dead", "failed", "last words", "await frame", "forget fault", "forget command"}
  =>
  /\ TargetWaits => hand.requested # "Running" /\ rt.pc # "resume"
  /\ TargetWaits /\ rt.pc = "input" => rt.req # "Running"
  /\ rt.pc \in InTheMaking /\ rt.command = "User" =>
       rt.req # "Running" \/ (rt.pc = "send" /\ rt.latest # "Running")

(* A call keeps TargetsVoided, and so does the loop. *)
LEMMA TargetsVoidedInCall == ASSUME TypeInv, Requests, TargetsVoided, Call \/ InCall PROVE TargetsVoided'
<1> USE DEF TargetsVoided, TargetWaits, NoTarget, Voiding, SameHand, SameRequest, SameTargets, Staged, Procedures,
            NothingBuffered
<1>0. hand.staged # NothingBuffered /\ UserFits(user.pc, user.call, user.goal)
  BY DEF TypeInv, TypeOK, HandType, Commands, Labels
<1>1. CASE Passes
  BY <1>1 DEF Passes
<1>2. CASE Opens
  BY <1>2 DEF Opens
<1>3. CASE Reclosed
  BY <1>0, <1>3 DEF Reclosed, UserFits
<1>4. CASE Leaves
  BY <1>0, <1>4 DEF Leaves, UserFits
<1>5. CASE Joins
  BY <1>5 DEF Joins
<1>6. CASE Voids
  BY <1>6 DEF Voids, NothingBuffered
<1>7. CASE Closes
  BY <1>7 DEF Closes
<1>8. CASE AsksStop
  BY <1>0, <1>8 DEF AsksStop, UserFits
<1>9. CASE AsksRun
  BY <1>9 DEF AsksRun
<1>10. CASE AsksHoming
  BY <1>10 DEF AsksHoming
<1>11. CASE AsksTarget
  BY <1>11 DEF AsksTarget
<1> QED
  BY <1>1, <1>2, <1>3, <1>4, <1>5, <1>6, <1>7, <1>8, <1>9, <1>10, <1>11, CallsDo

(* The loop: only Resumes asks for Running, after ForgetsTarget. *)
LEMMA TargetsVoidedInLoop == ASSUME TypeInv, TargetsVoided, ControlLoop PROVE TargetsVoided'
<1> USE DEF TargetsVoided, TargetWaits, NoTarget, Voiding, SameHand, SameRequest, SameTargets, SameUser,
            Staged, NothingBuffered
<1>1. CASE Turns
  BY <1>1 DEF Turns
<1>2. CASE Heads
  BY <1>2 DEF Heads
<1>3. CASE Takes
  BY <1>3 DEF Takes
<1>4. CASE TakesHoming \/ StartsHoming
  BY <1>4 DEF TakesHoming, StartsHoming
<1>5. CASE Holds
  BY <1>5 DEF Holds
<1>6. CASE Rereads \/ SendsFrame
  BY <1>6 DEF Rereads, SendsFrame
<1>7. CASE EndsHoming \/ Dies
  BY <1>7 DEF EndsHoming, Dies
<1>8. CASE Reopens \/ Loses \/ Forgets
  BY <1>8 DEF Reopens, Loses, Forgets
<1>9. CASE ForgetsTarget
  BY <1>9 DEF ForgetsTarget
<1>10. CASE Resumes
  BY <1>10 DEF Resumes
<1> QED
  BY <1>1, <1>2, <1>3, <1>4, <1>5, <1>6, <1>7, <1>8, <1>9, <1>10, CyclesDo, RecoveriesDo DEF ControlLoop

(* Both threads keep StaysOff. *)
LEMMA StaysOffInCall ==
  ASSUME TypeInv, Requests, TargetsVoided, StaysOff, Call \/ InCall PROVE StaysOff'
<1> USE DEF StaysOff, TargetWaits, SameHand, SameRequest, SameTargets, Staged, InTheMaking
<1>1. CASE Passes
  BY <1>1 DEF Passes
<1>2. CASE Opens
  BY <1>2 DEF Opens, TargetsVoided, NoTarget, Voiding, Requests
<1>3. CASE Reclosed
  BY <1>3 DEF Reclosed
<1>4. CASE Leaves
  BY <1>4 DEF Leaves
<1>5. CASE Joins
  BY <1>5 DEF Joins
<1>6. CASE Voids
  BY <1>6 DEF Voids, NothingBuffered
<1>7. CASE Closes
  BY <1>7 DEF Closes
<1>8. CASE AsksStop
  BY <1>8 DEF AsksStop, SameSeen
<1>9. CASE AsksRun
  BY <1>9 DEF AsksRun, TargetsVoided, NoTarget, Voiding, Procedures
<1>10. CASE AsksHoming
  BY <1>10 DEF AsksHoming
<1>11. CASE AsksTarget
  BY <1>11 DEF AsksTarget
<1> QED
  BY <1>1, <1>2, <1>3, <1>4, <1>5, <1>6, <1>7, <1>8, <1>9, <1>10, <1>11, CallsDo

(* The loop takes a target only with the request that goes with it. *)
LEMMA StaysOffInLoop == ASSUME TypeInv, TargetsVoided, StaysOff, ControlLoop PROVE StaysOff'
<1> USE DEF StaysOff, TargetWaits, SameHand, SameRequest, SameTargets, SameUser, SameLink, SameSeen,
            Staged, NothingBuffered, InTheMaking
<1>1. CASE Turns
  BY <1>1 DEF Turns, Judging, Throwing, Recovering
<1>2. CASE Heads
  BY <1>2 DEF Heads
<1>3. CASE Takes
  BY <1>3 DEF Takes
<1>4. CASE TakesHoming \/ StartsHoming
  BY <1>4 DEF TakesHoming, StartsHoming
<1>5. CASE Holds
  BY <1>5 DEF Holds
<1>6. CASE Rereads \/ SendsFrame
  BY <1>6 DEF Rereads, SendsFrame
<1>7. CASE EndsHoming \/ Dies
  BY <1>7 DEF EndsHoming, Dies
<1>8. CASE Reopens \/ Loses \/ Forgets
  BY <1>8 DEF Reopens, Loses, Forgets
<1>9. CASE ForgetsTarget
  BY <1>9 DEF ForgetsTarget
<1>10. CASE Resumes
  BY <1>10 DEF Resumes
<1> QED
  BY <1>1, <1>2, <1>3, <1>4, <1>5, <1>6, <1>7, <1>8, <1>9, <1>10, CyclesDo, RecoveriesDo DEF ControlLoop

(* So no target waits where Running is not requested, *)
LEMMA AlwaysTargetsVoided == Spec => []TargetsVoided
<1>1. Init => TargetsVoided
  BY DEF Init, Fresh, FreshLoop, TargetsVoided, NoTarget, TargetWaits, Procedures
<1>2. TypeInv /\ Requests /\ TargetsVoided /\ [Next]_vars => TargetsVoided'
  <2> SUFFICES ASSUME TypeInv, Requests, TargetsVoided, [Next]_vars PROVE TargetsVoided'
    OBVIOUS
  <2>1. CASE LinkDown \/ LinkUp \/ UNCHANGED vars
    BY <2>1 DEF LinkDown, LinkUp, vars, TargetsVoided, NoTarget, TargetWaits, Voiding
  <2> QED
    BY <2>1, TargetsVoidedInCall, TargetsVoidedInLoop DEF Next
<1> QED
  BY <1>1, <1>2, Typed, Requested, PTL DEF Spec

(* and a target that was voided is not sent: the user has to set a new one. *)
THEOREM VoidedStaysOff == Spec => []VoidedCommandStaysOff
<1>1. Init => StaysOff
  BY DEF Init, Fresh, FreshLoop, Unopened, StaysOff
<1>2. TypeInv /\ Requests /\ TargetsVoided /\ StaysOff /\ [Next]_vars => StaysOff'
  <2> SUFFICES ASSUME TypeInv, Requests, TargetsVoided, StaysOff, [Next]_vars PROVE StaysOff'
    OBVIOUS
  <2>1. CASE LinkDown \/ LinkUp \/ UNCHANGED vars
    BY <2>1 DEF LinkDown, LinkUp, vars, StaysOff, TargetWaits
  <2> QED
    BY <2>1, StaysOffInCall, StaysOffInLoop DEF Next
<1>3. StaysOff => VoidedCommandStaysOff
  BY DEF StaysOff, VoidedCommandStaysOff, InCycle, FrameKind, QuickStop, InTheMaking
<1> QED
  BY <1>1, <1>2, <1>3, Typed, Requested, AlwaysTargetsVoided, PTL DEF Spec

-----------------------------------------------------------------------------
(* A homing was asked for on this link *)

(* A homing has been asked for and not been started. *)
Pending == hand.requestHoming \/ rt.pc = "start homing"

(* The first cycle of a link has yet to drop what is left of the last one;  *)
(* until then connect() waits for the first frame, or has given up.         *)
FirstCycle ==
  /\ \/ user.pc = "first frame" /\ ~hand.checkFirst /\ hand.requested = "Connected"
     \/ /\ user.pc \in {"leave", "join"} /\ user.goal = "connect"
        /\ hand.requested \in {"Connected", "Disconnected"}
  /\ rt.pc \in {"top", "input", "request", "start homing"} /\ rt.req # "Running"

(* A loop that is ending, or is reopening the link, takes no request up.     *)
Unasked == {"none", "dead", "failed", "last words", "reopen", "await frame", "forget fault"}

(* Outside that cycle, and the recovery that clears the request again, a    *)
(* homing that is asked for or runs was asked for on this link.             *)
Asked ==
  /\ comms.homing => seen.asked
  /\ Pending /\ comms.socket /\ rt.pc \notin Unasked => seen.asked \/ FirstCycle
  /\ rt.pc = "start homing" /\ hand.requestHoming => seen.asked

(* Both threads keep Asked. *)
LEMMA AskedInCall == ASSUME TypeInv, Requests, Asked, Call \/ InCall PROVE Asked'
<1> USE DEF Asked, Unasked, Pending, FirstCycle, SameHand, SameRequest, SameHoming
<1>1. CASE Passes
  BY <1>1 DEF Passes
<1>2. CASE Opens
  BY <1>2 DEF Opens
<1>3. CASE Reclosed
  BY <1>3 DEF Reclosed
<1>4. CASE Leaves
  BY <1>4 DEF Leaves
<1>5. CASE Joins
  BY <1>5 DEF Joins
<1>6. CASE Voids
  BY <1>6 DEF Voids
<1>7. CASE Closes
  BY <1>7 DEF Closes
<1>8. CASE AsksStop
  BY <1>8 DEF AsksStop, SameSeen
<1>9. CASE AsksRun
  BY <1>9 DEF AsksRun
<1>10. CASE AsksHoming
  BY <1>10 DEF AsksHoming
<1>11. CASE AsksTarget
  BY <1>11 DEF AsksTarget
<1> QED
  BY <1>1, <1>2, <1>3, <1>4, <1>5, <1>6, <1>7, <1>8, <1>9, <1>10, <1>11, CallsDo

(* The loop: its first cycle drops what it did not ask for. *)
LEMMA AskedInLoop == ASSUME TypeInv, Asked, ControlLoop PROVE Asked'
<1> USE DEF Asked, Unasked, Pending, FirstCycle, SameHand, SameRequest, SameHoming, SameUser, SameLink, SameSeen
<1>1. CASE Turns
  BY <1>1 DEF Turns, Judging, Throwing, Recovering
<1>2. CASE Heads
  BY <1>2 DEF Heads
<1>3. CASE Takes
  BY <1>3 DEF Takes
<1>4. CASE TakesHoming \/ StartsHoming
  BY <1>4 DEF TakesHoming, StartsHoming
<1>5. CASE Holds
  BY <1>5 DEF Holds
<1>6. CASE Rereads \/ SendsFrame
  BY <1>6 DEF Rereads, SendsFrame
<1>7. CASE EndsHoming \/ Dies
  BY <1>7 DEF EndsHoming, Dies
<1>8. CASE Reopens
  BY <1>8 DEF Reopens
<1>9. CASE Loses
  BY <1>9 DEF Loses
<1>10. CASE Forgets \/ ForgetsTarget \/ Resumes
  BY <1>10 DEF Forgets, ForgetsTarget, Resumes
<1> QED
  BY <1>1, <1>2, <1>3, <1>4, <1>5, <1>6, <1>7, <1>8, <1>9, <1>10, CyclesDo, RecoveriesDo DEF ControlLoop

(* The fingers are pushed to their stops only on request: what an earlier   *)
(* link left behind is dropped by the first cycle, or by the recovery.      *)
THEOREM HomingAsked == Spec => []HomingWasAsked
<1>1. Init => Asked
  BY DEF Init, Fresh, FreshLoop, Unopened, Asked, Pending
<1>2. TypeInv /\ Requests /\ Asked /\ [Next]_vars => Asked'
  <2> SUFFICES ASSUME TypeInv, Requests, Asked, [Next]_vars PROVE Asked'
    OBVIOUS
  <2>1. CASE LinkDown \/ LinkUp \/ UNCHANGED vars
    BY <2>1 DEF LinkDown, LinkUp, vars, Asked, Pending, FirstCycle
  <2> QED
    BY <2>1, AskedInCall, AskedInLoop DEF Next
<1>3. Asked => HomingWasAsked
  BY DEF Asked, HomingWasAsked
<1> QED
  BY <1>1, <1>2, <1>3, Typed, Requested, PTL DEF Spec

-----------------------------------------------------------------------------
(* The homing state speaks of this link *)

(* A homing that is being advanced has no verdict yet, so that its success  *)
(* is news of the frame that brings it.                                     *)
Unfinished == comms.homing => comms.outcome = "InProgress"

LEMMA AlwaysUnfinished == Spec => []Unfinished
<1>1. Init => Unfinished
  BY DEF Init, Unopened, Unfinished
<1>2. TypeInv /\ Requests /\ Unfinished /\ [Next]_vars => Unfinished'
  <2> SUFFICES ASSUME TypeInv, Requests, Unfinished, [Next]_vars PROVE Unfinished'
    OBVIOUS
  <2> USE DEF Unfinished
  <2>1. CASE LinkDown \/ LinkUp \/ UNCHANGED vars
    BY <2>1 DEF LinkDown, LinkUp, vars
  <2>2. CASE Call \/ InCall
    BY <2>2, CallsDo DEF Passes, Opens, Reclosed, Leaves, Joins, Voids, Closes, AsksStop, AsksRun,
                         AsksHoming, AsksTarget
  <2>3. CASE ControlLoop
    <3>1. CASE Turns \/ Heads \/ Takes \/ TakesHoming \/ StartsHoming \/ Holds \/ Rereads
      BY <3>1 DEF Turns, SameLink, Heads, Takes, TakesHoming, StartsHoming, Holds, Rereads
    <3>2. CASE SendsFrame \/ EndsHoming \/ Dies \/ Reopens \/ Loses \/ Forgets \/ ForgetsTarget \/ Resumes
      BY <3>2 DEF SendsFrame, EndsHoming, Dies, Reopens, Loses, Forgets, ForgetsTarget, Resumes
    <3> QED
      BY <2>3, <3>1, <3>2, CyclesDo, RecoveriesDo DEF ControlLoop
  <2> QED
    BY <2>1, <2>2, <2>3 DEF Next
<1> QED
  BY <1>1, <1>2, Typed, Requested, PTL DEF Spec

(* As long as the loop does not reopen the link on its own, what it knows   *)
(* of a homing that succeeded it has seen on this link, from the frame that *)
(* ended the sequence to the state that says so; and it holds a socket.     *)
Homed ==
  /\ hand.homing = "Succeeded" /\ comms.socket => seen.origin
  /\ hand.activeHoming /\ comms.outcome = "Succeeded" =>
       seen.origin /\ rt.pc \in Judging \cup {"homing over"}
  /\ rt.pc \in {"homing over", "homing state"} /\ comms.outcome = "Succeeded" => seen.origin
  /\ rt.pc # "none" => comms.socket
  /\ comms.homing => comms.outcome = "InProgress"
  /\ rt.pc \notin Recovering

(* Both threads keep Homed. *)
LEMMA HomedInCall == ASSUME TypeInv, Requests, Homed, Call \/ InCall PROVE Homed'
<1> USE DEF Homed, SameHand, SameHoming, Judging, Recovering
<1>1. CASE Passes
  BY <1>1 DEF Passes
<1>2. CASE Opens
  BY <1>2 DEF Opens
<1>3. CASE Reclosed
  BY <1>3 DEF Reclosed
<1>4. CASE Leaves
  BY <1>4 DEF Leaves
<1>5. CASE Joins
  BY <1>5 DEF Joins
<1>6. CASE Voids
  BY <1>6 DEF Voids
<1>7. CASE Closes
  BY <1>7 DEF Closes
<1>8. CASE AsksStop
  BY <1>8 DEF AsksStop, SameSeen
<1>9. CASE AsksRun
  BY <1>9 DEF AsksRun
<1>10. CASE AsksHoming
  BY <1>10 DEF AsksHoming
<1>11. CASE AsksTarget
  BY <1>11 DEF AsksTarget
<1> QED
  BY <1>1, <1>2, <1>3, <1>4, <1>5, <1>6, <1>7, <1>8, <1>9, <1>10, <1>11, CallsDo

(* The loop, which publishes what the sequence ended with. *)
LEMMA HomedInLoop == ASSUME ~AutoReconnect, TypeInv, Homed, ControlLoop PROVE Homed'
<1> USE DEF Homed, SameHand, SameHoming, SameLink, SameSeen, Judging, Recovering
<1>1. CASE Turns
  <2>1. rt.pc = "homed" => rt'.pc = IF HomingEnded THEN "homing over" ELSE "top"
    BY <1>1 DEF Turns, Throwing
  <2> QED
    BY <1>1, <2>1 DEF Turns, HomingEnded, Throwing
<1>2. CASE Heads
  BY <1>2 DEF Heads
<1>3. CASE Takes
  BY <1>3 DEF Takes
<1>4. CASE TakesHoming
  BY <1>4 DEF TakesHoming
<1>5. CASE StartsHoming
  BY <1>5 DEF StartsHoming
<1>6. CASE Holds
  BY <1>6 DEF Holds
<1>7. CASE Rereads
  BY <1>7 DEF Rereads
<1>8. CASE SendsFrame
  BY <1>8 DEF SendsFrame
<1>9. CASE EndsHoming
  BY <1>9 DEF EndsHoming
<1>10. CASE Dies
  BY <1>10 DEF Dies
<1>11. CASE Reopens \/ Loses \/ Forgets \/ ForgetsTarget \/ Resumes
  BY <1>11 DEF Reopens, Loses, Forgets, ForgetsTarget, Resumes
<1> QED
  BY <1>1, <1>2, <1>3, <1>4, <1>5, <1>6, <1>7, <1>8, <1>9, <1>10, <1>11, CyclesDo, RecoveriesDo DEF ControlLoop

(* Without recovery by the loop Homed always holds, *)
LEMMA AlwaysHomed == ~AutoReconnect => (Spec => []Homed)
<1> SUFFICES ASSUME ~AutoReconnect PROVE Spec => []Homed
  OBVIOUS
<1>1. Init => Homed
  BY DEF Init, Fresh, FreshLoop, Unopened, Homed, Recovering
<1>2. TypeInv /\ Requests /\ Homed /\ [Next]_vars => Homed'
  <2> SUFFICES ASSUME TypeInv, Requests, Homed, [Next]_vars PROVE Homed'
    OBVIOUS
  <2>1. CASE LinkDown \/ LinkUp \/ UNCHANGED vars
    BY <2>1 DEF LinkDown, LinkUp, vars, Homed
  <2> QED
    BY <2>1, HomedInCall, HomedInLoop DEF Next
<1> QED
  BY <1>1, <1>2, Typed, Requested, PTL DEF Spec

(* A loop that recovers may be without a socket, and may then take the      *)
(* verdict of an earlier link for that of a homing it could not start; but  *)
(* it publishes it before it opens the next, and forgets it there.          *)
HomedSince ==
  /\ HomedOnThisLink
  /\ hand.activeHoming /\ comms.outcome = "Succeeded" =>
       \/ rt.pc \in Judging \cup {"homing over"} /\ (comms.socket => seen.origin)
       \/ rt.pc \in InTheMaking \ {"request", "start homing"} /\ ~comms.socket
  /\ rt.pc \in {"homing over", "homing state"} /\ comms.outcome = "Succeeded" /\ comms.socket => seen.origin

(* Both threads keep HomedSince, *)
LEMMA HomedSinceInCall == ASSUME TypeInv, Requests, HomedSince, Call \/ InCall PROVE HomedSince'
<1> USE DEF HomedSince, HomedOnThisLink, SameHand, SameHoming, Judging, InTheMaking
<1>1. CASE Passes
  BY <1>1 DEF Passes
<1>2. CASE Opens
  BY <1>2 DEF Opens
<1>3. CASE Reclosed
  BY <1>3 DEF Reclosed
<1>4. CASE Leaves
  BY <1>4 DEF Leaves
<1>5. CASE Joins
  BY <1>5 DEF Joins
<1>6. CASE Voids
  BY <1>6 DEF Voids
<1>7. CASE Closes
  BY <1>7 DEF Closes
<1>8. CASE AsksStop
  BY <1>8 DEF AsksStop, SameSeen
<1>9. CASE AsksRun
  BY <1>9 DEF AsksRun
<1>10. CASE AsksHoming
  BY <1>10 DEF AsksHoming
<1>11. CASE AsksTarget
  BY <1>11 DEF AsksTarget
<1> QED
  BY <1>1, <1>2, <1>3, <1>4, <1>5, <1>6, <1>7, <1>8, <1>9, <1>10, <1>11, CallsDo

(* the loop unless it throws in the cycle of such a homing.                 *)
LEMMA HomedSinceInLoop ==
  ASSUME ~LoopMayThrow, TypeInv, Unfinished, HomedSince, ControlLoop PROVE HomedSince'
<1> USE DEF HomedSince, HomedOnThisLink, Unfinished, SameHand, SameHoming, SameLink, SameSeen, Judging, InTheMaking
<1>1. CASE Turns
  <2>1. rt.pc = "homed" => rt'.pc = IF HomingEnded THEN "homing over" ELSE "top"
    BY <1>1 DEF Turns
  <2> QED
    BY <1>1, <2>1 DEF Turns, HomingEnded
<1>2. CASE Heads
  BY <1>2 DEF Heads
<1>3. CASE Takes
  BY <1>3 DEF Takes
<1>4. CASE TakesHoming
  BY <1>4 DEF TakesHoming
<1>5. CASE StartsHoming
  BY <1>5 DEF StartsHoming
<1>6. CASE Holds
  BY <1>6 DEF Holds
<1>7. CASE Rereads
  BY <1>7 DEF Rereads
<1>8. CASE SendsFrame
  BY <1>8 DEF SendsFrame
<1>9. CASE EndsHoming
  BY <1>9 DEF EndsHoming
<1>10. CASE Dies
  BY <1>10 DEF Dies
<1>11. CASE Reopens \/ Loses \/ Forgets
  BY <1>11 DEF Reopens, Loses, Forgets
<1>12. CASE ForgetsTarget \/ Resumes
  BY <1>12 DEF ForgetsTarget, Resumes
<1> QED
  BY <1>1, <1>2, <1>3, <1>4, <1>5, <1>6, <1>7, <1>8, <1>9, <1>10, <1>11, <1>12, CyclesDo, RecoveriesDo
  DEF ControlLoop

(* The success of an earlier session does not survive in a new one, whether *)
(* the user opens it or the loop, as long as a loop that recovers does not  *)
(* throw as well.                                                           *)
THEOREM HomedHere == (AutoReconnect => ~LoopMayThrow) => (Spec => []HomedOnThisLink)
<1>1. ASSUME ~AutoReconnect PROVE Spec => []HomedOnThisLink
  <2>1. Homed => HomedOnThisLink
    BY DEF Homed, HomedOnThisLink
  <2> QED
    BY <1>1, <2>1, AlwaysHomed, PTL
<1>2. ASSUME ~LoopMayThrow PROVE Spec => []HomedOnThisLink
  <2>1. Init => HomedSince
    BY DEF Init, Fresh, FreshLoop, Unopened, HomedSince, HomedOnThisLink
  <2>2. TypeInv /\ Requests /\ Unfinished /\ HomedSince /\ [Next]_vars => HomedSince'
    <3> SUFFICES ASSUME TypeInv, Requests, Unfinished, HomedSince, [Next]_vars PROVE HomedSince'
      OBVIOUS
    <3>1. CASE LinkDown \/ LinkUp \/ UNCHANGED vars
      BY <3>1 DEF LinkDown, LinkUp, vars, HomedSince, HomedOnThisLink
    <3> QED
      BY <1>2, <3>1, HomedSinceInCall, HomedSinceInLoop DEF Next
  <2>3. HomedSince => HomedOnThisLink
    BY DEF HomedSince
  <2> QED
    BY <2>1, <2>2, <2>3, Typed, Requested, AlwaysUnfinished, PTL DEF Spec
<1> QED
  BY <1>1, <1>2

-----------------------------------------------------------------------------
(* One control loop at a time *)

(* connect() gets to starting a thread only when no earlier one is left to  *)
(* be joined: a loop that does not recover on its own keeps its socket,     *)
(* which Homed says of it, and with that socket open there is no way to the *)
(* second thread, whatever connect() made of its loads.                     *)
THEOREM OneLoop == ~AutoReconnect => (Spec => []OneControlLoop)
<1>1. Homed => OneControlLoop
  BY DEF Homed, OneControlLoop
<1> QED
  BY <1>1, AlwaysHomed, PTL

-----------------------------------------------------------------------------
(* A target needs a homing *)

(* Wherever a target of the user is, a homing has finished on this link:    *)
(* set_command() asks for the homing state, and a new link finds no target  *)
(* left.  Without a link nothing but a connection, or its end, is asked     *)
(* for, and no call is past the table that refuses it.                      *)
Targets ==
  /\ hand.staged = "User" \/ hand.buffered = "User" \/ rt.command = "User" \/ user.pc = "stage" => seen.origin
  /\ ~comms.socket =>
       /\ hand.requested = "Disconnected"
       /\ user.pc \in Procedures \cup Opening \cup {"idle", "quiesce", "leave", "join", "terminated"}
  /\ user.pc = "join" => hand.requested = "Disconnected"
  /\ rt.pc = "none" => rt.command = "Idle"

(* Both threads keep Targets. *)
LEMMA TargetsInCall ==
  ASSUME TypeInv, Requests, TargetsVoided, Homed, Targets, Call \/ InCall PROVE Targets'
<1> USE DEF Targets, SameHand, SameRequest, SameTargets, Staged, Procedures, Opening
<1>1. CASE Passes
  BY <1>1 DEF Passes, Homed
<1>2. CASE Opens
  BY <1>2 DEF Opens, TargetsVoided, NoTarget, Voiding
<1>3. CASE Reclosed
  BY <1>3 DEF Reclosed, TargetsVoided, NoTarget, Voiding
<1>4. CASE Leaves
  BY <1>4 DEF Leaves
<1>5. CASE Joins
  BY <1>5 DEF Joins
<1>6. CASE Voids
  BY <1>6 DEF Voids
<1>7. CASE Closes
  BY <1>7 DEF Closes
<1>8. CASE AsksStop
  BY <1>8 DEF AsksStop, SameSeen
<1>9. CASE AsksRun
  BY <1>9 DEF AsksRun
<1>10. CASE AsksHoming
  BY <1>10 DEF AsksHoming
<1>11. CASE AsksTarget
  BY <1>11 DEF AsksTarget
<1> QED
  BY <1>1, <1>2, <1>3, <1>4, <1>5, <1>6, <1>7, <1>8, <1>9, <1>10, <1>11, CallsDo

(* The loop, which only moves a target that is there. *)
LEMMA TargetsInLoop == ASSUME TypeInv, Homed, Targets, ControlLoop PROVE Targets'
<1> USE DEF Targets, SameHand, SameRequest, SameTargets, Staged, SameUser, SameLink, SameSeen, NothingBuffered
<1>0. rt.pc \notin Recovering
  BY DEF Homed
<1>1. CASE Turns
  BY <1>0, <1>1 DEF Turns, Judging, Recovering
<1>2. CASE Heads
  BY <1>2 DEF Heads
<1>3. CASE Takes
  BY <1>3 DEF Takes
<1>4. CASE TakesHoming \/ StartsHoming
  BY <1>4 DEF TakesHoming, StartsHoming
<1>5. CASE Holds
  BY <1>5 DEF Holds
<1>6. CASE Rereads \/ SendsFrame
  BY <1>6 DEF Rereads, SendsFrame
<1>7. CASE EndsHoming \/ Dies
  BY <1>7 DEF EndsHoming, Dies
<1>8. CASE Reopens \/ Loses \/ Forgets \/ ForgetsTarget \/ Resumes
  BY <1>0, <1>8 DEF Reopens, Loses, Forgets, ForgetsTarget, Resumes, Recovering
<1> QED
  BY <1>1, <1>2, <1>3, <1>4, <1>5, <1>6, <1>7, <1>8, CyclesDo, RecoveriesDo DEF ControlLoop

(* Without recovery by the loop Targets always holds, *)
LEMMA AlwaysTargets == ~AutoReconnect => (Spec => []Targets)
<1> SUFFICES ASSUME ~AutoReconnect PROVE Spec => []Targets
  OBVIOUS
<1>1. Init => Targets
  BY DEF Init, Fresh, FreshLoop, Unopened, Targets
<1>2. TypeInv /\ Requests /\ TargetsVoided /\ Homed /\ Targets /\ [Next]_vars => Targets'
  <2> SUFFICES ASSUME TypeInv, Requests, TargetsVoided, Homed, Targets, [Next]_vars PROVE Targets'
    OBVIOUS
  <2>1. CASE LinkDown \/ LinkUp \/ UNCHANGED vars
    BY <2>1 DEF LinkDown, LinkUp, vars, Targets
  <2> QED
    BY <2>1, TargetsInCall, TargetsInLoop DEF Next
<1> QED
  BY <1>1, <1>2, Typed, Requested, AlwaysTargetsVoided, AlwaysHomed, PTL DEF Spec

(* and no target goes out before a homing.                                  *)
THEOREM TargetsAfterHoming == ~AutoReconnect => (Spec => []TargetsNeedOrigin)
<1> SUFFICES ASSUME ~AutoReconnect PROVE Spec => []TargetsNeedOrigin
  OBVIOUS
<1>1. Targets => TargetsNeedOrigin
  BY DEF Targets, TargetsNeedOrigin, FrameKind
<1> QED
  BY <1>1, AlwaysTargets, PTL

-----------------------------------------------------------------------------
(* What the bus shows is what was asked for *)

(* No frame is about to go out but at the label "send", *)
LEMMA NoFrameElsewhere ==
  /\ rt.pc # "send" \/ ~comms.socket => NextFrame = "none"
  /\ rt'.pc # "send" \/ ~comms'.socket => NextFrame' = "none"
  BY DEF NextFrame, InCycle

(* which leaves it as it is when neither the loop nor the link is touched.  *)
LEMMA FrameStays == UNCHANGED <<comms, rt>> => NextFrame' = NextFrame
  BY DEF NextFrame, InCycle, FrameKind, QuickStop

(* A call asks for something, opens a link, or does nothing of note, *)
LEMMA CallsAsk ==
  ASSUME TypeInv, TypeInv', Requests, TargetsVoided, AutoReconnect \/ Targets, Call \/ InCall
  PROVE  Wire!Step
<1> USE DEF SameHand, SameRequest, SameSeen
<1>1. hand'.requested \in {"Disconnected", "Connected", "Running", "Stopped"}
  BY DEF TypeInv, TypeOK, HandType, Lifecycle
<1>2. CASE Passes \/ Leaves \/ Voids \/ Closes \/ AsksStop \/ AsksRun
  <2>1. NextFrame' = NextFrame
    BY <1>2, FrameStays DEF Passes, Leaves, Voids, Closes, AsksStop, AsksRun
  <2>2. seen'.origin = seen.origin /\ seen'.asked = seen.asked /\ seen'.voided = seen.voided
    BY <1>2 DEF Passes, Leaves, Voids, Closes, AsksStop, AsksRun
  <2> QED
    BY <1>1, <2>1, <2>2 DEF Wire!Step, Wire!Asks
<1>3. CASE Opens \/ Reclosed
  <2>1. NextFrame = "none" /\ NextFrame' = "none"
    BY <1>3, NoFrameElsewhere DEF Opens, Reclosed
  <2>2. ~seen'.origin /\ ~seen'.asked /\ seen'.voided /\ hand'.requested \in {"Connected", "Disconnected"}
    BY <1>3 DEF Opens, Reclosed, NewSeen
  <2>3. seen'.origin = FALSE /\ seen'.asked = FALSE /\ seen'.voided = TRUE
    BY <2>2 DEF TypeInv, TypeOK, SeenType
  <2> QED
    BY <2>1, <2>2, <2>3 DEF Wire!Step, Wire!OpensLink
<1>4. CASE Joins
  <2>1. NextFrame = "none" /\ NextFrame' = "none"
    BY <1>4, NoFrameElsewhere DEF Joins
  <2> QED
    BY <1>4, <2>1 DEF Joins, Wire!Step
<1>5. CASE AsksHoming
  <2>1. seen'.asked = TRUE
    BY <1>5 DEF AsksHoming, TypeInv, TypeOK, SeenType
  <2> QED
    BY <1>5, <2>1, FrameStays DEF AsksHoming, Wire!Step, Wire!AsksForHoming
<1>6. CASE AsksTarget
  <2>1. seen'.voided = FALSE
    BY <1>6 DEF AsksTarget, TypeInv, TypeOK, SeenType
  <2>2. hand.requested = "Running" /\ (~AutoReconnect => seen.origin)
    BY <1>6 DEF AsksTarget, TargetsVoided, Targets
  <2> QED
    BY <1>6, <2>1, <2>2, FrameStays DEF AsksTarget, Wire!Step, Wire!AsksForTarget
<1> QED
  BY <1>2, <1>3, <1>4, <1>5, <1>6, CallsDo

(* A frame is made when the loop has read the request again: its kind is    *)
(* that of the request, of the homing, or of the command.                   *)
LEMMA FrameIsMade ==
  ASSUME TypeInv, TypeInv', Rereads, HomingWasAsked', VoidedCommandStaysOff', AutoReconnect \/ TargetsNeedOrigin'
  PROVE  Wire!Step
<1>1. /\ NextFrame = "none"
      /\ hand'.requested = hand.requested /\ seen' = seen
      /\ rt'.pc = "send" /\ rt'.latest = hand.requested
  BY NoFrameElsewhere DEF Rereads, SameHand, SameRequest
<1>2. CASE ~comms'.socket
  BY <1>1, <1>2, NoFrameElsewhere DEF Wire!Step
<1>3. CASE comms'.socket
  <2>1. NextFrame' = IF hand.requested # "Running" THEN "Stop" ELSE FrameKind'
    BY <1>1, <1>3 DEF NextFrame, InCycle, FrameKind, QuickStop
  <2>2. FrameKind' \in {"QuickStop", "Homing", "Idle", "Hold", "HomeHold", "User"}
    BY DEF FrameKind, TypeInv, TypeOK, LoopType, Commands
  <2>3. /\ FrameKind' = "Homing" => seen'.asked
        /\ FrameKind' = "User" => ~seen'.voided /\ (~AutoReconnect => seen'.origin)
    <3>1. FrameKind' = "Homing" => comms'.homing
      BY DEF FrameKind, TypeInv, TypeOK, LoopType, Commands
    <3> QED
      BY <1>1, <1>3, <3>1 DEF HomingWasAsked, VoidedCommandStaysOff, TargetsNeedOrigin, InCycle
  <2> DEFINE kind == NextFrame'
  <2>4. kind \in Wire!Stops \cup Wire!Moves
    BY <2>1, <2>2 DEF Wire!Stops, Wire!Moves
  <2>5. Wire!Makes(kind)
    BY <1>1, <2>1, <2>2, <2>3 DEF Wire!Makes
  <2> QED
    BY <2>4, <2>5 DEF Wire!Step
<1> QED
  BY <1>2, <1>3

(* It goes out with the next step, if there is a socket: the first stop     *)
(* that does voids the target, and only a homing frame can end a homing.    *)
LEMMA FrameGoesOut == ASSUME TypeInv, TypeInv', Unfinished, SendsFrame PROVE Wire!Step
<1>1. /\ NextFrame' = "none" /\ rt.pc = "send" /\ hand'.requested = hand.requested /\ seen'.asked = seen.asked
      /\ seen'.voided = (seen.voided \/ (rt.latest # "Running" /\ hand.requested # "Running"))
      /\ seen'.origin = (seen.origin \/ (comms.homing /\ comms'.outcome = "Succeeded"))
      /\ comms.homing /\ comms'.outcome = "Succeeded" => comms.socket /\ ~QuickStop
  BY NoFrameElsewhere DEF SendsFrame, SameHand, SameRequest, Unfinished
<1>2. seen.origin \in BOOLEAN /\ seen'.origin \in BOOLEAN /\ seen.voided \in BOOLEAN /\ seen'.voided \in BOOLEAN
  BY DEF TypeInv, TypeOK, SeenType
<1>3. CASE comms.socket
  <2>1. /\ NextFrame # "none"
        /\ NextFrame = "Stop" <=> rt.latest # "Running"
        /\ comms.homing /\ ~QuickStop => NextFrame = "Homing"
    BY <1>1, <1>3 DEF NextFrame, InCycle, FrameKind, QuickStop, TypeInv, TypeOK, LoopType, Commands
  <2>2. seen'.voided = (seen.voided \/ (NextFrame = "Stop" /\ hand.requested # "Running"))
    BY <1>1, <2>1
  <2>3. seen'.origin \in IF NextFrame = "Homing" THEN {seen.origin, TRUE} ELSE {seen.origin}
    <3>1. CASE comms.homing /\ comms'.outcome = "Succeeded"
      BY <1>1, <1>2, <2>1, <3>1
    <3>2. CASE ~(comms.homing /\ comms'.outcome = "Succeeded")
      BY <1>1, <1>2, <3>2
    <3> QED
      BY <3>1, <3>2
  <2> QED
    BY <1>1, <2>1, <2>2, <2>3 DEF Wire!Step, Wire!GoesOut
<1>4. CASE ~comms.socket
  <2>1. NextFrame = "none" /\ seen'.origin = seen.origin
    BY <1>1, <1>2, <1>4, NoFrameElsewhere
  <2>2. seen'.voided = seen.voided \/ seen'.voided = TRUE
    <3>1. CASE seen'.voided
      BY <1>2, <3>1
    <3>2. CASE ~seen'.voided
      BY <1>1, <1>2, <3>2
    <3> QED
      BY <3>1, <3>2
  <2> QED
    BY <1>1, <2>1, <2>2 DEF Wire!Step, Wire!EndsLoop
<1> QED
  BY <1>3, <1>4

(* The other steps of the loop ask for Running, or open a link again.       *)
LEMMA LoopKeepsToIt ==
  ASSUME TypeInv, TypeInv', Unfinished, ControlLoop,
         HomingWasAsked', VoidedCommandStaysOff', AutoReconnect \/ TargetsNeedOrigin'
  PROVE  Wire!Step
<1> USE DEF SameHand, SameRequest, SameSeen
<1>1. CASE Rereads
  BY <1>1, FrameIsMade
<1>2. CASE SendsFrame
  BY <1>2, FrameGoesOut
<1>3. CASE Turns \/ Heads \/ Takes \/ TakesHoming \/ StartsHoming \/ Holds \/ EndsHoming \/ Loses \/ Forgets
  <2>1. rt.pc # "send" /\ rt'.pc # "send"
    BY <1>3 DEF Turns, Judging, Throwing, Recovering, Heads, Takes, TakesHoming, StartsHoming, Holds, EndsHoming,
                Loses, Forgets
  <2>2. /\ hand'.requested = hand.requested
        /\ seen'.origin = seen.origin /\ seen'.asked = seen.asked /\ seen'.voided = seen.voided
    BY <1>3 DEF Turns, Heads, Takes, TakesHoming, StartsHoming, Holds, EndsHoming, Loses, Forgets
  <2> QED
    BY <2>1, <2>2, NoFrameElsewhere DEF Wire!Step
<1>4. CASE Dies
  <2>1. seen'.voided = TRUE
    BY <1>4 DEF Dies, TypeInv, TypeOK, SeenType
  <2> QED
    BY <1>4, <2>1, NoFrameElsewhere DEF Dies, Wire!Step, Wire!EndsLoop
<1>5. CASE Reopens
  <2>1. seen'.origin = FALSE /\ seen'.asked = FALSE /\ seen'.voided = TRUE
    BY <1>5 DEF Reopens, NewSeen, TypeInv, TypeOK, SeenType
  <2> QED
    BY <1>5, <2>1, NoFrameElsewhere DEF Reopens, Wire!Step, Wire!OpensLink
<1>6. CASE ForgetsTarget
  <2>1. seen'.asked = seen.asked \/ seen'.asked = TRUE
    <3>1. seen.asked \in BOOLEAN /\ seen'.asked \in BOOLEAN
      BY DEF TypeInv, TypeOK, SeenType
    <3>2. CASE seen'.asked
      BY <3>1, <3>2
    <3>3. CASE ~seen'.asked
      BY <1>6, <3>1, <3>3 DEF ForgetsTarget
    <3> QED
      BY <3>2, <3>3
  <2> QED
    BY <1>6, <2>1, NoFrameElsewhere DEF ForgetsTarget, Wire!Step, Wire!AsksForHoming
<1>7. CASE Resumes
  BY <1>7, NoFrameElsewhere DEF Resumes, Wire!Step, Wire!Asks
<1> QED
  BY <1>1, <1>2, <1>3, <1>4, <1>5, <1>6, <1>7, CyclesDo, RecoveriesDo DEF ControlLoop

(* What the bus shows of the hand keeps to WireContract: the first frame    *)
(* made after a stop is asked for is the stop, a fault leaves nothing but   *)
(* quick stops, and a homing or a target goes out only where it was asked   *)
(* for, and not voided, on this link.  A target needs a homing on it unless *)
(* the loop recovers on its own.                                            *)
THEOREM KeepsToTheWireContract == Spec => ImplementsWireContract
<1>1. Init => Wire!Init
  BY DEF Init, Fresh, FreshLoop, Unopened, Wire!Init, NextFrame, InCycle, FaultObserved
<1>2. Spec => [](AutoReconnect \/ Targets)
  <2>1. CASE AutoReconnect
    <3>1. AutoReconnect \/ Targets
      BY <2>1
    <3> QED
      BY <3>1, PTL
  <2>2. CASE ~AutoReconnect
    <3>1. Targets => AutoReconnect \/ Targets
      OBVIOUS
    <3> QED
      BY <2>2, <3>1, AlwaysTargets, PTL
  <2> QED
    BY <2>1, <2>2
<1>3. Spec => [](AutoReconnect \/ TargetsNeedOrigin)
  <2>1. AutoReconnect \/ Targets => AutoReconnect \/ TargetsNeedOrigin
    BY DEF Targets, TargetsNeedOrigin, FrameKind
  <2> QED
    BY <1>2, <2>1, PTL
<1>4. ASSUME TypeInv, TypeInv', Requests, TargetsVoided, Unfinished, AutoReconnect \/ Targets,
             (AutoReconnect \/ TargetsNeedOrigin)', HomingWasAsked', VoidedCommandStaysOff', FaultQuickStops',
             [Next]_vars
      PROVE  [Wire!Next]_(Wire!vars)
  <2>1. CASE LinkDown \/ LinkUp \/ UNCHANGED vars
    <3>1. UNCHANGED <<hand, comms, rt, seen>>
      BY <2>1 DEF LinkDown, LinkUp, vars
    <3> QED
      BY <3>1, FrameStays DEF Wire!vars, FaultObserved
  <2>2. CASE Call \/ InCall \/ ControlLoop
    <3>1. Wire!Step
      BY <1>4, <2>2, CallsAsk, LoopKeepsToIt
    <3>2. FaultObserved' => NextFrame' \notin Wire!Moves
      BY <1>4 DEF FaultObserved, FaultQuickStops, NextFrame, InCycle, Wire!Moves
    <3> QED
      BY <3>1, <3>2 DEF Wire!Next, FaultObserved
  <2> QED
    BY <1>4, <2>1, <2>2 DEF Next
<1> QED
  BY <1>1, <1>2, <1>3, <1>4, Typed, Requested, AlwaysTargetsVoided, AlwaysUnfinished, HomingAsked,
     VoidedStaysOff, FaultIsQuickStopped, PTL
  DEF Spec, ImplementsWireContract, Wire!Spec

=============================================================================
