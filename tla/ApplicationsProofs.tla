------------------------- MODULE ApplicationsProofs -------------------------
(***************************************************************************)
(* For any set of examples and of verbs, however often the cable is pulled *)
(* and the drives do not follow: however main() of an example ends,        *)
(* nothing is powered behind it, and an example that teaches an order of   *)
(* calls is never told that its order is wrong.                            *)
(*                                                                         *)
(* The first argument is about the hand alone; of a script it needs only   *)
(* that every item is a call of the hand or none.  The second annotates    *)
(* every script with the stages of the lifecycle it passes (Path), built   *)
(* up item by item and loop by loop, and shows that the hand is in the     *)
(* stage in front of the item that is next, or in a call that leads to the *)
(* stage behind it.                                                        *)
(***************************************************************************)
EXTENDS Applications, SequenceTheorems, TLAPS

Callable == DOMAIN ActionOf \cup Unchecked

-----------------------------------------------------------------------------
(* The invariant.                                                          *)

HandRecord ==
  [requested : Lifecycle \ {"Faulted"}, observed : Lifecycle,
   homing : {"NotRun", "InProgress", "Succeeded", "Failed"},
   homingRuns : BOOLEAN, result : BOOLEAN, publishing : {"-", "Succeeded", "Failed"}, comm : BOOLEAN,
   loop : {"up", "silent", "trying", "closed", "gone"}, powered : BOOLEAN, hurt : BOOLEAN, destroyed : BOOLEAN,
   call : Waits \cup {"none"}, code : ErrorCodes \cup {"-"}, early : BOOLEAN,
   autoHome : BOOLEAN, autoReconnect : BOOLEAN]

(* Behind the destructor only its own waits are left, and behind those the *)
(* link is closed and the loop is gone that could open it again.           *)
Closing(h) ==
  /\ h.destroyed => h.call \in {"none", "destroy", "join"}
  /\ h.destroyed /\ h.call = "none" => h.observed = "Disconnected" /\ h.loop = "gone"

(* While nothing has gone wrong no drive holds torque but in Running, no   *)
(* call that opens or closes the link finds it there, and a confirmation   *)
(* stores what is so already.                                              *)
Unhurt(h) ==
  ~h.hurt =>
    /\ h.observed # "Faulted"
    /\ h.loop # "trying"
    /\ h.call # "reconnect"
    /\ h.call = "run" => h.requested = "Running"
    /\ h.call = "connected" => h.requested = "Connected" /\ h.observed = "Connected"
    /\ h.call = "running" => h.requested = "Running" /\ h.observed = "Running"
    /\ h.call = "connect" => h.requested \in {"Disconnected", "Connected"}
    /\ h.call = "join" => h.requested = "Disconnected"
    /\ h.powered => /\ h.observed = "Running"
                    /\ h.requested \in {"Running", "Stopped"}
                    /\ h.call \notin {"connect", "connected", "join"}

Safe(h) == h \in HandRecord /\ Closing(h) /\ Unhurt(h)

Kinds == {"must", "demo", "try", "count", "forever", "again", "attempt", "switch", "keys", "serve"}
Items == [kind : Kinds, call : Callable \cup {"none"}, n : Nat]
Scripts == {s \in Seq(Items) : \A i \in 1 .. Len(s) : s[i].kind = "again" => s[i].n < i}

Reading ==
  /\ app \in [name : DOMAIN Script, at : Nat \ {0}, shutdown : BOOLEAN, attempts : Nat, exit : {"-", "0", "1"}]
  /\ wire \in [client : {"none", "on", "gone"}, fd : BOOLEAN, lines : Seq(Verbs \cup {"quit"}),
               shown : {Unknown} \cup (Lifecycle \X {"NotRun", "InProgress", "Succeeded", "Failed"})]

IInv == Safe(hand) /\ Reading

-----------------------------------------------------------------------------
(* The scripts.                                                            *)

(* One item. *)
LEMMA OneItem ==
  ASSUME NEW c \in Callable, NEW n \in Nat, NEW kind \in Kinds \ {"again"}
  PROVE  Must(c) \in Scripts /\ Demo(c) \in Scripts /\ Try(c, n) \in Scripts /\ Control(kind, n) \in Scripts
<1> SUFFICES ASSUME NEW i \in Items, i.kind # "again" PROVE <<i>> \in Scripts
  <2>1. [kind |-> "must", call |-> c, n |-> 0] \in Items /\ [kind |-> "demo", call |-> c, n |-> 0] \in Items
    BY DEF Items, Kinds
  <2>2. [kind |-> "try", call |-> c, n |-> n] \in Items /\ [kind |-> kind, call |-> "none", n |-> n] \in Items
    BY DEF Items, Kinds
  <2> QED
    BY <2>1, <2>2 DEF Must, Demo, Try, Control
<1> QED
  BY DEF Scripts

(* One script after the other. *)
LEMMA Joined == \A s, t \in Scripts : s \o t \in Scripts
<1> SUFFICES ASSUME NEW s \in Scripts, NEW t \in Scripts PROVE s \o t \in Scripts
  OBVIOUS
<1>1. s \in Seq(Items) /\ t \in Seq(Items) /\ s \o t \in Seq(Items) /\ Len(s \o t) = Len(s) + Len(t)
  BY ConcatProperties DEF Scripts
<1>2. \A i \in 1 .. Len(s \o t) : (s \o t)[i].kind = "again" => (s \o t)[i].n < i
  <2> SUFFICES ASSUME NEW i \in 1 .. Len(s \o t), (s \o t)[i].kind = "again" PROVE (s \o t)[i].n < i
    OBVIOUS
  <2>1. Len(s) \in Nat /\ Len(t) \in Nat
    BY <1>1
  <2>2. CASE i <= Len(s)
    BY <1>1, <2>1, <2>2 DEF Scripts
  <2>3. CASE i > Len(s)
    <3>1. (s \o t)[i] = t[i - Len(s)] /\ i - Len(s) \in 1 .. Len(t)
      BY <1>1, <2>1, <2>3
    <3>2. t[i - Len(s)] \in Items
      BY <1>1, <3>1, ElementOfSeq
    <3>3. t[i - Len(s)].n \in Nat
      BY <3>2 DEF Items
    <3>4. t[i - Len(s)].n < i - Len(s)
      BY <3>1 DEF Scripts
    <3> QED
      BY <2>1, <3>1, <3>3, <3>4
  <2> QED
    BY <2>1, <2>2, <2>3
<1> QED
  BY <1>1, <1>2 DEF Scripts

(* A loop: its end goes back to its head. *)
LEMMA Looped ==
  ASSUME NEW body \in Scripts PROVE Count(body) \in Scripts /\ Forever(body) \in Scripts
<1> SUFFICES ASSUME NEW kind \in Kinds \ {"again"} PROVE Loop(kind, body) \in Scripts
  BY DEF Count, Forever, Kinds
<1> DEFINE n == Len(body) + 1
           head == Control(kind, n) \o body
           last == [kind |-> "again", call |-> "none", n |-> n]
<1>1. body \in Seq(Items) /\ n \in Nat \ {0}
  BY DEF Scripts
<1>2. head \in Scripts /\ head \in Seq(Items)
  <2>1. "connect" \in Callable
    BY DEF Callable, ActionOf
  <2> QED
    BY <1>1, <2>1, OneItem, Joined DEF Scripts
<1>3. Len(head) = n
  BY <1>1 DEF Control
<1>4. last \in Items
  BY <1>1 DEF Items, Kinds
<1>5. Loop(kind, body) = head \o <<last>>
  BY DEF Loop, Control
<1>6. \A i \in 1 .. n : head[i].kind = "again" => head[i].n < i
  BY <1>2, <1>3 DEF Scripts
<1>7. last.n = n
  OBVIOUS
<1> HIDE DEF n, head, last
<1> DEFINE all == head \o <<last>>
<1>8. all \in Seq(Items) /\ Len(all) = n + 1
  BY <1>1, <1>2, <1>3, <1>4
<1>9. all[n + 1] = last /\ \A i \in 1 .. n : all[i] = head[i]
  BY <1>1, <1>2, <1>3, <1>4
<1> HIDE DEF all
<1>10. \A i \in 1 .. n + 1 : all[i].kind = "again" => all[i].n < i
  <2> SUFFICES ASSUME NEW i \in 1 .. n + 1, all[i].kind = "again" PROVE all[i].n < i
    OBVIOUS
  <2>1. n \in Nat /\ i \in Nat
    BY <1>1
  <2>2. CASE i <= n
    <3>1. i \in 1 .. n
      BY <2>1, <2>2
    <3> QED
      BY <1>6, <1>9, <3>1
  <2>3. CASE i = n + 1
    BY <1>7, <1>9, <2>1, <2>3
  <2> QED
    BY <2>1, <2>2, <2>3
<1>11. all \in Scripts
  BY <1>8, <1>10 DEF Scripts
<1> QED
  BY <1>5, <1>11 DEF all

(* Every example is such a script. *)
LEMMA EveryScript == \A p \in DOMAIN Script : Script[p] \in Scripts
<1>1. /\ \A c \in Callable : Must(c) \in Scripts /\ Demo(c) \in Scripts
      /\ \A c \in Callable : \A n \in Nat : Try(c, n) \in Scripts
      /\ \A kind \in Kinds \ {"again"} : \A n \in Nat : Control(kind, n) \in Scripts
  <2>1. "connect" \in Callable /\ "must" \in Kinds \ {"again"}
    BY DEF Callable, ActionOf, Kinds
  <2> QED
    BY <2>1, OneItem
<1>2. \A body \in Scripts : Count(body) \in Scripts /\ Forever(body) \in Scripts
  BY Looped
<1>3. {"connect", "disconnect", "reconnect", "run", "stop", "home", "idle", "target", "nan", "set_tactile_bias",
       "reset_tactile_bias", "set_max_effort", "set_controller_config", "get_state", "get_diagnostics",
       "destroy"} \subseteq Callable
  BY DEF Callable, ActionOf, Unchecked
<1>4. \A c \in {"connect", "disconnect", "reconnect", "run", "stop", "home", "idle", "target", "nan",
                "set_tactile_bias", "reset_tactile_bias", "set_max_effort", "set_controller_config", "get_state",
                "get_diagnostics", "destroy"} : Must(c) \in Scripts /\ Demo(c) \in Scripts
  BY <1>1, <1>3
<1>5. Target \in Scripts /\ Look \in Scripts /\ Open \in Scripts /\ OpenHomed \in Scripts /\ IdleStop \in Scripts
  BY <1>2, <1>4, Joined DEF Target, Look, Open, OpenHomed, IdleStop
<1>6. CreateAndDestroy \in Scripts
  BY <1>2, <1>4, <1>5, Joined DEF CreateAndDestroy
<1>7. Homing \in Scripts
  BY <1>2, <1>4, <1>5, Joined DEF Homing
<1>8. MaxEffort \in Scripts
  BY <1>2, <1>4, <1>5, Joined DEF MaxEffort
<1>9. PositionController \in Scripts
  BY <1>2, <1>4, <1>5, Joined DEF PositionController
<1>10. ImpedanceController \in Scripts
  BY <1>2, <1>4, <1>5, Joined DEF ImpedanceController
<1>11. IdleCommand \in Scripts
  BY <1>2, <1>4, <1>5, Joined DEF IdleCommand
<1>12. JointPosition \in Scripts
  BY <1>2, <1>4, <1>5, Joined DEF JointPosition
<1>13. JointImpedance \in Scripts
  BY <1>2, <1>4, <1>5, Joined DEF JointImpedance
<1>14. ActuatorPosition \in Scripts
  BY <1>2, <1>4, <1>5, Joined DEF ActuatorPosition
<1>15. ActuatorEffort \in Scripts
  BY <1>2, <1>4, <1>5, Joined DEF ActuatorEffort
<1>16. Kinematics \in Scripts
  BY <1>2, <1>4, <1>5, Joined DEF Kinematics
<1>17. ReadState \in Scripts
  BY <1>2, <1>4, <1>5, Joined DEF ReadState
<1>18. Tactile \in Scripts
  BY <1>2, <1>4, <1>5, Joined DEF Tactile
<1>19. DiagnosticsLoop \in Scripts
  BY <1>2, <1>4, <1>5, Joined DEF DiagnosticsLoop
<1>20. ExitOnFailure \in Scripts
  BY <1>2, <1>4, <1>5, Joined DEF ExitOnFailure
<1>21. MotionSequence \in Scripts
  BY <1>2, <1>4, <1>5, Joined DEF MotionSequence
<1>22. BasicControl \in Scripts
  BY <1>2, <1>4, <1>5, Joined DEF BasicControl
<1>23. FaultRecovery \in Scripts
  <2>1. /\ \A c \in {"reconnect", "run", "home", "target"}, n \in 0 .. 3 : Try(c, n) \in Scripts
        /\ \A n \in 0 .. 4 : Control("attempt", n) \in Scripts
    BY <1>1, <1>3 DEF Kinds
  <2> QED
    BY <1>2, <1>4, <1>5, <2>1, Joined DEF FaultRecovery
<1>24. SelfManaged \in Scripts
  <2>1. /\ \A c \in {"reconnect", "connect", "run", "target"}, n \in 0 .. 3 : Try(c, n) \in Scripts
        /\ \A n \in 0 .. 4 : Control("switch", n) \in Scripts
    BY <1>1, <1>3 DEF Kinds
  <2> QED
    BY <1>2, <1>4, <1>5, <2>1, Joined DEF SelfManaged
<1>25. LifecycleWalkthrough \in Scripts
  BY <1>1 DEF LifecycleWalkthrough, Kinds
<1>26. ExternalServer \in Scripts
  BY <1>1 DEF ExternalServer, Kinds
<1> QED
  BY <1>6, <1>7, <1>8, <1>9, <1>10, <1>11, <1>12, <1>13, <1>14, <1>15, <1>16, <1>17, <1>18, <1>19, <1>20, <1>21, <1>22, <1>23, <1>24, <1>25, <1>26
     DEF Script

-----------------------------------------------------------------------------
(* The hand.                                                               *)

(* A refusal is one of the codes, and none in these cases. *)
LEMMA Refused ==
  ASSUME NEW c \in Callable, Safe(hand)
  PROVE  /\ Refusal(c) \in ErrorCodes
         /\ Refusal(c) = "None" /\ c # "destroy" => ~hand.destroyed
         /\ Refusal(c) = "None" /\ c = "connect" => hand.requested \in {"Disconnected", "Connected"}
         /\ Refusal(c) = "None" /\ c = "reconnect" => hand.observed = "Faulted"
<1>1. CASE c \in DOMAIN ActionOf
  <2>1. Refusal(c) = CheckActionAllowed(ActionOf[c], hand.requested, hand.observed, hand.destroyed,
                                        "ReceiveSilence", c = "idle" \/ hand.homing = "Succeeded")
    <3>1. c \notin Unchecked
      BY <1>1 DEF ActionOf, Unchecked
    <3> QED
      BY <1>1, <3>1 DEF Refusal
  <2>2. hand.destroyed \in BOOLEAN
    BY DEF Safe, HandRecord
  <2>3. c \notin {"destroy"}
    BY <1>1 DEF ActionOf
  <2>4. Refusal(c) \in ErrorCodes
    BY <2>1, <2>2 DEF CheckActionAllowed, ErrorCodes, FaultedCode
  <2>5. Refusal(c) = "None" => ~hand.destroyed
    BY <2>1, <2>2 DEF CheckActionAllowed
  <2>6. c \in {"connect", "reconnect"} =>
          ActionOf[c] = (IF c = "connect" THEN "Connect" ELSE "Reconnect")
    BY DEF ActionOf
  <2>7. AllowedStates["Connect"] = {"Disconnected", "Connected"} /\ AllowedStates["Reconnect"] = {"Faulted"}
    BY DEF AllowedStates
  <2>8. hand.requested # "Faulted"
    BY DEF Safe, HandRecord
  <2>9. Refusal(c) = "None" /\ c = "connect" => hand.requested \in {"Disconnected", "Connected"}
    BY <2>1, <2>2, <2>6, <2>7 DEF CheckActionAllowed, FaultedCode
  <2>10. Refusal(c) = "None" /\ c = "reconnect" => hand.observed = "Faulted"
    BY <2>1, <2>2, <2>6, <2>7, <2>8 DEF CheckActionAllowed
  <2> QED
    BY <2>3, <2>4, <2>5, <2>9, <2>10
<1>2. CASE c \in Unchecked /\ c \notin DOMAIN ActionOf
  <2>1. Refusal(c) = IF hand.destroyed /\ c # "destroy" THEN "WrongCallOrder" ELSE "None"
    BY <1>2 DEF Refusal
  <2>2. c \notin {"connect", "reconnect"}
    BY <1>2 DEF Unchecked
  <2> QED
    BY <2>1, <2>2 DEF ErrorCodes
<1> QED
  BY <1>1, <1>2 DEF Callable

(* An answer leaves the hand as it is; the code says nothing of it. *)
LEMMA Answered ==
  ASSUME NEW h, Safe(h), NEW code \in ErrorCodes, h.call = "none" \/ ~h.destroyed, Answer(h, code)
  PROVE  Safe(hand')
<1>1. h \in HandRecord /\ hand' = [h EXCEPT !.call = "none", !.code = code]
  BY DEF Safe, Answer
<1>2. hand' \in HandRecord
  BY <1>1 DEF HandRecord
<1>3. /\ hand'.call = "none" /\ hand'.destroyed = h.destroyed /\ hand'.observed = h.observed
      /\ hand'.loop = h.loop /\ hand'.hurt = h.hurt /\ hand'.requested = h.requested
      /\ hand'.powered = h.powered
  BY <1>1 DEF HandRecord
<1>4. Closing(hand')
  BY <1>1, <1>3 DEF Safe, Closing
<1>5. Unhurt(hand')
  BY <1>1, <1>3 DEF Safe, Unhurt
<1> QED
  BY <1>2, <1>4, <1>5 DEF Safe

(* The names the fields take. *)
LEMMA Names ==
  /\ "Disconnected" \in Lifecycle \ {"Faulted"} /\ "Connected" \in Lifecycle \ {"Faulted"}
  /\ "Running" \in Lifecycle \ {"Faulted"} /\ "Stopped" \in Lifecycle \ {"Faulted"}
  /\ "Disconnected" \in Lifecycle /\ "Connected" \in Lifecycle /\ "Running" \in Lifecycle
  /\ "Stopped" \in Lifecycle /\ "Faulted" \in Lifecycle
  /\ "none" \in Waits \cup {"none"} /\ "connect" \in Waits \cup {"none"} /\ "reconnect" \in Waits \cup {"none"}
  /\ "run" \in Waits \cup {"none"} /\ "home" \in Waits \cup {"none"} /\ "stop" \in Waits \cup {"none"}
  /\ "disconnect" \in Waits \cup {"none"} /\ "destroy" \in Waits \cup {"none"} /\ "join" \in Waits \cup {"none"}
  /\ "None" \in ErrorCodes \cup {"-"} /\ "CommunicationLost" \in ErrorCodes \cup {"-"} /\ "-" \in ErrorCodes \cup {"-"}
  /\ "HardwareFault" \in ErrorCodes \cup {"-"} /\ "InterfaceUnavailable" \in ErrorCodes \cup {"-"}
  /\ "connected" \in Waits \cup {"none"} /\ "running" \in Waits \cup {"none"}
BY DEF Lifecycle, Waits, ErrorCodes

(* run() and home() before they wait, or without a judged link. *)
LEMMA Controlled ==
  ASSUME NEW h, Safe(h), ~h.destroyed, h.call = "none", NEW c \in {"run", "home"}, RequestControl(h, c)
  PROVE  Safe(hand')
<1>1. h \in HandRecord /\ Closing(h) /\ Unhurt(h)
  BY DEF Safe
<1>2. CASE Answer(h, "CommunicationLost")
  BY <1>2, Answered DEF ErrorCodes
<1>3. CASE Wait([h EXCEPT !.requested = "Running", !.homingRuns = @ \/ c = "home", !.result = @ /\ c # "home"], c)
  <2>1. PICK b \in BOOLEAN, r \in BOOLEAN :
          hand' = [[h EXCEPT !.requested = "Running", !.homingRuns = b, !.result = r] EXCEPT !.call = c]
    <3>1. PICK b \in BOOLEAN : b = (h.homingRuns \/ c = "home")
      OBVIOUS
    <3>2. PICK r \in BOOLEAN : r = (h.result /\ c # "home")
      OBVIOUS
    <3> QED
      BY <1>1, <1>3, <3>1, <3>2 DEF HandRecord, Wait
  <2>2. c \in Waits \cup {"none"} /\ c \notin {"connect", "connected", "running", "reconnect", "join", "none"}
    BY DEF Waits
  <2>3. hand' \in HandRecord
    BY <1>1, <2>1, <2>2, Names DEF HandRecord
  <2>4. Closing(hand') /\ Unhurt(hand')
    BY <1>1, <2>1, <2>2 DEF HandRecord, Closing, Unhurt
  <2> QED
    BY <2>3, <2>4 DEF Safe
<1> QED
  BY <1>2, <1>3 DEF RequestControl

(* destroy() at its beginning. *)
LEMMA Destroying ==
  ASSUME Safe(hand), hand.call = "none", Destroy
  PROVE  Safe(hand')
<1>1. hand \in HandRecord /\ Closing(hand) /\ Unhurt(hand)
  BY DEF Safe
<1>2. CASE Done
  BY <1>2, Answered DEF Done, ErrorCodes
<1>3. CASE /\ Wait([hand EXCEPT !.destroyed = TRUE, !.requested = "Stopped"], "destroy")
           /\ hand.requested \in {"Running", "Stopped"}
  <2>1. hand' \in HandRecord
    BY <1>1, <1>3, Names DEF HandRecord, Wait
  <2>2. Closing(hand') /\ Unhurt(hand')
    BY <1>1, <1>3 DEF HandRecord, Closing, Unhurt, Wait
  <2> QED
    BY <2>1, <2>2 DEF Safe
<1>4. CASE /\ Exit([hand EXCEPT !.destroyed = TRUE])
           /\ ~(hand.requested \in {"Running", "Stopped"} /\ hand.observed # "Stopped")
  <2>1. hand' \in HandRecord
    BY <1>1, <1>4, Names DEF HandRecord, Exit, Wait
  <2>2. Closing(hand') /\ Unhurt(hand')
    BY <1>1, <1>4 DEF HandRecord, Closing, Unhurt, Exit, Wait
  <2> QED
    BY <2>1, <2>2 DEF Safe
<1> QED
  BY <1>2, <1>3, <1>4 DEF Destroy, ControlRequested

(* disconnect() at its beginning. *)
LEMMA Disconnecting ==
  ASSUME Safe(hand), hand.call = "none", ~hand.destroyed, Disconnect
  PROVE  Safe(hand')
<1>1. hand \in HandRecord /\ Closing(hand) /\ Unhurt(hand)
  BY DEF Safe
<1>2. CASE Done
  BY <1>2, Answered DEF Done, ErrorCodes
<1>3. CASE /\ Wait([hand EXCEPT !.requested = "Stopped"], "disconnect")
           /\ hand.requested \in {"Running", "Stopped"}
  <2>1. hand' \in HandRecord
    BY <1>1, <1>3, Names DEF HandRecord, Wait
  <2>2. Closing(hand') /\ Unhurt(hand')
    BY <1>1, <1>3 DEF HandRecord, Closing, Unhurt, Wait
  <2> QED
    BY <2>1, <2>2 DEF Safe
<1>4. CASE /\ Exit(hand)
           /\ ~(hand.requested \in {"Running", "Stopped"} /\ hand.observed # "Stopped")
  <2>1. hand' \in HandRecord
    BY <1>1, <1>4, Names DEF HandRecord, Exit, Wait
  <2>2. Closing(hand') /\ Unhurt(hand')
    BY <1>1, <1>4 DEF HandRecord, Closing, Unhurt, Exit, Wait
  <2> QED
    BY <2>1, <2>2 DEF Safe
<1> QED
  BY <1>2, <1>3, <1>4 DEF Disconnect, ControlRequested

(* A call that begins keeps the hand safe. *)
LEMMA Begun ==
  ASSUME NEW c \in Callable, Safe(hand), hand.call = "none", Begin(c)
  PROVE  Safe(hand')
<1>1. hand \in HandRecord /\ Closing(hand) /\ Unhurt(hand)
  BY DEF Safe
<1>2. CASE Refusal(c) # "None"
  <2>1. Answer([hand EXCEPT !.early = hand.publishing # "-"], Refusal(c))
    BY <1>2 DEF Begin
  <2>2. PICK e \in BOOLEAN : e = (hand.publishing # "-")
    OBVIOUS
  <2>3. Safe([hand EXCEPT !.early = e]) /\ [hand EXCEPT !.early = e].call = "none"
    BY <1>1 DEF Safe, HandRecord, Closing, Unhurt
  <2> QED
    BY <2>1, <2>2, <2>3, Answered, Refused
<1>3. ASSUME Refusal(c) = "None" PROVE Safe(hand')
  <2>1. Enter(c)
    BY <1>3 DEF Begin
  <2>2. CASE Done
    BY <2>2, Answered DEF Done, ErrorCodes
  <2>3. CASE c = "destroy"
    <3>1. Destroy
      BY <2>1, <2>3 DEF Enter
    <3> QED
      BY <3>1, Destroying
  <2>4. ASSUME c # "destroy" PROVE ~hand.destroyed
    BY <1>3, <2>4, Refused
  <2>6. CASE c = "set_tactile_bias"
    <3>1. Answer(hand, IF hand.comm THEN "None" ELSE "CommunicationLost")
      BY <2>1, <2>6 DEF Enter
    <3> QED
      BY <2>4, <2>6, <3>1, Answered DEF ErrorCodes
  <2>7. CASE c = "connect"
    <3>1. hand.requested \in {"Disconnected", "Connected"}
      BY <1>3, <2>7, Refused
    <3>2. CASE Wait(hand, "connect")
      <4>1. hand' \in HandRecord
        BY <1>1, <2>4, <2>7, <3>1, <3>2, Names DEF HandRecord, Wait
      <4>2. Closing(hand') /\ Unhurt(hand')
        BY <1>1, <2>4, <2>7, <3>1, <3>2 DEF HandRecord, Closing, Unhurt, Wait
      <4> QED
        BY <4>1, <4>2 DEF Safe
    <3> QED
      BY <2>1, <2>2, <2>7, <3>2 DEF Enter
  <2>8. CASE c = "reconnect"
    <3>1. hand.observed = "Faulted"
      BY <1>3, <2>8, Refused
    <3>2. Wait([hand EXCEPT !.requested = "Disconnected"], "reconnect")
      BY <2>1, <2>8 DEF Enter
    <3>3. hand' \in HandRecord
      BY <1>1, <2>4, <2>8, <3>1, <3>2, Names DEF HandRecord, Wait
    <3>4. Closing(hand') /\ Unhurt(hand')
      BY <1>1, <2>4, <2>8, <3>1, <3>2 DEF HandRecord, Closing, Unhurt, Wait
    <3> QED
      BY <3>3, <3>4 DEF Safe
  <2>9. CASE c \in {"run", "home"}
    <3>1. Safe([hand EXCEPT !.homing = "InProgress"])
      BY <1>1 DEF Safe, HandRecord, Closing, Unhurt
    <3>2. /\ ~[hand EXCEPT !.homing = "InProgress"].destroyed
          /\ [hand EXCEPT !.homing = "InProgress"].call = "none"
      BY <1>1, <2>4, <2>9 DEF HandRecord
    <3>3. CASE Home
      BY <3>1, <3>2, <3>3, Controlled DEF Home
    <3>4. CASE Run
      BY <2>4, <2>9, <3>4, Controlled DEF Run
    <3> QED
      BY <2>1, <2>2, <2>9, <3>3, <3>4 DEF Enter
  <2>10. CASE c = "stop"
    <3>1. CASE Wait([hand EXCEPT !.requested = "Stopped"], "stop")
      <4>1. hand' \in HandRecord
        BY <1>1, <2>4, <2>10, <3>1, Names DEF HandRecord, Wait
      <4>2. Closing(hand') /\ Unhurt(hand')
        BY <1>1, <2>4, <2>10, <3>1 DEF HandRecord, Closing, Unhurt, Wait
      <4> QED
        BY <4>1, <4>2 DEF Safe
    <3> QED
      BY <2>1, <2>2, <2>10, <3>1 DEF Enter
  <2>11. CASE c = "disconnect"
    <3>1. Disconnect
      BY <2>1, <2>11 DEF Enter
    <3> QED
      BY <2>4, <2>11, <3>1, Disconnecting
  <2>12. CASE c \notin {"set_tactile_bias", "connect", "reconnect", "run", "home", "stop",
                       "disconnect", "destroy"}
    BY <2>1, <2>2, <2>12 DEF Enter
  <2> QED
    BY <2>3, <2>6, <2>7, <2>8, <2>9, <2>10, <2>11, <2>12
<1> QED
  BY <1>2, <1>3

-----------------------------------------------------------------------------
(* connect() returns. *)
LEMMA Connects ==
  ASSUME Safe(hand), ConnectEnds PROVE Safe(hand')
<1>0. hand \in HandRecord /\ Closing(hand) /\ Unhurt(hand)
  BY DEF Safe
<1>1. CASE hand.call = "connect" /\ Wait(Opened(hand), "connected")
  <2>1. hand' \in HandRecord
    BY <1>0, <1>1, Names DEF HandRecord, Wait, Opened
  <2>2. Closing(hand') /\ Unhurt(hand')
    BY <1>0, <1>1 DEF HandRecord, Closing, Unhurt, Wait, Opened
  <2> QED
    BY <2>1, <2>2 DEF Safe
<1>2. CASE hand.call = "connect" /\ Answer([hand EXCEPT !.observed = "Disconnected"], "InterfaceUnavailable")
  <2>1. hand' \in HandRecord
    BY <1>0, <1>2, Names DEF HandRecord, Answer
  <2>2. Closing(hand') /\ Unhurt(hand')
    BY <1>0, <1>2 DEF HandRecord, Closing, Unhurt, Answer
  <2> QED
    BY <2>1, <2>2 DEF Safe
<1>3. CASE hand.call = "connect" /\ Answer([Closed(hand) EXCEPT !.observed = "Disconnected", !.homing = "NotRun"], "CommunicationLost")
  <2>1. hand' \in HandRecord
    BY <1>0, <1>3, Names DEF HandRecord, Answer, Closed
  <2>2. Closing(hand') /\ Unhurt(hand')
    BY <1>0, <1>3 DEF HandRecord, Closing, Unhurt, Answer, Closed
  <2> QED
    BY <2>1, <2>2 DEF Safe
<1> QED
  BY <1>1, <1>2, <1>3 DEF ConnectEnds, Waiting, Opens

(* reconnect() returns. *)
LEMMA Reconnects ==
  ASSUME Safe(hand), ReconnectEnds PROVE Safe(hand')
<1>0. hand \in HandRecord /\ Closing(hand) /\ Unhurt(hand)
  BY DEF Safe
<1> DEFINE h == [Closed(hand) EXCEPT !.homingRuns = FALSE]
<1>1. CASE hand.call = "reconnect" /\ Wait(Opened(h), "connected")
  <2>1. hand' \in HandRecord
    BY <1>0, <1>1, Names DEF HandRecord, Wait, Opened, Closed
  <2>2. Closing(hand') /\ Unhurt(hand')
    BY <1>0, <1>1 DEF HandRecord, Closing, Unhurt, Wait, Opened, Closed
  <2> QED
    BY <2>1, <2>2 DEF Safe
<1>2. CASE hand.call = "reconnect" /\ Answer([h EXCEPT !.observed = "Faulted"], "InterfaceUnavailable")
  <2>1. hand' \in HandRecord
    BY <1>0, <1>2, Names DEF HandRecord, Answer, Closed
  <2>2. Closing(hand') /\ Unhurt(hand')
    BY <1>0, <1>2 DEF HandRecord, Closing, Unhurt, Answer, Closed
  <2> QED
    BY <2>1, <2>2 DEF Safe
<1>3. CASE hand.call = "reconnect" /\ Answer([Closed(h) EXCEPT !.observed = "Faulted", !.homing = "NotRun"], "CommunicationLost")
  <2>1. hand' \in HandRecord
    BY <1>0, <1>3, Names DEF HandRecord, Answer, Closed
  <2>2. Closing(hand') /\ Unhurt(hand')
    BY <1>0, <1>3 DEF HandRecord, Closing, Unhurt, Answer, Closed
  <2> QED
    BY <2>1, <2>2 DEF Safe
<1> QED
  BY <1>1, <1>2, <1>3 DEF ReconnectEnds, Waiting, Opens

(* The loop has been joined. *)
LEMMA Joins ==
  ASSUME Safe(hand), JoinEnds PROVE Safe(hand')
<1>0. hand \in HandRecord /\ Closing(hand) /\ Unhurt(hand)
  BY DEF Safe
<1>1. hand' \in HandRecord
  BY <1>0, Names DEF HandRecord, JoinEnds, Waiting, LoopHasLeft, Answer, Closed
<1>2. Closing(hand') /\ Unhurt(hand')
  BY <1>0 DEF HandRecord, Closing, Unhurt, JoinEnds, Waiting, LoopHasLeft, Answer, Closed
<1> QED
  BY <1>1, <1>2 DEF Safe

(* What a wait has seen is stored. *)
LEMMA Confirms ==
  ASSUME Safe(hand), Confirm PROVE Safe(hand')
<1>0. hand \in HandRecord /\ Closing(hand) /\ Unhurt(hand)
  BY DEF Safe
<1>1. CASE hand.call = "connected" /\ Answer([hand EXCEPT !.observed = "Connected"], "None")
  <2>1. hand' \in HandRecord
    BY <1>0, <1>1, Names DEF HandRecord, Answer
  <2>2. Closing(hand') /\ Unhurt(hand')
    BY <1>0, <1>1 DEF HandRecord, Closing, Unhurt, Answer
  <2> QED
    BY <2>1, <2>2 DEF Safe
<1>2. CASE hand.call = "running" /\ Answer([hand EXCEPT !.observed = "Running"], "None")
  <2>1. hand' \in HandRecord
    BY <1>0, <1>2, Names DEF HandRecord, Answer
  <2>2. Closing(hand') /\ Unhurt(hand')
    BY <1>0, <1>2 DEF HandRecord, Closing, Unhurt, Answer
  <2> QED
    BY <2>1, <2>2 DEF Safe
<1>3. CASE hand.call = "connected"
  BY <1>1, <1>3 DEF Confirm, Waiting
<1>4. CASE hand.call = "running"
  BY <1>2, <1>4 DEF Confirm, Waiting
<1> QED
  BY <1>3, <1>4 DEF Confirm

(* A wait that ran out has one of two codes. *)
LEMMA Codes == Unable \in ErrorCodes \ {"None", "WrongCallOrder"}
BY DEF Unable, ErrorCodes

(* run() returns, with the drives or without them. *)
LEMMA Runs ==
  ASSUME Safe(hand), RunEnds PROVE Safe(hand')
<1>0. hand \in HandRecord /\ Closing(hand) /\ Unhurt(hand)
  BY DEF Safe
<1>1. CASE hand.call = "run" /\ hand.observed = "Running" /\ Wait(hand, "running")
  <2>1. hand' \in HandRecord
    BY <1>0, <1>1, Names DEF HandRecord, Wait
  <2>2. Closing(hand') /\ Unhurt(hand')
    BY <1>0, <1>1 DEF HandRecord, Closing, Unhurt, Wait
  <2> QED
    BY <2>1, <2>2 DEF Safe
<1>2. CASE hand.call = "run" /\ hand.observed = "Faulted" /\ Answer([hand EXCEPT !.requested = "Stopped"], Unable)
  <2>1. hand' \in HandRecord
    BY <1>0, <1>2, Names, Codes DEF HandRecord, Answer
  <2>2. Closing(hand') /\ Unhurt(hand')
    BY <1>0, <1>2 DEF HandRecord, Closing, Unhurt, Answer
  <2> QED
    BY <2>1, <2>2 DEF Safe
<1>3. CASE /\ hand.call = "run"
           /\ \E some \in BOOLEAN : Unconfirmed([hand EXCEPT !.requested = "Stopped", !.powered = @ \/ some])
  <2>1. PICK some \in BOOLEAN : Unconfirmed([hand EXCEPT !.requested = "Stopped", !.powered = @ \/ some])
    BY <1>3
  <2>2. PICK p \in BOOLEAN : p = (hand.powered \/ some)
    OBVIOUS
  <2>3. hand' = [hand EXCEPT !.requested = "Stopped", !.powered = p, !.hurt = TRUE,
                             !.call = "none", !.code = Unable]
    BY <1>0, <2>1, <2>2 DEF HandRecord, Unconfirmed, Answer
  <2>4. hand' \in HandRecord
    BY <1>0, <1>3, <2>3, Names, Codes DEF HandRecord
  <2>5. Closing(hand') /\ Unhurt(hand')
    BY <1>0, <1>3, <2>3 DEF HandRecord, Closing, Unhurt
  <2> QED
    BY <2>4, <2>5 DEF Safe
<1> QED
  BY <1>1, <1>2, <1>3 DEF RunEnds, Waiting

(* home() returns. *)
LEMMA Homes ==
  ASSUME Safe(hand), HomeEnds PROVE Safe(hand')
<1>0. hand \in HandRecord /\ Closing(hand) /\ Unhurt(hand)
  BY DEF Safe
<1>1. PICK code \in ErrorCodes : Answer(hand, code)
  BY DEF HomeEnds, ErrorCodes
<1>2. ~hand.destroyed
  BY <1>0 DEF HomeEnds, Waiting, Closing
<1> QED
  BY <1>1, <1>2, Answered

(* stop() and disconnect() return. *)
LEMMA Stops ==
  ASSUME Safe(hand), StopEnds PROVE Safe(hand')
<1>0. hand \in HandRecord /\ Closing(hand) /\ Unhurt(hand)
  BY DEF Safe
<1>1. CASE hand.call \in {"stop", "disconnect"} /\ \E code \in ErrorCodes : Answer(hand, code)
  BY <1>0, <1>1, Answered DEF Closing, ErrorCodes
<1>2. CASE hand.call \in {"stop", "disconnect"} /\ hand.observed = "Stopped" /\ Exit(hand)
  <2>1. hand' \in HandRecord
    BY <1>0, <1>2, Names DEF HandRecord, Exit, Wait
  <2>2. Closing(hand') /\ Unhurt(hand')
    BY <1>0, <1>2 DEF HandRecord, Closing, Unhurt, Exit, Wait
  <2> QED
    BY <2>1, <2>2 DEF Safe
<1>3. CASE hand.call \in {"stop", "disconnect"} /\ Unconfirmed(hand)
  <2>1. hand' \in HandRecord
    BY <1>0, <1>3, Names, Codes DEF HandRecord, Unconfirmed, Answer
  <2>2. Closing(hand') /\ Unhurt(hand')
    BY <1>0, <1>3 DEF HandRecord, Closing, Unhurt, Unconfirmed, Answer
  <2> QED
    BY <2>1, <2>2 DEF Safe
<1> QED
  BY <1>1, <1>2, <1>3 DEF StopEnds, ErrorCodes, Done

(* The destructor goes on from its quick stop to the join. *)
LEMMA Leaves ==
  ASSUME Safe(hand), DestroyEnds PROVE Safe(hand')
<1>0. hand \in HandRecord /\ Closing(hand) /\ Unhurt(hand)
  BY DEF Safe
<1>1. CASE hand.call = "destroy" /\ hand.observed \in {"Stopped", "Faulted"} /\ Exit(hand)
  <2>1. hand' \in HandRecord
    BY <1>0, <1>1, Names DEF HandRecord, Exit, Wait
  <2>2. Closing(hand') /\ Unhurt(hand')
    BY <1>0, <1>1 DEF HandRecord, Closing, Unhurt, Exit, Wait
  <2> QED
    BY <2>1, <2>2 DEF Safe
<1>2. CASE hand.call = "destroy" /\ Exit([hand EXCEPT !.hurt = TRUE])
  <2>1. hand' \in HandRecord
    BY <1>0, <1>2, Names DEF HandRecord, Exit, Wait
  <2>2. Closing(hand') /\ Unhurt(hand')
    BY <1>0, <1>2 DEF HandRecord, Closing, Unhurt, Exit, Wait
  <2> QED
    BY <2>1, <2>2 DEF Safe
<1> QED
  BY <1>1, <1>2 DEF DestroyEnds, Waiting

(* A call that waits ends. *)
LEMMA Returned ==
  ASSUME Safe(hand), CallEnds PROVE Safe(hand')
BY Connects, Reconnects, Joins, Confirms, Runs, Homes, Stops, Leaves DEF CallEnds

(* The link is judged. *)
LEMMA Judged ==
  ASSUME Safe(hand), LinkJudged PROVE Safe(hand')
<1>0. hand \in HandRecord /\ Closing(hand) /\ Unhurt(hand)
  BY DEF Safe
<1>1. hand' \in HandRecord
  BY <1>0, Names DEF HandRecord, LinkJudged, Observes, Passes
<1>2. Closing(hand') /\ Unhurt(hand')
  BY <1>0 DEF HandRecord, Closing, Unhurt, LinkJudged, Observes, Passes
<1> QED
  BY <1>1, <1>2 DEF Safe

(* The link is lost. *)
LEMMA Lost ==
  ASSUME Safe(hand), LinkLost PROVE Safe(hand')
<1>0. hand \in HandRecord /\ Closing(hand) /\ Unhurt(hand)
  BY DEF Safe
<1>1. hand' \in HandRecord
  <2> DEFINE lost == [Fault(hand) EXCEPT !.loop = "silent"]
  <2>1. lost \in HandRecord
    BY <1>0, Names DEF HandRecord, Fault
  <2>2. Cancelled(lost) \in HandRecord
    <3> HIDE DEF lost
    <3> QED
      BY <2>1 DEF HandRecord, Cancelled
  <2>3. hand' = lost \/ hand' = Cancelled(lost)
    BY DEF LinkLost
  <2> QED
    BY <2>1, <2>2, <2>3
<1>2. Closing(hand') /\ Unhurt(hand')
  BY <1>0 DEF HandRecord, Closing, Unhurt, LinkLost, Observes, Passes, Fault, Cancelled
<1> QED
  BY <1>1, <1>2 DEF Safe

(* A frame cannot be sent. *)
LEMMA Unsent ==
  ASSUME Safe(hand), SendFails PROVE Safe(hand')
<1>0. hand \in HandRecord /\ Closing(hand) /\ Unhurt(hand)
  BY DEF Safe
<1>1. hand' \in HandRecord
  BY <1>0, Names DEF HandRecord, SendFails, Observes, Passes, Fault
<1>2. Closing(hand') /\ Unhurt(hand')
  BY <1>0 DEF HandRecord, Closing, Unhurt, SendFails, Observes, Passes, Fault
<1> QED
  BY <1>1, <1>2 DEF Safe

(* The drives follow the enable. *)
LEMMA Enabled ==
  ASSUME Safe(hand), DrivesEnabled PROVE Safe(hand')
<1>0. hand \in HandRecord /\ Closing(hand) /\ Unhurt(hand)
  BY DEF Safe
<1>1. hand' \in HandRecord
  BY <1>0, Names DEF HandRecord, DrivesEnabled, Follows, Observes, Passes
<1>2. Closing(hand') /\ Unhurt(hand')
  BY <1>0 DEF HandRecord, Closing, Unhurt, DrivesEnabled, Follows, Observes, Passes
<1> QED
  BY <1>1, <1>2 DEF Safe

(* The drives follow the quick stop. *)
LEMMA Stopped ==
  ASSUME Safe(hand), DrivesStopped PROVE Safe(hand')
<1>0. hand \in HandRecord /\ Closing(hand) /\ Unhurt(hand)
  BY DEF Safe
<1>1. hand' \in HandRecord
  BY <1>0, Names DEF HandRecord, DrivesStopped, Follows, Observes, Passes
<1>2. Closing(hand') /\ Unhurt(hand')
  BY <1>0 DEF HandRecord, Closing, Unhurt, DrivesStopped, Follows, Observes, Passes
<1> QED
  BY <1>1, <1>2 DEF Safe

(* A homing that is over leaves a record of the same type. *)
LEMMA Over ==
  ASSUME hand \in HandRecord, NEW ok \in BOOLEAN PROVE HomingOver(hand, ok) \in HandRecord
<1>1. PICK p \in {"-", "Succeeded", "Failed"} : p = IF ok THEN "Succeeded" ELSE "Failed"
  OBVIOUS
<1>2. HomingOver(hand, ok) = [hand EXCEPT !.result = ok, !.homingRuns = FALSE, !.publishing = p]
  BY <1>1 DEF HomingOver
<1> QED
  BY <1>2 DEF HandRecord

(* Homing finds every origin. *)
LEMMA Homed ==
  ASSUME Safe(hand), HomingSucceeds PROVE Safe(hand')
<1>0. hand \in HandRecord /\ Closing(hand) /\ Unhurt(hand)
  BY DEF Safe
<1>1. hand' \in HandRecord
  <2>1. HomingOver(hand, TRUE) \in HandRecord
    BY <1>0, Over
  <2>2. hand' = HomingOver(hand, TRUE)
    BY DEF HomingSucceeds
  <2> QED
    BY <2>1, <2>2
<1>2. Closing(hand') /\ Unhurt(hand')
  BY <1>0 DEF HandRecord, Closing, Unhurt, HomingSucceeds, Passes, HomingOver
<1> QED
  BY <1>1, <1>2 DEF Safe

(* A drive fails at homing. *)
LEMMA Unhomed ==
  ASSUME Safe(hand), HomingFails PROVE Safe(hand')
<1>0. hand \in HandRecord /\ Closing(hand) /\ Unhurt(hand)
  BY DEF Safe
<1>1. hand' \in HandRecord
  <2>1. HomingOver(hand, FALSE) \in HandRecord
    BY <1>0, Over
  <2>2. hand' = [HomingOver(hand, FALSE) EXCEPT !.powered = TRUE, !.hurt = TRUE]
    BY DEF HomingFails
  <2>3. \A h \in HandRecord : [h EXCEPT !.powered = TRUE, !.hurt = TRUE] \in HandRecord
    BY DEF HandRecord
  <2> QED
    BY <2>1, <2>2, <2>3
<1>2. Closing(hand') /\ Unhurt(hand')
  BY <1>0 DEF HandRecord, Closing, Unhurt, HomingFails, Observes, Passes, HomingOver
<1> QED
  BY <1>1, <1>2 DEF Safe

(* Homing is missed by the cycle it was asked for in. *)
LEMMA Missed ==
  ASSUME Safe(hand), HomingMissed PROVE Safe(hand')
<1>0. hand \in HandRecord /\ Closing(hand) /\ Unhurt(hand)
  BY DEF Safe
<1>1. hand' \in HandRecord
  BY <1>0, Names DEF HandRecord, HomingMissed, Observes, Passes, HomingOver
<1>2. Closing(hand') /\ Unhurt(hand')
  BY <1>0 DEF HandRecord, Closing, Unhurt, HomingMissed, Observes, Passes, HomingOver
<1> QED
  BY <1>1, <1>2 DEF Safe

(* A quick stop ends it. *)
LEMMA Dropped ==
  ASSUME Safe(hand), HomingCancelled PROVE Safe(hand')
<1>0. hand \in HandRecord /\ Closing(hand) /\ Unhurt(hand)
  BY DEF Safe
<1>1. hand' \in HandRecord
  BY <1>0, Names DEF HandRecord, HomingCancelled, Observes, Passes, Cancelled
<1>2. Closing(hand') /\ Unhurt(hand')
  BY <1>0 DEF HandRecord, Closing, Unhurt, HomingCancelled, Observes, Passes, Cancelled
<1> QED
  BY <1>1, <1>2 DEF Safe

(* Its end is told. *)
LEMMA Told ==
  ASSUME Safe(hand), HomingPublished PROVE Safe(hand')
<1>0. hand \in HandRecord /\ Closing(hand) /\ Unhurt(hand)
  BY DEF Safe
<1>1. hand' \in HandRecord
  BY <1>0, Names DEF HandRecord, HomingPublished
<1>2. Closing(hand') /\ Unhurt(hand')
  BY <1>0 DEF HandRecord, Closing, Unhurt, HomingPublished
<1> QED
  BY <1>1, <1>2 DEF Safe

(* The loop ends. *)
LEMMA Ends ==
  ASSUME Safe(hand), LoopLeaves PROVE Safe(hand')
<1>0. hand \in HandRecord /\ Closing(hand) /\ Unhurt(hand)
  BY DEF Safe
<1>1. hand' \in HandRecord
  BY <1>0, Names DEF HandRecord, LoopLeaves, Passes
<1>2. Closing(hand') /\ Unhurt(hand')
  BY <1>0 DEF HandRecord, Closing, Unhurt, LoopLeaves, Passes
<1> QED
  BY <1>1, <1>2 DEF Safe

(* The loop tries to recover. *)
LEMMA Tries ==
  ASSUME Safe(hand), RetryStarts PROVE Safe(hand')
<1>0. hand \in HandRecord /\ Closing(hand) /\ Unhurt(hand)
  BY DEF Safe
<1>1. hand' \in HandRecord
  BY <1>0, Names DEF HandRecord, RetryStarts, Passes
<1>2. Closing(hand') /\ Unhurt(hand')
  BY <1>0 DEF HandRecord, Closing, Unhurt, RetryStarts, Passes
<1> QED
  BY <1>1, <1>2 DEF Safe

(* It finds no link. *)
LEMMA Fails ==
  ASSUME Safe(hand), RetryFails PROVE Safe(hand')
<1>0. hand \in HandRecord /\ Closing(hand) /\ Unhurt(hand)
  BY DEF Safe
<1>1. hand' \in HandRecord
  BY <1>0, Names DEF HandRecord, RetryFails
<1>2. Closing(hand') /\ Unhurt(hand')
  BY <1>0 DEF HandRecord, Closing, Unhurt, RetryFails
<1> QED
  BY <1>1, <1>2 DEF Safe

(* It finds one. *)
LEMMA Recovers ==
  ASSUME Safe(hand), RetrySucceeds PROVE Safe(hand')
<1>0. hand \in HandRecord /\ Closing(hand) /\ Unhurt(hand)
  BY DEF Safe
<1>1. hand' \in HandRecord
  BY <1>0, Names DEF HandRecord, RetrySucceeds
<1>2. Closing(hand') /\ Unhurt(hand')
  BY <1>0 DEF HandRecord, Closing, Unhurt, RetrySucceeds
<1> QED
  BY <1>1, <1>2 DEF Safe

(* A pass of the control loop. *)
LEMMA Cycled ==
  ASSUME Safe(hand), ControlLoop PROVE Safe(hand')
BY Judged, Lost, Enabled, Stopped, Homed, Unhomed, Missed, Dropped, Told, Ends, Tries, Fails, Recovers
   DEF ControlLoop

-----------------------------------------------------------------------------
(* The programs.                                                           *)

(* What main() reads next is an item of a script. *)
LEMMA ItemTyped ==
  ASSUME Reading, Inside
  PROVE  Item \in Items /\ (Item.kind = "again" => Item.n < app.at)
<1>1. app.name \in DOMAIN Script /\ app.at \in Nat \ {0}
  BY DEF Reading
<1>2. Script[app.name] \in Scripts /\ app.at \in 1 .. Len(Script[app.name])
  BY <1>1, EveryScript DEF Inside, Scripts
<1> QED
  BY <1>2, ElementOfSeq DEF Scripts, Item

(* What the server reads next is a verb, or "quit". *)
LEMMA LineTyped ==
  ASSUME Reading, wire.lines # <<>>
  PROVE  /\ Head(wire.lines) = "quit" \/ Head(wire.lines) \in Callable
         /\ Tail(wire.lines) \in Seq(Verbs \cup {"quit"})
<1>1. wire.lines \in Seq(Verbs \cup {"quit"})
  BY DEF Reading
<1>2. Head(wire.lines) \in Verbs \cup {"quit"} /\ Tail(wire.lines) \in Seq(Verbs \cup {"quit"})
  BY <1>1
<1> QED
  BY <1>2, ApplicationsAssumption DEF Callable

(* A step of anybody leaves the hand safe. *)
LEMMA HandSafe ==
  ASSUME IInv, [Next]_vars PROVE Safe(hand')
<1>1. Safe(hand) /\ Reading
  BY DEF IInv
<1>2. CASE UNCHANGED hand
  BY <1>1, <1>2
<1>3. CASE Issue
  <2>1. Item.call \in Callable
    BY <1>1, <1>3, ItemTyped DEF Issue, Items
  <2> QED
    BY <1>1, <1>3, <2>1, Begun DEF Issue, Ready
<1>4. CASE Take
  <2>1. hand \in HandRecord /\ hand' = [hand EXCEPT !.code = "-", !.early = FALSE]
    BY <1>1, <1>4 DEF Safe, Take, Forgotten
  <2>2. hand' \in HandRecord
    BY <2>1, Names DEF HandRecord
  <2>3. Closing(hand') /\ Unhurt(hand')
    BY <1>1, <2>1 DEF HandRecord, Safe, Closing, Unhurt
  <2> QED
    BY <2>2, <2>3 DEF Safe
<1>5. CASE Key
  <2>1. Keys \subseteq Callable
    BY DEF Keys, Callable, ActionOf
  <2> QED
    BY <1>1, <1>2, <1>5, <2>1, Begun DEF Key, Ready, OnlyMain
<1>6. CASE Destructor
  <2>1. "destroy" \in Callable
    BY DEF Callable, Unchecked
  <2> QED
    BY <1>1, <1>6, <2>1, Begun DEF Destructor, Ready
<1>7. CASE Serve
  <2>1. hand.call = "none"
    BY <1>7 DEF Serve, Ready
  <2>2. CASE wire.lines # <<>> /\ Apply(Head(wire.lines))
    BY <1>1, <1>2, <2>1, <2>2, LineTyped, Begun DEF Apply
  <2> QED
    BY <1>2, <1>7, <2>2 DEF Serve
<1>8. CASE Sdk
  BY <1>1, <1>8, Returned, Cycled, Unsent DEF Sdk
<1>9. CASE Client \/ Interrupt \/ Cable \/ UNCHANGED vars \/ LoopHead \/ Again \/ Attempt \/ Switch \/ RunsOut
           \/ StopsServing
  <2>1. UNCHANGED hand
    BY <1>9 DEF Client, ClientComes, ClientAsks, ClientQuits, ClientDies, OnlyClient, Interrupt, OnlyMain, Cable, Cut,
                Mend, vars, LoopHead, Again, Attempt, Switch, RunsOut, StopsServing
  <2> QED
    BY <1>2, <2>1
<1> QED
  BY <1>3, <1>4, <1>5, <1>6, <1>7, <1>8, <1>9 DEF Next, Main

(* A step of main() goes to another item, leaves, or stays. *)
LEMMA ReadingKept ==
  ASSUME IInv, [Next]_vars PROVE Reading'
<1>1. Safe(hand) /\ Reading
  BY DEF IInv
<1> DEFINE Apps == [name : DOMAIN Script, at : Nat \ {0}, shutdown : BOOLEAN, attempts : Nat, exit : {"-", "0", "1"}]
<1>2. app \in Apps
  BY <1>1 DEF Reading
<1>3. /\ \A i \in Nat \ {0} : [app EXCEPT !.at = i] \in Apps
      /\ \A code \in {"-", "0", "1"} : [app EXCEPT !.exit = code] \in Apps
      /\ [app EXCEPT !.shutdown = TRUE] \in Apps
  BY <1>2
<1>4. app.at \in Nat \ {0} /\ app.attempts \in Nat /\ app.exit \in {"-", "0", "1"}
  BY <1>2
<1>5. Inside => Item.n \in Nat /\ (Item.kind = "again" => Item.n < app.at)
  BY <1>1, ItemTyped DEF Items
<1>6. ASSUME NEW n \in Nat PROVE Skip(n) => app' \in Apps
  <2>1. app.at + 1 + n \in Nat \ {0}
    BY <1>4
  <2> HIDE DEF Apps
  <2> QED
    BY <1>3, <2>1 DEF Skip, Goto
<1>7. app' \in Apps
  <2> HIDE DEF Apps
  <2>1. CASE app' = app
    BY <1>2, <2>1
  <2>2. CASE Take
    <3>1. CASE \E n \in Nat : Skip(n)
      BY <1>6, <3>1
    <3>2. CASE Leave("1")
      BY <1>3, <3>2 DEF Leave
    <3> QED
      BY <1>5, <2>1, <2>2, <3>1, <3>2 DEF Take
  <2>3. CASE LoopHead
    <3>1. \E n \in Nat : Skip(n)
      BY <1>5, <2>3 DEF LoopHead, At
    <3> QED
      BY <1>6, <3>1
  <2>4. CASE Again
    <3>1. app.at - Item.n \in Nat \ {0}
      BY <1>4, <1>5, <2>4 DEF Again, At
    <3> QED
      BY <1>3, <2>4, <3>1 DEF Again, Goto
  <2>5. CASE Attempt
    <3>1. CASE Skip(Item.n)
      BY <1>5, <1>6, <2>5, <3>1 DEF Attempt, At
    <3>2. CASE app' = [app EXCEPT !.attempts = @ + 1, !.at = IF GivesUp THEN @ ELSE @ + 1,
                                  !.exit = IF GivesUp THEN "1" ELSE @]
      <4>1. app.attempts + 1 \in Nat /\ app.at + 1 \in Nat \ {0}
        BY <1>4
      <4>2. CASE GivesUp
        BY <1>2, <3>2, <4>1, <4>2 DEF Apps
      <4>3. CASE ~GivesUp
        BY <1>2, <3>2, <4>1, <4>3 DEF Apps
      <4> QED
        BY <4>2, <4>3
    <3> QED
      BY <2>5, <3>1, <3>2 DEF Attempt
  <2>6. CASE Switch
    <3>1. hand.observed \in Lifecycle
      BY <1>1 DEF Safe, HandRecord
    <3>2. \E n \in 0 .. 3 : Skip(n)
      BY <2>6, <3>1 DEF Switch, Lifecycle
    <3> QED
      BY <1>6, <3>2
  <2>7. CASE Key \/ RunsOut \/ StopsServing
    <3>1. app' = app \/ Leave("0")
      BY <2>7 DEF Key, RunsOut, StopsServing
    <3> QED
      BY <1>3, <2>1, <3>1 DEF Leave
  <2>8. CASE Serve \/ Interrupt
    <3>1. app' = app \/ app' = [app EXCEPT !.shutdown = TRUE]
      BY <2>8 DEF Serve, Apply, Interrupt
    <3> QED
      BY <1>3, <2>1, <3>1
  <2>9. CASE Issue \/ Destructor \/ Client \/ Sdk \/ Cable \/ UNCHANGED vars
    <3>1. app' = app
      BY <2>9 DEF Issue, Destructor, Client, ClientComes, ClientAsks, ClientQuits, ClientDies, OnlyClient, Sdk, Cable, vars
    <3> QED
      BY <2>1, <3>1
  <2> QED
    BY <2>2, <2>3, <2>4, <2>5, <2>6, <2>7, <2>8, <2>9 DEF Next, Main
<1> DEFINE Shown == {Unknown} \cup (Lifecycle \X {"NotRun", "InProgress", "Succeeded", "Failed"})
           Wires == [client : {"none", "on", "gone"}, fd : BOOLEAN, lines : Seq(Verbs \cup {"quit"}), shown : Shown]
<1>8. wire' \in Wires
  <2>1. wire \in Wires /\ wire.lines \in Seq(Verbs \cup {"quit"}) /\ wire.shown \in Shown
    BY <1>1 DEF Reading
  <2>2. CASE UNCHANGED wire
    BY <2>1, <2>2
  <2>3. CASE Serve
    <3>1. Status \in Shown
      BY <1>1 DEF Status, Safe, HandRecord
    <3>2. PICK a \in BOOLEAN : a = (wire.fd \/ wire.client # "none")
      OBVIOUS
    <3>3. PICK lines \in Seq(Verbs \cup {"quit"}) :
            lines = IF a /\ wire.lines # <<>> THEN Tail(wire.lines) ELSE wire.lines
      BY <1>1, <2>1, LineTyped
    <3>4. PICK shown \in Shown : shown = Published(a)
      BY <2>1, <3>1 DEF Published
    <3>5. wire' = [wire EXCEPT !.fd = a, !.shown = shown, !.lines = lines]
      BY <2>1, <2>3, <3>2, <3>3, <3>4 DEF Serve
    <3> HIDE DEF Shown
    <3> QED
      BY <2>1, <3>5
  <2>4. CASE Client
    <3>1. CASE ClientComes \/ ClientDies
      BY <2>1, <3>1 DEF ClientComes, ClientDies
    <3>2. CASE ClientAsks \/ ClientQuits
      <4>1. PICK verb \in Verbs \cup {"quit"}, c \in {"none", "on", "gone"} :
              wire' = [wire EXCEPT !.client = c, !.lines = Append(wire.lines, verb)]
        <5>1. CASE ClientAsks
          <6>1. PICK verb \in Verbs : wire' = [wire EXCEPT !.lines = Append(@, verb)]
            BY <5>1 DEF ClientAsks
          <6>2. wire' = [wire EXCEPT !.client = wire.client, !.lines = Append(wire.lines, verb)]
            BY <2>1, <6>1
          <6> QED
            BY <2>1, <6>2
        <5>2. CASE ClientQuits
          BY <2>1, <5>2 DEF ClientQuits
        <5> QED
          BY <3>2, <5>1, <5>2
      <4>2. Append(wire.lines, verb) \in Seq(Verbs \cup {"quit"})
        BY <2>1
      <4> QED
        BY <2>1, <4>1, <4>2
    <3> QED
      BY <2>4, <3>1, <3>2 DEF Client
  <2>5. CASE ~Serve /\ ~Client
    BY <2>2, <2>5 DEF Next, Main, Issue, Take, Forgotten, LoopHead, Again, Attempt, Switch, Key, RunsOut, Destructor,
                      StopsServing, OnlyMain, Interrupt, Sdk, Cable, vars
  <2> QED
    BY <2>3, <2>4, <2>5
<1> QED
  BY <1>7, <1>8 DEF Reading

-----------------------------------------------------------------------------
(* The theorem.                                                            *)

(* The programs begin with a hand that was never connected. *)
LEMMA Begins == Init => IInv
<1> SUFFICES ASSUME Init PROVE IInv
  OBVIOUS
<1>1. PICK p \in Programs :
        /\ hand = Created(AutoHome(p), AutoReconnect(p))
        /\ app = [name |-> p, at |-> 1, shutdown |-> FALSE, attempts |-> 0, exit |-> "-"]
  BY DEF Init, HandInit
<1>2. AutoHome(p) \in BOOLEAN /\ AutoReconnect(p) \in BOOLEAN /\ p \in DOMAIN Script
  BY ProgramsAssumption DEF AutoHome, AutoReconnect
<1>3. hand \in HandRecord
  BY <1>1, <1>2, Names DEF Created, HandRecord
<1>4. Closing(hand) /\ Unhurt(hand)
  BY <1>1 DEF Created, Closing, Unhurt
<1>5. Reading
  BY <1>1, <1>2 DEF Init, Reading, Unknown
<1> QED
  BY <1>3, <1>4, <1>5 DEF IInv, Safe

(* Behind the destructor the hand is closed, and no drive holds torque but *)
(* after a fault of the link or of a drive.                                *)
THEOREM NothingIsLeftPowered == Spec => []LeftSafe
<1>1. IInv /\ [Next]_vars => IInv'
  <2> SUFFICES ASSUME IInv, [Next]_vars PROVE IInv'
    OBVIOUS
  <2>1. Safe(hand') /\ Reading'
    BY HandSafe, ReadingKept
  <2> QED
    BY <2>1 DEF IInv, Safe, Closing, Unhurt, HandRecord
<1>2. IInv => LeftSafe
  BY DEF IInv, Safe, Closing, Unhurt, HandRecord, LeftSafe, Ended
<1> QED
  BY <1>1, <1>2, Begins, PTL DEF Spec

-----------------------------------------------------------------------------
(* How far an example has come.                                            *)

(* The stages a program passes.  A fault is not a stage: without a recovery *)
(* the hand stays Faulted, and every checked call is told of the fault.  A  *)
(* homing that is over may still be on its way to the homing state.         *)
AtHome(h) == /\ h.observed \in {"Running", "Faulted"} /\ ~h.homingRuns /\ h.publishing # "Failed"
             /\ h.homing = "Succeeded" \/ h.publishing = "Succeeded"
Stages == {"new", "connected", "running", "homed", "stopped", "gone"}
InStage(p, h) ==
  CASE p = "new" -> /\ ~h.destroyed /\ h.requested = "Disconnected" /\ h.observed = "Disconnected"
                    /\ h.publishing # "Succeeded"
    [] p = "connected" -> /\ ~h.destroyed /\ h.requested = "Connected" /\ h.observed \in {"Connected", "Faulted"}
                          /\ h.homing # "Succeeded" /\ h.publishing # "Succeeded"
    [] p = "running" -> ~h.destroyed /\ h.requested = "Running" /\ h.observed \in {"Running", "Faulted"}
    [] p = "homed" -> ~h.destroyed /\ h.requested = "Running" /\ AtHome(h)
    [] p = "stopped" -> ~h.destroyed /\ h.requested = "Stopped" /\ h.observed \in {"Stopped", "Faulted"}
    [] p = "gone" -> h.destroyed

(* Where a call that is right in stage p leads, and the calls that are not. *)
Leads(c, p, q, auto) ==
  \/ c = "connect" /\ p = "new" /\ q = "connected"
  \/ c = "run" /\ ~auto /\ p \in {"connected", "stopped"} /\ q = "running"
  \/ c = "run" /\ auto /\ p = "connected" /\ q = "homed"
  \/ c = "home" /\ p \in {"connected", "running", "homed", "stopped"} /\ q = "homed"
  \/ c = "stop" /\ p \in {"running", "homed"} /\ q = "stopped"
  \/ c = "destroy" /\ q = "gone"
  \/ c = "idle" /\ p \in {"running", "homed"} /\ q = p
  \/ c \in {"target", "nan"} /\ p = "homed" /\ q = p
  \/ c \in {"set_tactile_bias", "reset_tactile_bias"} /\ p = "connected" /\ q = p
  \/ c \in {"set_max_effort", "set_controller_config", "get_state"} /\ p # "gone" /\ q = p
Refuses(c, p) ==
  \/ c \in {"idle", "target"} /\ p = "connected"
  \/ c = "get_diagnostics" /\ p = "gone"

(* Item i of a script of n items fits stages a: a[i] before it, a[i + 1]    *)
(* behind it.  A loop has one stage at its head, its end and its exit.      *)
Fits(item, a, i, n, auto) ==
  \/ item.kind = "must" /\ Leads(item.call, a[i], a[i + 1], auto)
  \/ item.kind = "demo" /\ Refuses(item.call, a[i]) /\ a[i + 1] = a[i]
  \/ /\ item.kind \in {"count", "forever"} /\ item.call = "none" /\ item.n \in Nat
     /\ i + item.n <= n /\ a[i + 1] = a[i] /\ a[i + 1 + item.n] = a[i]
  \/ item.kind = "again" /\ item.call = "none" /\ item.n \in Nat /\ item.n < i /\ a[i - item.n] = a[i]
Annotates(a, s, auto) == a \in [1 .. Len(s) + 1 -> Stages] /\ \A i \in 1 .. Len(s) : Fits(s[i], a, i, Len(s), auto)

(* While a call waits. *)
Waited == [connect |-> "connected", connected |-> "connected", run |-> "running", running |-> "running",
           home |-> "homed", stop |-> "stopped", destroy |-> "gone", join |-> "gone"]
Underway(h) ==
  /\ h.code = "-" /\ h.call \in DOMAIN Waited
  /\ h.destroyed <=> Waited[h.call] = "gone"
  /\ h.call \in {"connect", "connected"} => h.publishing # "Succeeded"
  /\ h.call = "connect" => h.requested = "Disconnected"
  /\ h.call = "connected" => h.requested = "Connected" /\ h.homing # "Succeeded"
  /\ h.call \in {"run", "running", "home"} => h.requested = "Running"
  /\ h.call = "home" /\ h.result => AtHome(h)
  /\ h.call = "stop" => h.requested = "Stopped"

(* What call c that leads to stage q comes to: an answer, or a wait.  The   *)
(* answer is no complaint about the order, but to a target that came before *)
(* the loop had stored the end of the homing.                               *)
Answers(c, q, h) ==
  /\ h.call = "none" /\ h.code \in ErrorCodes
  /\ h.code = "None" => InStage(q, h)
  /\ h.code = "WrongCallOrder" => c \in {"target", "nan"} /\ h.early
Comes(c, q, h) == Answers(c, q, h) \/ (Underway(h) /\ q = Waited[h.call])
Steady(h, auto) == ~h.autoReconnect /\ h.loop # "trying" /\ h.autoHome = auto

(* What a pass of the loop leaves alone when it never reconnects. *)
LEMMA LoopLeavesAlone ==
  ASSUME Safe(hand), ~hand.autoReconnect, hand.loop # "trying", ControlLoop \/ SendFails
  PROVE  /\ hand'.autoHome = hand.autoHome /\ ~hand'.autoReconnect /\ hand'.loop # "trying"
         /\ hand'.call = hand.call /\ hand'.code = hand.code /\ hand'.requested = hand.requested
         /\ hand'.destroyed = hand.destroyed /\ hand'.early = hand.early
<1>1. hand \in HandRecord
  BY DEF Safe
<1>2. ~RetryStarts /\ ~RetryFails /\ ~RetrySucceeds
  BY DEF RetryStarts, RetryFails, RetrySucceeds
<1>3. CASE LinkJudged \/ LinkLost \/ SendFails
  BY <1>1, <1>3 DEF HandRecord, LinkJudged, LinkLost, SendFails, Fault, Cancelled
<1>4. CASE DrivesEnabled \/ DrivesStopped \/ LoopLeaves
  BY <1>1, <1>4 DEF HandRecord, DrivesEnabled, DrivesStopped, LoopLeaves
<1>5. CASE HomingSucceeds \/ HomingMissed
  BY <1>1, <1>5 DEF HandRecord, HomingSucceeds, HomingMissed, HomingOver
<1>6. CASE HomingFails
  BY <1>1, <1>6 DEF HandRecord, HomingFails, HomingOver
<1>7. CASE HomingCancelled \/ HomingPublished
  BY <1>1, <1>7 DEF HandRecord, HomingCancelled, HomingPublished, Cancelled
<1> QED
  BY <1>2, <1>3, <1>4, <1>5, <1>6, <1>7 DEF ControlLoop

(* And what it changes: the link is lost, the drives follow ... *)
LEMMA LoopObserves ==
  ASSUME Safe(hand), ~hand.autoReconnect, hand.loop # "trying", ControlLoop \/ SendFails
  PROVE  \/ hand'.observed = hand.observed
         \/ hand'.observed = "Faulted" /\ hand.requested # "Disconnected"
         \/ hand'.observed = hand.requested /\ hand.requested \in {"Running", "Stopped"}
            /\ hand.observed \notin {hand.requested, "Faulted"}
<1>1. hand \in HandRecord
  BY DEF Safe
<1>2. ~RetryStarts /\ ~RetryFails /\ ~RetrySucceeds
  BY DEF RetryStarts, RetryFails, RetrySucceeds
<1>3. CASE LinkJudged \/ LinkLost \/ SendFails
  BY <1>1, <1>3 DEF HandRecord, LinkJudged, LinkLost, SendFails, Fault, Cancelled, Observes, Passes
<1>4. CASE DrivesEnabled \/ DrivesStopped \/ LoopLeaves
  BY <1>1, <1>4 DEF HandRecord, DrivesEnabled, DrivesStopped, LoopLeaves, Follows, Observes
<1>5. CASE HomingSucceeds \/ HomingFails \/ HomingMissed
  BY <1>1, <1>5 DEF HandRecord, HomingSucceeds, HomingFails, HomingMissed, HomingOver
<1>6. CASE HomingCancelled \/ HomingPublished
  BY <1>1, <1>6 DEF HandRecord, HomingCancelled, HomingPublished, Cancelled
<1> QED
  BY <1>2, <1>3, <1>4, <1>5, <1>6 DEF ControlLoop

(* ... and a homing that runs ends, in two steps. *)
LEMMA LoopHomes ==
  ASSUME Safe(hand), ~hand.autoReconnect, hand.loop # "trying", ControlLoop \/ SendFails
  PROVE  \/ /\ hand'.homing = hand.homing /\ hand'.homingRuns = hand.homingRuns
            /\ hand'.result = hand.result /\ hand'.publishing = hand.publishing
         \/ /\ hand.publishing # "-" /\ hand'.homing = hand.publishing /\ hand'.publishing = "-"
            /\ hand'.homingRuns = hand.homingRuns /\ hand'.result = hand.result
         \/ /\ hand.homingRuns /\ ~hand'.homingRuns /\ ~hand'.result
            /\ hand'.homing \in {hand.homing, "Failed"} /\ hand'.publishing # "Succeeded"
         \/ /\ hand.homingRuns /\ ~hand'.homingRuns /\ hand'.result
            /\ hand.requested = "Running" /\ hand.observed \in {"Running", "Faulted"}
            /\ hand'.observed = hand.observed /\ hand'.homing = hand.homing /\ hand'.publishing = "Succeeded"
<1>1. hand \in HandRecord
  BY DEF Safe
<1>2. ~RetryStarts /\ ~RetryFails /\ ~RetrySucceeds
  BY DEF RetryStarts, RetryFails, RetrySucceeds
<1>3. CASE LinkJudged \/ SendFails
  BY <1>1, <1>3 DEF HandRecord, LinkJudged, SendFails, Fault
<1>4. CASE LinkLost
  <2> DEFINE lost == [Fault(hand) EXCEPT !.loop = "silent"]
  <2>1. /\ hand.publishing = "-" /\ lost.homing = hand.homing /\ lost.homingRuns = hand.homingRuns
        /\ lost.result = hand.result /\ lost.publishing = hand.publishing /\ lost \in HandRecord
    BY <1>1, <1>4, Names DEF HandRecord, LinkLost, Fault, Observes, Passes
  <2>2. hand' = lost \/ (hand.homingRuns /\ hand' = Cancelled(lost))
    BY <1>4 DEF LinkLost
  <2> HIDE DEF lost
  <2>3. hand' = Cancelled(lost) =>
          ~hand'.homingRuns /\ ~hand'.result /\ hand'.homing = "Failed" /\ hand'.publishing = "-"
    BY <2>1 DEF HandRecord, Cancelled
  <2> QED
    BY <2>1, <2>2, <2>3
<1>5. CASE DrivesEnabled \/ DrivesStopped \/ LoopLeaves
  BY <1>1, <1>5 DEF HandRecord, DrivesEnabled, DrivesStopped, LoopLeaves
<1>6. CASE HomingSucceeds
  BY <1>1, <1>6 DEF HandRecord, HomingSucceeds, HomingOver
<1>7. CASE HomingFails
  BY <1>1, <1>7 DEF HandRecord, HomingFails, HomingOver
<1>8. CASE HomingMissed
  BY <1>1, <1>8 DEF HandRecord, HomingMissed, HomingOver
<1>9. CASE HomingCancelled
  BY <1>1, <1>9 DEF HandRecord, HomingCancelled, Cancelled, Observes, Passes
<1>10. CASE HomingPublished
  BY <1>1, <1>10 DEF HandRecord, HomingPublished
<1> QED
  BY <1>2, <1>3, <1>4, <1>5, <1>6, <1>7, <1>8, <1>9, <1>10 DEF ControlLoop

(* A hand at home stays there, and a homing that succeeds comes there. *)
LEMMA LoopKeepsHome ==
  ASSUME Safe(hand), ~hand.autoReconnect, hand.loop # "trying", ControlLoop \/ SendFails,
         hand.requested = "Running"
  PROVE  /\ AtHome(hand) => AtHome(hand')
         /\ (hand.result => AtHome(hand)) /\ hand'.result => AtHome(hand')
<1>1. hand.observed \in {"Running", "Faulted"} => hand'.observed \in {"Running", "Faulted"}
  BY LoopObserves
<1>2. CASE /\ hand'.homing = hand.homing /\ hand'.homingRuns = hand.homingRuns
           /\ hand'.result = hand.result /\ hand'.publishing = hand.publishing
  BY <1>1, <1>2 DEF AtHome
<1>3. CASE /\ hand.publishing # "-" /\ hand'.homing = hand.publishing /\ hand'.publishing = "-"
           /\ hand'.homingRuns = hand.homingRuns /\ hand'.result = hand.result
  <2>1. hand.publishing \in {"-", "Succeeded", "Failed"}
    BY DEF Safe, HandRecord
  <2> QED
    BY <1>1, <1>3, <2>1 DEF AtHome
<1>4. CASE hand.homingRuns /\ ~hand'.homingRuns /\ ~hand'.result
  BY <1>4 DEF AtHome
<1>5. CASE /\ hand.homingRuns /\ ~hand'.homingRuns /\ hand'.result /\ hand'.observed = hand.observed
           /\ hand.observed \in {"Running", "Faulted"} /\ hand'.publishing = "Succeeded"
  BY <1>5 DEF AtHome
<1> QED
  BY <1>2, <1>3, <1>4, <1>5, LoopHomes

(* So a hand stays in its stage, and a wait goes on. *)
LEMMA LoopKeepsStage ==
  ASSUME Safe(hand), ~hand.autoReconnect, hand.loop # "trying", ControlLoop \/ SendFails
  PROVE  /\ \A p \in Stages : InStage(p, hand) => InStage(p, hand')
         /\ Underway(hand) => Underway(hand')
<1>1. \A p \in Stages : InStage(p, hand) => InStage(p, hand')
  <2> SUFFICES ASSUME NEW p \in Stages, InStage(p, hand) PROVE InStage(p, hand')
    OBVIOUS
  <2>1. CASE p \in {"new", "gone"}
    BY <2>1, LoopLeavesAlone, LoopObserves, LoopHomes DEF InStage
  <2>2. CASE p = "connected"
    BY <2>2, LoopLeavesAlone, LoopObserves, LoopHomes DEF InStage
  <2>3. CASE p = "running"
    BY <2>3, LoopLeavesAlone, LoopObserves DEF InStage
  <2>4. CASE p = "homed"
    BY <2>4, LoopLeavesAlone, LoopKeepsHome DEF InStage
  <2>5. CASE p = "stopped"
    BY <2>5, LoopLeavesAlone, LoopObserves DEF InStage
  <2> QED
    BY <2>1, <2>2, <2>3, <2>4, <2>5 DEF Stages
<1>2. ASSUME Underway(hand) PROVE Underway(hand')
  <2>1. hand.call = "home" /\ hand'.result => AtHome(hand')
    BY <1>2, LoopKeepsHome DEF Underway
  <2>2. /\ hand.call \in {"connect", "connected"} => hand.publishing # "Succeeded" /\ hand.requested # "Running"
        /\ hand.call = "connected" => hand.homing # "Succeeded"
    BY <1>2 DEF Underway
  <2>3. /\ hand.call \in {"connect", "connected"} => hand'.publishing # "Succeeded"
        /\ hand.call = "connected" => hand'.homing # "Succeeded"
    BY <2>2, LoopHomes
  <2> QED
    BY <1>2, <2>1, <2>3, LoopLeavesAlone DEF Underway
<1> QED
  BY <1>1, <1>2

(* A call in its stage is right, or told of the fault, or a target too early. *)
LEMMA RightCall ==
  ASSUME Safe(hand), NEW p \in Stages, NEW q \in Stages, InStage(p, hand),
         NEW c \in Callable, Leads(c, p, q, hand.autoHome)
  PROVE  \/ Refusal(c) \in {"None", "CommunicationLost"}
         \/ Refusal(c) = "WrongCallOrder" /\ c \in {"target", "nan"} /\ hand.publishing # "-"
<1>1. hand.destroyed \in BOOLEAN
  BY DEF Safe, HandRecord
<1>2. CASE c \in Unchecked /\ c \notin DOMAIN ActionOf
  <2>1. hand.destroyed => c = "destroy"
    <3>1. p # "gone" => ~hand.destroyed
      BY DEF InStage, Stages
    <3> QED
      BY <1>2, <3>1 DEF Leads, Unchecked
  <2> QED
    BY <1>2, <2>1 DEF Refusal
<1>3. CASE c \in DOMAIN ActionOf
  <2>1. Refusal(c) = CheckActionAllowed(ActionOf[c], hand.requested, hand.observed, hand.destroyed,
                                        "ReceiveSilence", c = "idle" \/ hand.homing = "Succeeded")
    <3>1. c \notin Unchecked
      BY <1>3 DEF ActionOf, Unchecked
    <3> QED
      BY <1>3, <3>1 DEF Refusal
  <2>2. c \notin Unchecked
    BY <1>3 DEF ActionOf, Unchecked
  <2>3. ~hand.destroyed
    BY <2>2 DEF InStage, Stages, Leads, Unchecked
  <2>4. CASE hand.observed = "Faulted"
    BY <2>1, <2>3, <2>4 DEF CheckActionAllowed, FaultedCode
  <2>5. ASSUME hand.observed # "Faulted"
        PROVE  /\ hand.requested \in AllowedStates[ActionOf[c]]
               /\ ActionOf[c] = "SetCommand" =>
                    /\ hand.observed = "Running"
                    /\ \/ c = "idle" \/ hand.homing = "Succeeded"
                       \/ c \in {"target", "nan"} /\ hand.publishing # "-"
    <3>1. /\ p = "new" => hand.requested = "Disconnected"
          /\ p = "connected" => hand.requested = "Connected"
          /\ p = "running" => hand.requested = "Running" /\ hand.observed = "Running"
          /\ p = "homed" => /\ hand.requested = "Running" /\ hand.observed = "Running"
                            /\ hand.homing = "Succeeded" \/ hand.publishing # "-"
          /\ p = "stopped" => hand.requested = "Stopped"
      BY <2>5 DEF InStage, AtHome
    <3>2. /\ c = "connect" => ActionOf[c] = "Connect"
          /\ c = "run" => ActionOf[c] = "Run"
          /\ c = "home" => ActionOf[c] = "Home"
          /\ c = "stop" => ActionOf[c] = "Stop"
          /\ c \in {"idle", "target", "nan"} => ActionOf[c] = "SetCommand"
          /\ c = "set_tactile_bias" => ActionOf[c] = "SetTactileBias"
          /\ c = "reset_tactile_bias" => ActionOf[c] = "ResetTactileBias"
      BY DEF ActionOf
    <3>3. /\ AllowedStates["Connect"] = {"Disconnected", "Connected"}
          /\ AllowedStates["Run"] = {"Connected", "Running", "Stopped"}
          /\ AllowedStates["Home"] = {"Connected", "Running", "Stopped"}
          /\ AllowedStates["Stop"] = {"Running", "Stopped"}
          /\ AllowedStates["SetCommand"] = {"Running"}
          /\ AllowedStates["SetTactileBias"] = {"Connected", "Running", "Stopped"}
          /\ AllowedStates["ResetTactileBias"] = {"Connected", "Running", "Stopped"}
      BY DEF AllowedStates
    <3>4. CASE c \in {"connect", "run", "home", "stop"}
      BY <3>1, <3>2, <3>3, <3>4 DEF Leads
    <3>5. CASE c \in {"idle", "target", "nan", "set_tactile_bias", "reset_tactile_bias"}
      BY <3>1, <3>2, <3>3, <3>5 DEF Leads
    <3> QED
      BY <2>2, <3>4, <3>5 DEF Leads, Unchecked
  <2>6. ASSUME hand.observed # "Faulted",
               ActionOf[c] = "SetCommand" => hand.observed = "Running" /\ (c = "idle" \/ hand.homing = "Succeeded")
        PROVE  Refusal(c) = "None"
    BY <2>1, <2>3, <2>5, <2>6 DEF CheckActionAllowed
  <2>7. Refusal(c) \in {"None", "CommunicationLost", "WrongCallOrder"}
    BY <2>1, <2>3 DEF CheckActionAllowed, FaultedCode
  <2> QED
    BY <2>4, <2>5, <2>6, <2>7
<1> QED
  BY <1>2, <1>3 DEF Callable

(* A call that is not for its stage is refused. *)
LEMMA WrongCall ==
  ASSUME Safe(hand), NEW p \in Stages, InStage(p, hand), NEW c \in Callable, Refuses(c, p)
  PROVE  Refusal(c) # "None"
<1>1. CASE c \in {"idle", "target"} /\ p = "connected"
  <2>1. /\ c \in DOMAIN ActionOf /\ c \notin Unchecked /\ ActionOf[c] = "SetCommand"
        /\ AllowedStates["SetCommand"] = {"Running"}
    BY <1>1 DEF ActionOf, AllowedStates, Unchecked
  <2>2. ~hand.destroyed /\ hand.requested = "Connected"
    BY <1>1 DEF InStage
  <2>3. Refusal(c) = CheckActionAllowed("SetCommand", hand.requested, hand.observed, hand.destroyed,
                                        "ReceiveSilence", c = "idle" \/ hand.homing = "Succeeded")
    BY <2>1 DEF Refusal
  <2> QED
    BY <2>1, <2>2, <2>3 DEF CheckActionAllowed, FaultedCode
<1>2. CASE c = "get_diagnostics" /\ p = "gone"
  BY <1>2 DEF InStage, Refusal, ActionOf, Unchecked
<1> QED
  BY <1>1, <1>2 DEF Refuses

(* An answer changes nothing that a stage is about. *)
LEMMA AnswerKeepsStage ==
  ASSUME NEW h \in HandRecord, NEW code \in ErrorCodes, Answer(h, code)
  PROVE  /\ hand'.call = "none" /\ hand'.code = code /\ hand'.early = h.early
         /\ \A p \in Stages : InStage(p, h) <=> InStage(p, hand')
         /\ \A auto \in BOOLEAN : Steady(h, auto) <=> Steady(hand', auto)
<1>1. /\ hand'.call = "none" /\ hand'.code = code /\ hand'.destroyed = h.destroyed
      /\ hand'.requested = h.requested /\ hand'.observed = h.observed /\ hand'.homing = h.homing
      /\ hand'.homingRuns = h.homingRuns /\ hand'.publishing = h.publishing /\ hand'.early = h.early
      /\ hand'.autoReconnect = h.autoReconnect /\ hand'.autoHome = h.autoHome /\ hand'.loop = h.loop
  BY DEF Answer, HandRecord
<1> QED
  BY <1>1 DEF InStage, AtHome, Steady, Stages

(* Nor does a refusal, which notes only whether it came too early. *)
LEMMA RefusalKeepsStage ==
  ASSUME Safe(hand), NEW c \in Callable, Refusal(c) # "None", Begin(c)
  PROVE  /\ hand'.call = "none" /\ hand'.code = Refusal(c)
         /\ hand.publishing # "-" => hand'.early
         /\ \A p \in Stages : InStage(p, hand) => InStage(p, hand')
         /\ \A auto \in BOOLEAN : Steady(hand, auto) => Steady(hand', auto)
<1>1. hand \in HandRecord /\ Refusal(c) \in ErrorCodes
  BY Refused DEF Safe
<1>2. PICK e \in BOOLEAN : e = (hand.publishing # "-")
  OBVIOUS
<1> DEFINE h == [hand EXCEPT !.early = e]
<1>3. /\ h \in HandRecord /\ h.early = e /\ h.destroyed = hand.destroyed
      /\ h.requested = hand.requested /\ h.observed = hand.observed /\ h.homing = hand.homing
      /\ h.homingRuns = hand.homingRuns /\ h.publishing = hand.publishing
      /\ h.autoReconnect = hand.autoReconnect /\ h.autoHome = hand.autoHome /\ h.loop = hand.loop
  BY <1>1 DEF HandRecord
<1>4. Answer(h, Refusal(c))
  BY <1>2 DEF Begin
<1> HIDE DEF h
<1>5. /\ \A p \in Stages : InStage(p, hand) => InStage(p, h)
      /\ \A auto \in BOOLEAN : Steady(hand, auto) => Steady(h, auto)
  BY <1>3 DEF InStage, AtHome, Steady, Stages
<1> QED
  BY <1>1, <1>2, <1>3, <1>4, <1>5, AnswerKeepsStage

(* run() and home(). *)
LEMMA ControlComes ==
  ASSUME NEW h \in HandRecord, NEW auto \in BOOLEAN, Steady(h, auto), ~h.destroyed, h.code = "-",
         NEW c \in {"run", "home"}, RequestControl(h, c), NEW call
  PROVE  Comes(call, Waited[c], hand') /\ Steady(hand', auto)
<1>1. CASE Answer(h, "CommunicationLost")
  BY <1>1, AnswerKeepsStage DEF Comes, Answers, ErrorCodes
<1>2. CASE Wait([h EXCEPT !.requested = "Running", !.homingRuns = @ \/ c = "home", !.result = @ /\ c # "home"], c)
  <2>1. PICK b \in BOOLEAN, r \in BOOLEAN :
          /\ c = "home" => ~r
          /\ hand' = [[h EXCEPT !.requested = "Running", !.homingRuns = b, !.result = r] EXCEPT !.call = c]
    <3>1. PICK b \in BOOLEAN : b = (h.homingRuns \/ c = "home")
      OBVIOUS
    <3>2. PICK r \in BOOLEAN : r = (h.result /\ c # "home")
      OBVIOUS
    <3> QED
      BY <1>2, <3>1, <3>2 DEF HandRecord, Wait
  <2>2. /\ hand'.call = c /\ hand'.code = "-" /\ hand'.requested = "Running" /\ (c = "home" => ~hand'.result)
        /\ hand'.destroyed = h.destroyed /\ hand'.autoReconnect = h.autoReconnect
        /\ hand'.autoHome = h.autoHome /\ hand'.loop = h.loop
    BY <2>1 DEF HandRecord
  <2> QED
    BY <2>2 DEF Comes, Underway, Waited, Steady
<1> QED
  BY <1>1, <1>2 DEF RequestControl

(* destroy(): what is behind it is gone. *)
LEMMA DestroyComes ==
  ASSUME Safe(hand), hand.call = "none", hand.code = "-", NEW auto \in BOOLEAN, Steady(hand, auto), Destroy,
         NEW call
  PROVE  Comes(call, "gone", hand') /\ Steady(hand', auto)
<1>1. hand \in HandRecord
  BY DEF Safe
<1>2. CASE Done /\ hand.destroyed
  <2>1. "None" \in ErrorCodes /\ "gone" \in Stages
    BY DEF ErrorCodes, Stages
  <2>2. InStage("gone", hand)
    BY <1>2 DEF InStage
  <2> QED
    BY <1>1, <1>2, <2>1, <2>2, AnswerKeepsStage DEF Comes, Answers, Done
<1>3. CASE \/ Wait([hand EXCEPT !.destroyed = TRUE, !.requested = "Stopped"], "destroy")
           \/ Exit([hand EXCEPT !.destroyed = TRUE])
  <2>1. /\ hand'.call \in {"destroy", "join"} /\ hand'.code = "-" /\ hand'.destroyed
        /\ hand'.autoReconnect = hand.autoReconnect /\ hand'.autoHome = hand.autoHome
        /\ hand'.loop = hand.loop
    BY <1>1, <1>3 DEF HandRecord, Wait, Exit
  <2> QED
    BY <2>1 DEF Comes, Underway, Waited, Steady
<1> QED
  BY <1>2, <1>3 DEF Destroy

(* A right call that begins. *)
LEMMA CallBegins ==
  ASSUME Safe(hand), hand.call = "none", hand.code = "-", NEW auto \in BOOLEAN, Steady(hand, auto),
         NEW p \in Stages, NEW q \in Stages, InStage(p, hand),
         NEW c \in Callable, Leads(c, p, q, auto), Begin(c)
  PROVE  Comes(c, q, hand') /\ Steady(hand', auto)
<1>1. hand \in HandRecord /\ hand.autoHome = auto
  BY DEF Safe, Steady
<1>2. CASE Refusal(c) # "None"
  <2>1. \/ Refusal(c) = "CommunicationLost"
        \/ Refusal(c) = "WrongCallOrder" /\ c \in {"target", "nan"} /\ hand.publishing # "-"
    BY <1>1, <1>2, RightCall
  <2>2. {"CommunicationLost", "WrongCallOrder"} \subseteq ErrorCodes \ {"None"}
    BY DEF ErrorCodes
  <2> QED
    BY <1>2, <2>1, <2>2, RefusalKeepsStage DEF Comes, Answers
<1>3. CASE Refusal(c) = "None"
  <2>1. Enter(c)
    BY <1>3 DEF Begin
  <2>2. ASSUME Done, p = q PROVE Comes(c, q, hand') /\ Steady(hand', auto)
    <3>1. "None" \in ErrorCodes \ {"WrongCallOrder"}
      BY DEF ErrorCodes
    <3> QED
      BY <1>1, <2>2, <3>1, AnswerKeepsStage DEF Done, Comes, Answers
  <2>3. CASE c = "destroy"
    <3>1. Destroy /\ q = "gone"
      BY <2>1, <2>3 DEF Enter, Leads
    <3> QED
      BY <3>1, DestroyComes
  <2>4. CASE c = "connect"
    <3>1. /\ p = "new" /\ q = "connected" /\ ~hand.destroyed /\ hand.requested = "Disconnected"
          /\ hand.publishing # "Succeeded"
      BY <2>4 DEF Leads, InStage
    <3>2. Wait(hand, "connect")
      BY <2>1, <2>4, <3>1 DEF Enter, Both
    <3>3. /\ hand'.call = "connect" /\ hand'.code = "-" /\ ~hand'.destroyed /\ hand'.requested = "Disconnected"
          /\ hand'.publishing # "Succeeded"
          /\ hand'.autoReconnect = hand.autoReconnect /\ hand'.autoHome = hand.autoHome
          /\ hand'.loop = hand.loop
      BY <1>1, <3>1, <3>2 DEF HandRecord, Wait
    <3> QED
      BY <3>1, <3>3 DEF Comes, Underway, Waited, Steady
  <2>5. CASE c = "stop"
    <3>1. /\ p \in {"running", "homed"} /\ q = "stopped"
      BY <2>5 DEF Leads
    <3>2. ~hand.destroyed /\ hand.requested = "Running"
      BY <3>1 DEF InStage
    <3>3. Wait([hand EXCEPT !.requested = "Stopped"], "stop")
      BY <2>1, <2>5, <3>2 DEF Enter, Both
    <3>4. /\ hand'.call = "stop" /\ hand'.code = "-" /\ ~hand'.destroyed /\ hand'.requested = "Stopped"
          /\ hand'.autoReconnect = hand.autoReconnect /\ hand'.autoHome = hand.autoHome
          /\ hand'.loop = hand.loop
      BY <1>1, <3>2, <3>3 DEF HandRecord, Wait
    <3> QED
      BY <3>1, <3>4 DEF Comes, Underway, Waited, Steady
  <2>6. ASSUME c \in {"run", "home"}
        PROVE  ~hand.destroyed
    <3>1. p \in {"connected", "running", "homed", "stopped"}
      BY <2>6 DEF Leads
    <3> QED
      BY <3>1 DEF InStage
  <2>7. ASSUME Home, c \in {"run", "home"} PROVE Comes(c, "homed", hand') /\ Steady(hand', auto)
    <3> DEFINE h == [hand EXCEPT !.homing = "InProgress"]
    <3>1. /\ h \in HandRecord /\ ~h.destroyed /\ h.code = "-"
          /\ h.autoReconnect = hand.autoReconnect /\ h.autoHome = hand.autoHome /\ h.loop = hand.loop
      BY <1>1, <2>6, <2>7 DEF HandRecord
    <3>2. RequestControl(h, "home") /\ Steady(h, auto)
      BY <2>7, <3>1 DEF Home, Steady
    <3>3. Waited["home"] = "homed"
      BY DEF Waited
    <3> HIDE DEF h
    <3> QED
      BY <3>1, <3>2, <3>3, ControlComes
  <2>8. CASE c = "home"
    <3>1. Home /\ q = "homed"
      BY <2>1, <2>8 DEF Enter, Leads
    <3> QED
      BY <2>7, <2>8, <3>1
  <2>9. CASE c = "run" /\ auto
    <3>1. p = "connected" /\ q = "homed"
      BY <2>9 DEF Leads
    <3>2. hand.homing # "Succeeded"
      BY <3>1 DEF InStage
    <3>3. Home
      BY <1>1, <2>1, <2>9, <3>2 DEF Enter
    <3> QED
      BY <2>7, <2>9, <3>1, <3>3
  <2>10. CASE c = "run" /\ ~auto
    <3>1. p \in {"connected", "stopped"} /\ q = "running"
      BY <2>10 DEF Leads
    <3>2. hand.requested \in {"Connected", "Stopped"}
      BY <3>1 DEF InStage
    <3>3. RequestControl(hand, "run") /\ Waited["run"] = "running"
      BY <1>1, <2>1, <2>10, <3>2 DEF Enter, Both, Run, Waited
    <3> QED
      BY <1>1, <2>6, <2>10, <3>1, <3>3, ControlComes
  <2>11. CASE c = "set_tactile_bias"
    <3>1. Answer(hand, "None") \/ Answer(hand, "CommunicationLost")
      BY <2>1, <2>11 DEF Enter
    <3>2. p = q
      BY <2>11 DEF Leads
    <3>3. {"None", "CommunicationLost"} \subseteq ErrorCodes \ {"WrongCallOrder"}
      BY DEF ErrorCodes
    <3> QED
      BY <1>1, <3>1, <3>2, <3>3, AnswerKeepsStage DEF Comes, Answers
  <2>12. CASE c \in {"idle", "target", "nan", "reset_tactile_bias", "set_max_effort", "set_controller_config",
                     "get_state"}
    <3>1. Done
      BY <2>1, <2>12 DEF Enter
    <3>2. p = q
      BY <2>12 DEF Leads
    <3> QED
      BY <2>2, <3>1, <3>2
  <2> QED
    BY <2>3, <2>4, <2>5, <2>8, <2>9, <2>10, <2>11, <2>12 DEF Leads
<1> QED
  BY <1>2, <1>3

(* A wait that ends. *)
LEMMA CallReturns ==
  ASSUME Safe(hand), NEW auto \in BOOLEAN, Steady(hand, auto), NEW q \in Stages, NEW call,
         Underway(hand), q = Waited[hand.call], CallEnds
  PROVE  Comes(call, q, hand') /\ Steady(hand', auto)
<1>1. hand \in HandRecord /\ hand.call \in DOMAIN Waited
  BY DEF Safe, Underway
<1>2. ~ReconnectEnds /\ hand.call # "disconnect"
  BY <1>1 DEF ReconnectEnds, Waiting, Waited
<1>3. ASSUME NEW code \in ErrorCodes \ {"None", "WrongCallOrder"}, NEW h \in HandRecord, Answer(h, code),
             Steady(h, auto)
      PROVE  Comes(call, q, hand') /\ Steady(hand', auto)
  BY <1>3, AnswerKeepsStage DEF Comes, Answers
<1>4. ASSUME NEW h \in HandRecord, Answer(h, "None"), InStage(q, h), Steady(h, auto)
      PROVE  Comes(call, q, hand') /\ Steady(hand', auto)
  <2>1. "None" \in ErrorCodes \ {"WrongCallOrder"}
    BY DEF ErrorCodes
  <2> QED
    BY <1>4, <2>1, AnswerKeepsStage DEF Comes, Answers
<1>5. {"InterfaceUnavailable", "CommunicationLost", "HardwareFault"} \subseteq ErrorCodes \ {"None", "WrongCallOrder"}
  BY DEF ErrorCodes
<1>6. CASE ConnectEnds
  <2>1. /\ hand.call = "connect" /\ q = "connected" /\ ~hand.destroyed /\ hand.code = "-"
        /\ hand.publishing # "Succeeded"
    BY <1>6 DEF ConnectEnds, Waiting, Waited, Underway
  <2>2. CASE Wait(Opened(hand), "connected")
    <3>1. /\ ~hand'.destroyed /\ hand'.requested = "Connected" /\ hand'.call = "connected" /\ hand'.code = "-"
          /\ hand'.homing = "NotRun" /\ hand'.publishing # "Succeeded" /\ hand'.loop = "up"
          /\ hand'.autoReconnect = hand.autoReconnect /\ hand'.autoHome = hand.autoHome
      BY <1>1, <2>1, <2>2 DEF HandRecord, Wait, Opened
    <3> QED
      BY <2>1, <3>1 DEF Comes, Underway, Waited, Steady
  <2>3. CASE Answer([hand EXCEPT !.observed = "Disconnected"], "InterfaceUnavailable")
    <3> DEFINE h == [hand EXCEPT !.observed = "Disconnected"]
    <3>1. h \in HandRecord
      BY <1>1, Names DEF HandRecord
    <3>2. Steady(h, auto)
      BY <1>1 DEF HandRecord, Steady
    <3> HIDE DEF h
    <3> QED
      BY <1>3, <1>5, <2>3, <3>1, <3>2 DEF h
  <2>4. CASE Answer([Closed(hand) EXCEPT !.observed = "Disconnected", !.homing = "NotRun"], "CommunicationLost")
    <3> DEFINE h == [Closed(hand) EXCEPT !.observed = "Disconnected", !.homing = "NotRun"]
    <3>1. h \in HandRecord
      BY <1>1, Names DEF HandRecord, Closed
    <3>2. Steady(h, auto)
      BY <1>1 DEF HandRecord, Steady, Closed
    <3> HIDE DEF h
    <3> QED
      BY <1>3, <1>5, <2>4, <3>1, <3>2 DEF h
  <2> QED
    BY <1>6, <2>2, <2>3, <2>4 DEF ConnectEnds, Opens
<1>7. CASE JoinEnds
  <2>1. hand.call = "join" /\ q = "gone" /\ hand.destroyed
    BY <1>7 DEF JoinEnds, Waiting, Waited, Underway
  <2> DEFINE h == Closed(hand)
  <2>2. /\ h \in HandRecord /\ h.destroyed /\ h.autoReconnect = hand.autoReconnect /\ h.autoHome = hand.autoHome
        /\ h.loop = "gone"
    BY <1>1, <2>1, Names DEF HandRecord, Closed
  <2>3. Answer(h, "None")
    BY <1>7 DEF JoinEnds
  <2> HIDE DEF h
  <2>4. InStage(q, h) /\ Steady(h, auto)
    BY <2>1, <2>2 DEF InStage, Steady
  <2> QED
    BY <1>4, <2>2, <2>3, <2>4
<1>8. CASE Confirm
  <2>1. hand.call \in {"connected", "running"} /\ ~hand.destroyed
    BY <1>8 DEF Confirm, Waited, Underway
  <2>2. PICK o \in {"Connected", "Running"} :
          /\ o = (IF hand.call = "connected" THEN "Connected" ELSE "Running")
          /\ Answer([hand EXCEPT !.observed = o], "None")
    BY <1>8 DEF Confirm, Waiting
  <2> DEFINE h == [hand EXCEPT !.observed = o]
  <2>3. /\ h \in HandRecord /\ h.observed = o /\ h.requested = hand.requested /\ h.homing = hand.homing
        /\ h.publishing = hand.publishing /\ h.destroyed = hand.destroyed /\ h.loop = hand.loop
        /\ h.autoReconnect = hand.autoReconnect /\ h.autoHome = hand.autoHome
    BY <1>1, <2>2, Names DEF HandRecord
  <2> HIDE DEF h
  <2>4. Steady(h, auto)
    BY <2>3 DEF Steady
  <2>5. CASE hand.call = "connected"
    <3>1. /\ q = "connected" /\ hand.requested = "Connected" /\ hand.homing # "Succeeded"
          /\ hand.publishing # "Succeeded" /\ o = "Connected"
      BY <2>2, <2>5 DEF Underway, Waited
    <3>2. InStage(q, h)
      BY <2>1, <2>3, <3>1 DEF InStage
    <3> QED
      BY <1>4, <2>2, <2>3, <2>4, <3>2 DEF h
  <2>6. CASE hand.call = "running"
    <3>1. q = "running" /\ hand.requested = "Running" /\ o = "Running"
      BY <2>2, <2>6 DEF Underway, Waited
    <3>2. InStage(q, h)
      BY <2>1, <2>3, <3>1 DEF InStage
    <3> QED
      BY <1>4, <2>2, <2>3, <2>4, <3>2 DEF h
  <2> QED
    BY <2>1, <2>5, <2>6
<1>9. CASE RunEnds
  <2>1. hand.call = "run" /\ q = "running" /\ ~hand.destroyed /\ hand.requested = "Running" /\ hand.code = "-"
    <3>1. hand.call = "run"
      BY <1>9 DEF RunEnds, Waiting
    <3> QED
      BY <3>1 DEF Waited, Underway
  <2>2. CASE Wait(hand, "running")
    <3>1. /\ hand'.call = "running" /\ hand'.code = "-" /\ ~hand'.destroyed /\ hand'.requested = "Running"
          /\ hand'.autoReconnect = hand.autoReconnect /\ hand'.autoHome = hand.autoHome
          /\ hand'.loop = hand.loop
      BY <1>1, <2>1, <2>2 DEF HandRecord, Wait
    <3> QED
      BY <2>1, <3>1 DEF Comes, Underway, Waited, Steady
  <2>3. CASE Answer([hand EXCEPT !.requested = "Stopped"], Unable)
    <3> DEFINE h == [hand EXCEPT !.requested = "Stopped"]
    <3>1. h \in HandRecord
      BY <1>1, Names DEF HandRecord
    <3>2. Steady(h, auto)
      BY <1>1 DEF HandRecord, Steady
    <3> HIDE DEF h
    <3> QED
      BY <1>3, <2>3, <3>1, <3>2, Codes DEF h
  <2>4. CASE \E some \in BOOLEAN : Unconfirmed([hand EXCEPT !.requested = "Stopped", !.powered = @ \/ some])
    <3>1. PICK some \in BOOLEAN : Unconfirmed([hand EXCEPT !.requested = "Stopped", !.powered = @ \/ some])
      BY <2>4
    <3>2. PICK b \in BOOLEAN : b = (hand.powered \/ some)
      OBVIOUS
    <3> DEFINE h == [hand EXCEPT !.requested = "Stopped", !.powered = b, !.hurt = TRUE]
    <3>3. Answer(h, Unable)
      BY <1>1, <3>1, <3>2 DEF HandRecord, Unconfirmed, Answer
    <3>4. h \in HandRecord
      BY <1>1, Names DEF HandRecord
    <3>5. Steady(h, auto)
      BY <1>1 DEF HandRecord, Steady
    <3> HIDE DEF h
    <3> QED
      BY <1>3, <3>3, <3>4, <3>5, Codes
  <2> QED
    BY <1>9, <2>2, <2>3, <2>4 DEF RunEnds
<1>10. CASE HomeEnds
  <2>1. /\ hand.call = "home" /\ q = "homed" /\ ~hand.destroyed /\ hand.requested = "Running"
        /\ hand.result => AtHome(hand)
    <3>1. hand.call = "home"
      BY <1>10 DEF HomeEnds, Waiting
    <3> QED
      BY <3>1 DEF Waited, Underway
  <2>2. CASE Answer(hand, "CommunicationLost") \/ Answer(hand, "HardwareFault")
    BY <1>1, <1>3, <1>5, <2>2
  <2>3. CASE hand.result /\ Answer(hand, "None")
    <3>1. InStage(q, hand)
      BY <2>1, <2>3 DEF InStage
    <3> QED
      BY <1>1, <1>4, <2>3, <3>1
  <2> QED
    BY <1>10, <2>2, <2>3 DEF HomeEnds
<1>11. CASE StopEnds
  <2>1. hand.call = "stop" /\ q = "stopped" /\ ~hand.destroyed /\ hand.requested = "Stopped"
    BY <1>2, <1>11 DEF StopEnds, Waited, Underway
  <2>2. CASE hand.observed = "Stopped" /\ Done
    <3>1. InStage(q, hand)
      BY <2>1, <2>2 DEF InStage
    <3> QED
      BY <1>1, <1>4, <2>2, <3>1 DEF Done
  <2>3. CASE Answer(hand, "CommunicationLost")
    BY <1>1, <1>3, <1>5, <2>3
  <2>4. CASE Unconfirmed(hand)
    <3> DEFINE h == [hand EXCEPT !.hurt = TRUE]
    <3>1. h \in HandRecord
      BY <1>1 DEF HandRecord
    <3>2. Steady(h, auto)
      BY <1>1 DEF HandRecord, Steady
    <3>3. Answer(h, Unable)
      BY <2>4 DEF Unconfirmed
    <3> HIDE DEF h
    <3> QED
      BY <1>3, <3>1, <3>2, <3>3, Codes
  <2> QED
    BY <1>11, <2>1, <2>2, <2>3, <2>4 DEF StopEnds, Waiting
<1>12. CASE DestroyEnds
  <2>1. hand.call = "destroy" /\ q = "gone" /\ hand.destroyed
    BY <1>12 DEF DestroyEnds, Waiting, Waited, Underway
  <2>2. /\ hand'.call = "join" /\ hand'.code = "-" /\ hand'.destroyed
        /\ hand'.autoReconnect = hand.autoReconnect /\ hand'.autoHome = hand.autoHome
        /\ hand'.loop = hand.loop
    BY <1>1, <1>12, <2>1 DEF HandRecord, DestroyEnds, Exit, Wait, Underway
  <2> QED
    BY <2>1, <2>2 DEF Comes, Underway, Waited, Steady
<1> QED
  BY <1>2, <1>6, <1>7, <1>8, <1>9, <1>10, <1>11, <1>12 DEF CallEnds

-----------------------------------------------------------------------------
(* Every example that walks one path walks through the stages.             *)

(* Script s leads from stage p to stage q. *)
Path(s, p, q, auto) ==
  /\ s \in Scripts
  /\ \E a : Annotates(a, s, auto) /\ a[1] = p /\ a[Len(s) + 1] = q

(* One item. *)
LEMMA OneStep ==
  ASSUME NEW c \in Callable, NEW p \in Stages, NEW q \in Stages, NEW auto
  PROVE  /\ Leads(c, p, q, auto) => Path(Must(c), p, q, auto)
         /\ Refuses(c, p) => Path(Demo(c), p, p, auto)
<1>1. Must(c) \in Scripts /\ Demo(c) \in Scripts
  <2>1. 0 \in Nat /\ "must" \in Kinds \ {"again"}
    BY DEF Kinds
  <2> QED
    BY <2>1, OneItem
<1>2. /\ Len(Must(c)) = 1 /\ Must(c)[1].kind = "must" /\ Must(c)[1].call = c
      /\ Len(Demo(c)) = 1 /\ Demo(c)[1].kind = "demo" /\ Demo(c)[1].call = c
  BY DEF Must, Demo
<1>3. ASSUME NEW s \in Scripts, Len(s) = 1, NEW r \in Stages,
             \A a : a[1] = p /\ a[2] = r => Fits(s[1], a, 1, 1, auto)
      PROVE  Path(s, p, r, auto)
  <2> DEFINE a == [i \in 1 .. 2 |-> IF i = 1 THEN p ELSE r]
  <2>1. a \in [1 .. 2 -> Stages] /\ a[1] = p /\ a[2] = r
    OBVIOUS
  <2> HIDE DEF a
  <2>2. Annotates(a, s, auto)
    BY <1>3, <2>1 DEF Annotates
  <2> QED
    BY <1>3, <2>1, <2>2 DEF Path
<1>4. ASSUME Leads(c, p, q, auto) PROVE Path(Must(c), p, q, auto)
  <2>1. \A a : a[1] = p /\ a[2] = q => Fits(Must(c)[1], a, 1, 1, auto)
    BY <1>2, <1>4 DEF Fits
  <2> QED
    BY <1>1, <1>2, <1>3, <2>1
<1>5. ASSUME Refuses(c, p) PROVE Path(Demo(c), p, p, auto)
  <2>1. \A a : a[1] = p /\ a[2] = p => Fits(Demo(c)[1], a, 1, 1, auto)
    BY <1>2, <1>5 DEF Fits
  <2> QED
    BY <1>1, <1>2, <1>3, <2>1
<1> QED
  BY <1>4, <1>5

(* One path after the other. *)
LEMMA Onward ==
  ASSUME NEW s, NEW t, NEW p, NEW q, NEW r, NEW auto, Path(s, p, q, auto), Path(t, q, r, auto)
  PROVE  Path(s \o t, p, r, auto)
<1>1. s \in Scripts /\ t \in Scripts /\ s \o t \in Scripts
  BY Joined DEF Path
<1>2. s \in Seq(Items) /\ t \in Seq(Items)
  BY <1>1 DEF Scripts
<1> DEFINE m == Len(s)
           n == Len(t)
<1>3. m \in Nat /\ n \in Nat /\ Len(s \o t) = m + n
  BY <1>2
<1>4. /\ \A i \in 1 .. m : (s \o t)[i] = s[i]
      /\ \A i \in m + 1 .. m + n : (s \o t)[i] = t[i - m]
  BY <1>2
<1>5. PICK a : Annotates(a, s, auto) /\ a[1] = p /\ a[m + 1] = q
  BY DEF Path
<1>6. PICK b : Annotates(b, t, auto) /\ b[1] = q /\ b[n + 1] = r
  BY DEF Path
<1> DEFINE c == [i \in 1 .. m + n + 1 |-> IF i <= m + 1 THEN a[i] ELSE b[i - m]]
<1>7. a \in [1 .. m + 1 -> Stages] /\ b \in [1 .. n + 1 -> Stages]
  BY <1>5, <1>6 DEF Annotates
<1>8. \A i \in 1 .. m : s[i] \in Items
  BY <1>2
<1>9. \A i \in 1 .. n : t[i] \in Items
  BY <1>2
<1>10. c \in [1 .. m + n + 1 -> Stages]
  BY <1>3, <1>7
<1>11. \A i \in 1 .. m + 1 : c[i] = a[i]
  BY <1>3
<1>12. \A i \in 1 .. n + 1 : c[m + i] = b[i]
  BY <1>3, <1>5, <1>6
<1>13. ASSUME NEW i \in 1 .. m PROVE Fits((s \o t)[i], c, i, m + n, auto)
  <2>1. Fits(s[i], a, i, m, auto) /\ (s \o t)[i] = s[i]
    BY <1>4, <1>5, <1>13 DEF Annotates
  <2>2. c[i] = a[i] /\ c[i + 1] = a[i + 1]
    BY <1>3, <1>11, <1>13
  <2>3. ASSUME NEW k \in Nat, i + k <= m PROVE i + k <= m + n /\ c[i + 1 + k] = a[i + 1 + k]
    BY <1>3, <1>11, <1>13, <2>3
  <2>4. ASSUME NEW k \in Nat, k < i PROVE c[i - k] = a[i - k]
    BY <1>3, <1>11, <1>13, <2>4
  <2> HIDE DEF c, m, n
  <2> QED
    BY <2>1, <2>2, <2>3, <2>4 DEF Fits
<1>14. ASSUME NEW i \in 1 .. n PROVE Fits((s \o t)[m + i], c, m + i, m + n, auto)
  <2>1. Fits(t[i], b, i, n, auto) /\ (s \o t)[m + i] = t[i]
    BY <1>3, <1>4, <1>6, <1>14 DEF Annotates
  <2>2. c[m + i] = b[i] /\ c[(m + i) + 1] = b[i + 1]
    <3>1. i + 1 \in 1 .. n + 1 /\ i \in 1 .. n + 1 /\ (m + i) + 1 = m + (i + 1)
      BY <1>3, <1>14
    <3> HIDE DEF c
    <3> QED
      BY <1>12, <3>1
  <2>3. ASSUME NEW k \in Nat, i + k <= n PROVE (m + i) + k <= m + n /\ c[(m + i) + 1 + k] = b[i + 1 + k]
    <3>1. i + 1 + k \in 1 .. n + 1 /\ (m + i) + 1 + k = m + (i + 1 + k) /\ (m + i) + k <= m + n
      BY <1>3, <1>14, <2>3
    <3> HIDE DEF c
    <3> QED
      BY <1>12, <3>1
  <2>4. ASSUME NEW k \in Nat, k < i PROVE k < m + i /\ c[(m + i) - k] = b[i - k]
    <3>1. i - k \in 1 .. n + 1 /\ (m + i) - k = m + (i - k) /\ k < m + i
      BY <1>3, <1>14, <2>4
    <3> HIDE DEF c
    <3> QED
      BY <1>12, <3>1
  <2> HIDE DEF c, m, n
  <2> QED
    BY <2>1, <2>2, <2>3, <2>4 DEF Fits
<1>15. Annotates(c, s \o t, auto)
  <2>1. ASSUME NEW i \in 1 .. m + n PROVE Fits((s \o t)[i], c, i, m + n, auto)
    <3> HIDE DEF c
    <3>1. CASE i <= m
      BY <1>3, <1>13, <2>1, <3>1
    <3>2. CASE i > m
      <4>1. i - m \in 1 .. n /\ m + (i - m) = i
        BY <1>3, <2>1, <3>2
      <4> HIDE DEF m, n
      <4> QED
        BY <1>14, <4>1
    <3> QED
      BY <1>3, <2>1, <3>1, <3>2
  <2> HIDE DEF c, m, n
  <2> QED
    BY <1>3, <1>10, <2>1 DEF Annotates
<1>16. c[1] = p /\ c[Len(s \o t) + 1] = r
  <2>1. 1 \in 1 .. m + 1 /\ n + 1 \in 1 .. n + 1 /\ Len(s \o t) + 1 = m + (n + 1)
    BY <1>3
  <2> HIDE DEF c, m, n
  <2> QED
    BY <1>5, <1>6, <1>11, <1>12, <2>1
<1> HIDE DEF c, m, n
<1> QED
  BY <1>1, <1>15, <1>16 DEF Path

(* A loop has one stage at its head and at its end. *)
LEMMA Around ==
  ASSUME NEW body, NEW p, NEW auto, Path(body, p, p, auto)
  PROVE  Path(Count(body), p, p, auto) /\ Path(Forever(body), p, p, auto)
<1>1. body \in Scripts /\ Count(body) \in Scripts /\ Forever(body) \in Scripts
  BY Looped DEF Path
<1>2. body \in Seq(Items)
  BY <1>1 DEF Scripts
<1> SUFFICES ASSUME NEW kind \in {"count", "forever"}, Loop(kind, body) \in Scripts
             PROVE  Path(Loop(kind, body), p, p, auto)
  BY <1>1 DEF Count, Forever
<1> DEFINE m == Len(body)
           all == Loop(kind, body)
<1>3. m \in Nat /\ Len(all) = m + 2
  BY <1>2 DEF Loop, Control
<1>4. /\ all[1] = [kind |-> kind, call |-> "none", n |-> m + 1]
      /\ all[m + 2] = [kind |-> "again", call |-> "none", n |-> m + 1]
      /\ \A i \in 1 .. m : all[i + 1] = body[i]
  BY <1>2, <1>3 DEF Loop, Control
<1>5. PICK a : Annotates(a, body, auto) /\ a[1] = p /\ a[m + 1] = p
  BY DEF Path
<1>6. a \in [1 .. m + 1 -> Stages] /\ p \in Stages
  BY <1>3, <1>5 DEF Annotates
<1> DEFINE c == [i \in 1 .. m + 3 |-> IF i = 1 \/ i = m + 3 THEN p ELSE a[i - 1]]
<1>7. c \in [1 .. m + 3 -> Stages]
  BY <1>3, <1>6
<1>8. c[1] = p /\ c[m + 3] = p /\ \A i \in 1 .. m + 1 : c[i + 1] = a[i]
  BY <1>3
<1>9. c[2] = p /\ c[m + 2] = p
  <2>1. 1 \in 1 .. m + 1 /\ m + 1 \in 1 .. m + 1 /\ 1 + 1 = 2 /\ (m + 1) + 1 = m + 2
    BY <1>3
  <2> HIDE DEF c
  <2> QED
    BY <1>5, <1>8, <2>1
<1> HIDE DEF all, c
<1>10. Fits(all[1], c, 1, m + 2, auto)
  <2>1. m + 1 \in Nat /\ 1 + (m + 1) <= m + 2 /\ 1 + 1 = 2 /\ 1 + 1 + (m + 1) = m + 3
    BY <1>3
  <2> HIDE DEF m
  <2> QED
    BY <1>4, <1>8, <1>9, <2>1 DEF Fits
<1>11. Fits(all[m + 2], c, m + 2, m + 2, auto)
  <2>1. m + 1 \in Nat /\ m + 1 < m + 2 /\ (m + 2) - (m + 1) = 1
    BY <1>3
  <2> HIDE DEF m
  <2> QED
    BY <1>4, <1>8, <1>9, <2>1 DEF Fits
<1>12. ASSUME NEW i \in 1 .. m PROVE Fits(all[i + 1], c, i + 1, m + 2, auto)
  <2>1. Fits(body[i], a, i, m, auto) /\ all[i + 1] = body[i]
    BY <1>3, <1>4, <1>5, <1>12 DEF Annotates
  <2>2. c[i + 1] = a[i] /\ c[(i + 1) + 1] = a[i + 1]
    <3>1. i \in 1 .. m + 1 /\ i + 1 \in 1 .. m + 1
      BY <1>3, <1>12
    <3> QED
      BY <1>8, <3>1
  <2>3. ASSUME NEW k \in Nat, i + k <= m PROVE (i + 1) + k <= m + 2 /\ c[(i + 1) + 1 + k] = a[i + 1 + k]
    <3>1. i + 1 + k \in 1 .. m + 1 /\ (i + 1) + 1 + k = (i + 1 + k) + 1 /\ (i + 1) + k <= m + 2
      BY <1>3, <1>12, <2>3
    <3> QED
      BY <1>8, <3>1
  <2>4. ASSUME NEW k \in Nat, k < i PROVE k < i + 1 /\ c[(i + 1) - k] = a[i - k]
    <3>1. i - k \in 1 .. m + 1 /\ (i + 1) - k = (i - k) + 1 /\ k < i + 1
      BY <1>3, <1>12, <2>4
    <3> QED
      BY <1>8, <3>1
  <2> HIDE DEF m
  <2> QED
    BY <2>1, <2>2, <2>3, <2>4 DEF Fits
<1>13. Annotates(c, all, auto)
  <2>1. ASSUME NEW i \in 1 .. m + 2 PROVE Fits(all[i], c, i, m + 2, auto)
    <3>1. i = 1 \/ i = m + 2 \/ (i - 1 \in 1 .. m /\ (i - 1) + 1 = i)
      BY <1>3, <2>1
    <3> HIDE DEF m
    <3> QED
      BY <1>10, <1>11, <1>12, <3>1
  <2>2. Len(all) + 1 = m + 3
    BY <1>3
  <2> HIDE DEF m
  <2> QED
    BY <1>3, <1>7, <2>1, <2>2 DEF Annotates
<1>14. c[Len(all) + 1] = p
  BY <1>3, <1>8
<1> QED
  BY <1>8, <1>13, <1>14 DEF Path, all

(* A script with a call that may throw is none of these. *)
HasTry(s) == \E i \in 1 .. Len(s) : s[i].kind \in {"try", "keys", "serve"}
LEMMA TryStays ==
  ASSUME NEW s \in Scripts, NEW t \in Scripts, HasTry(s) \/ HasTry(t)
  PROVE  HasTry(s \o t)
<1>1. s \in Seq(Items) /\ t \in Seq(Items)
  BY DEF Scripts
<1>2. CASE HasTry(s)
  <2>1. PICK i \in 1 .. Len(s) : s[i].kind \in {"try", "keys", "serve"}
    BY <1>2 DEF HasTry
  <2>2. i \in 1 .. Len(s \o t) /\ (s \o t)[i] = s[i]
    BY <1>1
  <2> QED
    BY <2>1, <2>2 DEF HasTry
<1>3. CASE HasTry(t)
  <2>1. PICK i \in 1 .. Len(t) : t[i].kind \in {"try", "keys", "serve"}
    BY <1>3 DEF HasTry
  <2>2. Len(s) + i \in 1 .. Len(s \o t) /\ (s \o t)[Len(s) + i] = t[i]
    BY <1>1
  <2> QED
    BY <2>1, <2>2 DEF HasTry
<1> QED
  BY <1>2, <1>3

(* The examples that try or that are driven from outside. *)
LEMMA TutorialNames ==
  Tutorial \cap {"fault_recovery", "self_managed", "lifecycle_walkthrough", "external_server"} = {}
<1>1. /\ \A c \in Callable : Must(c) \in Scripts
      /\ \A c \in Callable : \A n \in Nat : Try(c, n) \in Scripts /\ HasTry(Try(c, n))
      /\ \A kind \in Kinds \ {"again"} : \A n \in Nat : Control(kind, n) \in Scripts
  <2>1. "connect" \in Callable /\ "must" \in Kinds \ {"again"} /\ 0 \in Nat
    BY DEF Callable, ActionOf, Kinds
  <2>2. \A c \in Callable : \A n \in Nat : HasTry(Try(c, n))
    BY DEF HasTry, Try
  <2> QED
    BY <2>1, <2>2, OneItem
<1>2. ASSUME NEW body \in Scripts, HasTry(body) PROVE HasTry(Count(body)) /\ HasTry(Forever(body))
  <2> SUFFICES ASSUME NEW kind \in Kinds \ {"again"} PROVE HasTry(Loop(kind, body))
    BY DEF Count, Forever, Kinds
  <2>1. body \in Seq(Items)
    BY DEF Scripts
  <2>2. PICK i \in 1 .. Len(body) : body[i].kind \in {"try", "keys", "serve"}
    BY <1>2 DEF HasTry
  <2>3. i + 1 \in 1 .. Len(Loop(kind, body)) /\ Loop(kind, body)[i + 1] = body[i]
    BY <2>1 DEF Loop, Control
  <2> QED
    BY <2>2, <2>3 DEF HasTry
<1>3. {"connect", "disconnect", "reconnect", "run", "stop", "home", "idle", "target", "set_max_effort", "destroy"}
        \subseteq Callable
  BY DEF Callable, ActionOf, Unchecked
<1>4. {"attempt", "switch"} \subseteq Kinds \ {"again"} /\ {0, 1, 2, 3, 4} \subseteq Nat
  BY DEF Kinds
<1>5. HasTry(SelfManaged)
  <2> DEFINE body == Control("switch", 0) \o Try("reconnect", 3) \o Try("connect", 2) \o Try("run", 1) \o Try("target", 0)
  <2>1. body \in Scripts /\ HasTry(body)
    BY <1>1, <1>3, <1>4, Joined, TryStays
  <2> HIDE DEF body
  <2>2. HasTry(Forever(body)) /\ Forever(body) \in Scripts /\ Must("set_max_effort") \in Scripts
    BY <1>1, <1>2, <1>3, <2>1, Looped
  <2> QED
    BY <2>2, TryStays DEF SelfManaged, body
<1>6. HasTry(FaultRecovery)
  <2> DEFINE body == Control("attempt", 4) \o Try("reconnect", 3) \o Try("run", 2) \o Try("home", 1) \o Try("target", 0)
  <2>1. body \in Scripts /\ HasTry(body)
    BY <1>1, <1>3, <1>4, Joined, TryStays
  <2> HIDE DEF body
  <2>2. HasTry(Count(body)) /\ Count(body) \in Scripts
    BY <1>2, <2>1, Looped
  <2>3. /\ OpenHomed \in Scripts /\ Target \in Scripts /\ IdleStop \in Scripts
        /\ Must("disconnect") \in Scripts /\ Must("destroy") \in Scripts
    BY <1>1, <1>3, Joined DEF Target, Open, OpenHomed, IdleStop
  <2>4. OpenHomed \o Target \o Count(body) \in Scripts /\ HasTry(OpenHomed \o Target \o Count(body))
    BY <2>2, <2>3, Joined, TryStays
  <2>5. HasTry(OpenHomed \o Target \o Count(body) \o IdleStop \o Must("disconnect") \o Must("destroy"))
    BY <2>3, <2>4, Joined, TryStays
  <2> QED
    BY <2>5 DEF FaultRecovery, body
<1>7. HasTry(LifecycleWalkthrough) /\ HasTry(ExternalServer)
  BY DEF HasTry, LifecycleWalkthrough, ExternalServer, Control
<1>8. \A p \in Tutorial : p \in DOMAIN Script /\ ~HasTry(Script[p])
  BY DEF Tutorial, HasTry
<1>9. /\ Script.fault_recovery = FaultRecovery /\ Script.self_managed = SelfManaged
      /\ Script.lifecycle_walkthrough = LifecycleWalkthrough /\ Script.external_server = ExternalServer
  BY DEF Script
<1> QED
  BY <1>5, <1>6, <1>7, <1>8, <1>9

(* Every tutorial has a course through the stages. *)
LEMMA Courses == \A p \in Tutorial : \E q : Path(Script[p], "new", q, AutoHome(p))
<1>1. {"connect", "run", "stop", "home", "idle", "target", "nan", "set_tactile_bias", "reset_tactile_bias",
       "set_max_effort",
       "set_controller_config", "get_state", "get_diagnostics", "destroy"} \subseteq Callable
  BY DEF Callable, ActionOf, Unchecked
<1>2. \A auto, c : c \in Callable => \A p, q \in Stages :
        /\ Leads(c, p, q, auto) => Path(Must(c), p, q, auto)
        /\ Refuses(c, p) => Path(Demo(c), p, p, auto)
  BY OneStep
<1>3. \A auto, s, t, p, q, r : Path(s, p, q, auto) /\ Path(t, q, r, auto) => Path(s \o t, p, r, auto)
  BY Onward
<1>4. \A auto, body, p : Path(body, p, p, auto) => Path(Count(body), p, p, auto) /\ Path(Forever(body), p, p, auto)
  BY Around
<1>5. ASSUME NEW auto \in BOOLEAN
      PROVE  /\ Path(Must("connect"), "new", "connected", auto)
             /\ \A p \in {"connected", "running", "homed", "stopped"} : Path(Must("home"), p, "homed", auto)
             /\ \A p \in {"running", "homed"} : Path(Must("stop"), p, "stopped", auto) /\ Path(Must("idle"), p, p,
                          auto)
             /\ Path(Must("target"), "homed", "homed", auto) /\ Path(Must("nan"), "homed", "homed", auto)
             /\ Path(Must("set_tactile_bias"), "connected", "connected", auto)
             /\ Path(Must("reset_tactile_bias"), "connected", "connected", auto)
             /\ \A p \in Stages \ {"gone"} : /\ Path(Must("set_max_effort"), p, p, auto)
                                            /\ Path(Must("set_controller_config"), p, p, auto)
                                            /\ Path(Must("get_state"), p, p, auto)
             /\ \A p \in Stages : Path(Must("destroy"), p, "gone", auto)
             /\ Path(Demo("get_diagnostics"), "gone", "gone", auto)
             /\ Path(Demo("idle"), "connected", "connected", auto) /\ Path(Demo("target"), "connected", "connected",
                auto)
  BY <1>1, <1>2 DEF Leads, Refuses, Stages
<1>6. \A p \in {"connected", "stopped"} : Path(Must("run"), p, "running", FALSE)
  BY <1>1, <1>2 DEF Leads, Stages
<1>7. Path(Must("run"), "connected", "homed", TRUE)
  BY <1>1, <1>2 DEF Leads, Stages
<1>8. {"new", "connected", "running", "homed", "stopped"} \subseteq Stages \ {"gone"}
  BY DEF Stages
<1>9. ASSUME NEW auto \in BOOLEAN
      PROVE  /\ Path(Target, "homed", "homed", auto) /\ Path(Open, "new", "connected", auto)
             /\ \A p \in Stages \ {"gone"} : Path(Look, p, p, auto)
             /\ \A p \in {"running", "homed"} : Path(IdleStop, p, "stopped", auto)
             /\ Path(OpenHomed, "new", "homed", auto)
  <2>1. Path(Target, "homed", "homed", auto) /\ Path(Open, "new", "connected", auto)
    BY <1>3, <1>5, <1>8 DEF Target, Open
  <2>2. \A p \in Stages \ {"gone"} : Path(Look, p, p, auto)
    BY <1>4, <1>5 DEF Look
  <2>3. \A p \in {"running", "homed"} : Path(IdleStop, p, "stopped", auto)
    BY <1>3, <1>5 DEF IdleStop
  <2>4. ASSUME auto = TRUE PROVE Path(OpenHomed, "new", "homed", auto)
    <3>1. Path(Open \o Must("run"), "new", "homed", auto)
      BY <1>3, <1>7, <2>1, <2>4
    <3> QED
      BY <1>3, <1>5, <3>1 DEF OpenHomed
  <2>5. ASSUME auto = FALSE PROVE Path(OpenHomed, "new", "homed", auto)
    <3>1. Path(Open \o Must("run"), "new", "running", auto)
      BY <1>3, <1>6, <2>1, <2>5
    <3> QED
      BY <1>3, <1>5, <3>1 DEF OpenHomed
  <2> QED
    BY <2>1, <2>2, <2>3, <2>4, <2>5
<1>10. Path(CreateAndDestroy, "new", "gone", FALSE)
  BY <1>3, <1>4, <1>5, <1>6, <1>8, <1>9 DEF CreateAndDestroy, Stages
<1>11. Path(Homing, "new", "stopped", FALSE)
  BY <1>3, <1>4, <1>5, <1>6, <1>8, <1>9 DEF Homing
<1>12. Path(MaxEffort, "new", "stopped", FALSE)
  BY <1>3, <1>4, <1>5, <1>6, <1>8, <1>9 DEF MaxEffort
<1>13. Path(PositionController, "new", "stopped", FALSE)
  BY <1>3, <1>4, <1>5, <1>6, <1>8, <1>9 DEF PositionController
<1>14. Path(ImpedanceController, "new", "stopped", FALSE)
  BY <1>3, <1>4, <1>5, <1>6, <1>8, <1>9 DEF ImpedanceController
<1>15. Path(IdleCommand, "new", "stopped", FALSE)
  BY <1>3, <1>4, <1>5, <1>6, <1>8, <1>9 DEF IdleCommand
<1>16. Path(JointPosition, "new", "stopped", FALSE)
  BY <1>3, <1>4, <1>5, <1>6, <1>8, <1>9 DEF JointPosition
<1>17. Path(JointImpedance, "new", "stopped", FALSE)
  BY <1>3, <1>4, <1>5, <1>6, <1>8, <1>9 DEF JointImpedance
<1>18. Path(ActuatorPosition, "new", "stopped", FALSE)
  BY <1>3, <1>4, <1>5, <1>6, <1>8, <1>9 DEF ActuatorPosition
<1>19. Path(ActuatorEffort, "new", "stopped", FALSE)
  BY <1>3, <1>4, <1>5, <1>6, <1>8, <1>9 DEF ActuatorEffort
<1>20. Path(Kinematics, "new", "connected", FALSE)
  BY <1>3, <1>4, <1>5, <1>6, <1>8, <1>9 DEF Kinematics
<1>21. Path(ReadState, "new", "stopped", FALSE)
  BY <1>3, <1>4, <1>5, <1>6, <1>8, <1>9 DEF ReadState
<1>22. Path(Tactile, "new", "connected", FALSE)
  BY <1>3, <1>4, <1>5, <1>6, <1>8, <1>9 DEF Tactile
<1>23. Path(DiagnosticsLoop, "new", "connected", FALSE)
  BY <1>3, <1>4, <1>5, <1>6, <1>8, <1>9 DEF DiagnosticsLoop
<1>24. Path(MotionSequence, "new", "stopped", FALSE)
  BY <1>3, <1>4, <1>5, <1>6, <1>8, <1>9 DEF MotionSequence
<1>25. Path(ExitOnFailure, "new", "homed", TRUE)
  BY <1>3, <1>4, <1>5, <1>7, <1>8, <1>9 DEF ExitOnFailure
<1>26. Path(BasicControl, "new", "gone", TRUE)
  BY <1>3, <1>4, <1>5, <1>7, <1>8, <1>9 DEF BasicControl
<1>27. /\ Script["create_and_destroy"] = CreateAndDestroy
      /\ Script["homing"] = Homing
      /\ Script["max_effort"] = MaxEffort
      /\ Script["position_controller"] = PositionController
      /\ Script["impedance_controller"] = ImpedanceController
      /\ Script["idle"] = IdleCommand
      /\ Script["joint_position"] = JointPosition
      /\ Script["joint_impedance"] = JointImpedance
      /\ Script["actuator_position"] = ActuatorPosition
      /\ Script["actuator_effort"] = ActuatorEffort
      /\ Script["kinematics"] = Kinematics
      /\ Script["read_state"] = ReadState
      /\ Script["tactile"] = Tactile
      /\ Script["diagnostics"] = DiagnosticsLoop
      /\ Script["motion_sequence"] = MotionSequence
      /\ Script["exit_on_failure"] = ExitOnFailure
      /\ Script["basic_control"] = BasicControl
  BY DEF Script
<1>28. Tutorial \subseteq {"create_and_destroy", "homing", "max_effort", "position_controller",
                           "impedance_controller", "idle", "joint_position", "joint_impedance", "actuator_position",
                           "actuator_effort", "kinematics", "read_state", "tactile", "diagnostics",
                           "motion_sequence"} \cup {"exit_on_failure", "basic_control"}
  <2>1. DOMAIN Script = {"create_and_destroy", "homing", "max_effort", "position_controller",
                         "impedance_controller", "idle", "joint_position", "joint_impedance", "actuator_position",
                         "actuator_effort", "kinematics", "read_state", "tactile", "diagnostics", "motion_sequence",
                         "exit_on_failure", "basic_control",
                         "fault_recovery", "self_managed", "lifecycle_walkthrough", "external_server"}
    BY DEF Script
  <2>2. Tutorial \subseteq DOMAIN Script
    BY DEF Tutorial
  <2> QED
    BY <2>1, <2>2, TutorialNames
<1>29. ASSUME NEW p \in {"create_and_destroy", "homing", "max_effort", "position_controller",
                         "impedance_controller", "idle", "joint_position", "joint_impedance", "actuator_position",
                         "actuator_effort", "kinematics", "read_state", "tactile", "diagnostics", "motion_sequence"}
                         PROVE \E q : Path(Script[p], "new", q, AutoHome(p))
  <2>1. AutoHome(p) = FALSE
    BY DEF AutoHome
  <2> QED
    BY <2>1, <1>10, <1>11, <1>12, <1>13, <1>14, <1>15, <1>16, <1>17, <1>18, <1>19, <1>20, <1>21, <1>22, <1>23,
       <1>24, <1>25, <1>26, <1>27
<1>30. ASSUME NEW p \in {"exit_on_failure", "basic_control"} PROVE \E q : Path(Script[p], "new", q, AutoHome(p))
  <2>1. AutoHome(p) = TRUE
    BY DEF AutoHome
  <2> QED
    BY <2>1, <1>25, <1>26, <1>27
<1> QED
  BY <1>28, <1>29, <1>30

-----------------------------------------------------------------------------
(* The course of an example, and where main() is on it: in the stage before *)
(* the item that is next, or in a call that leads to the stage behind it.   *)
CourseOf(p) == CHOOSE a : Annotates(a, Script[p], AutoHome(p)) /\ a[1] = "new"
Along(a, i, item, h) ==
  \/ h.call = "none" /\ h.code = "-" /\ InStage(a[i], h)
  \/ item.kind = "must" /\ Comes(item.call, a[i + 1], h)
  \/ item.kind = "demo" /\ h.call = "none" /\ h.code \in ErrorCodes \ {"None"} /\ InStage(a[i], h)
OnCourse ==
  app.name \in Tutorial /\ Inside =>
    Steady(hand, AutoHome(app.name)) /\ Along(CourseOf(app.name), app.at, Item, hand)

(* What main() reads next fits its course. *)
LEMMA ItemFits ==
  ASSUME Reading, app.name \in Tutorial
  PROVE  /\ CourseOf(app.name)[1] = "new" /\ AutoHome(app.name) \in BOOLEAN
         /\ Inside => /\ Fits(Item, CourseOf(app.name), app.at, Len(Script[app.name]), AutoHome(app.name))
                      /\ Item \in Items /\ app.at \in 1 .. Len(Script[app.name])
         /\ Len(Script[app.name]) \in Nat
         /\ \A i \in 1 .. Len(Script[app.name]) + 1 : CourseOf(app.name)[i] \in Stages
<1> DEFINE p == app.name
           a == CourseOf(p)
<1>1. \E b : Annotates(b, Script[p], AutoHome(p)) /\ b[1] = "new"
  BY Courses DEF Path
<1>2. Annotates(a, Script[p], AutoHome(p)) /\ a[1] = "new"
  BY <1>1 DEF CourseOf
<1>3. p \in DOMAIN Script /\ AutoHome(p) \in BOOLEAN
  BY DEF Tutorial, AutoHome
<1>4. Script[p] \in Seq(Items)
  BY <1>3, EveryScript DEF Scripts
<1>5. Inside => app.at \in 1 .. Len(Script[p])
  BY <1>4 DEF Reading, Inside
<1>6. Inside => Item \in Items
  BY ItemTyped
<1> HIDE DEF a
<1> QED
  BY <1>2, <1>3, <1>4, <1>5, <1>6 DEF Annotates, Item, p, a

(* A program reads on, or leaves; which it is stays. *)
LEMMA ReadsOn ==
  ASSUME Reading, [Next]_vars, app.name \in Tutorial
  PROVE  /\ app'.name = app.name
         /\ Inside' => Inside
         /\ Inside' => \/ UNCHANGED hand /\ app'.at = app.at
                       \/ Issue /\ app' = app
                       \/ Take /\ (At("must") \/ At("demo")) /\ app'.at = app.at + 1
                          /\ (At("must") => hand.code = "None")
                       \/ LoopHead /\ (Skip(0) \/ Skip(Item.n))
                       \/ Again
                       \/ Sdk /\ app' = app
<1>1. /\ app \in [name : DOMAIN Script, at : Nat \ {0}, shutdown : BOOLEAN, attempts : Nat, exit : {"-", "0", "1"}]
  BY DEF Reading
<1>2. /\ \A n : Skip(n) => app'.name = app.name /\ app'.at = app.at + 1 + n /\ app'.exit = app.exit
      /\ \A i : Goto(i) => app'.name = app.name /\ app'.at = i /\ app'.exit = app.exit
      /\ \A code : Leave(code) => app'.name = app.name /\ app'.exit = code
  BY <1>1 DEF Skip, Goto, Leave
<1>3. Inside => Fits(Item, CourseOf(app.name), app.at, Len(Script[app.name]), AutoHome(app.name))
  BY ItemFits
<1>4. ~At("try") /\ ~At("attempt") /\ ~At("switch") /\ ~At("keys") /\ ~At("serve")
  BY <1>3 DEF Fits, At
<1>5. ~Attempt /\ ~Switch /\ ~Key /\ ~Serve /\ ~StopsServing /\ ~ClientComes
  BY <1>4 DEF Attempt, Switch, Key, Serve, StopsServing, ClientComes
<1>6. CASE UNCHANGED <<hand, app>>
  BY <1>6 DEF Inside
<1>7. CASE Issue
  BY <1>7 DEF Issue, Inside
<1>8. CASE Take
  <2>1. Inside
    BY <1>8 DEF Take
  <2>2. CASE At("must") /\ (IF hand.code = "None" THEN Skip(0) ELSE Leave("1"))
    <3>1. CASE hand.code = "None"
      BY <1>1, <1>2, <1>8, <2>1, <2>2, <3>1
    <3>2. CASE hand.code # "None"
      BY <1>2, <2>1, <2>2, <3>2 DEF Inside
    <3> QED
      BY <3>1, <3>2
  <2>3. CASE At("demo") /\ Skip(0)
    <3>1. ~At("must")
      BY <2>3 DEF At
    <3> QED
      BY <1>1, <1>2, <1>8, <2>1, <2>3, <3>1
  <2> QED
    BY <1>4, <1>8, <2>2, <2>3 DEF Take
<1>9. CASE LoopHead
  <2>1. Inside /\ (Skip(0) \/ Skip(Item.n))
    BY <1>9 DEF LoopHead, At
  <2> QED
    BY <1>2, <1>9, <2>1
<1>10. CASE Again
  <2>1. Inside /\ Goto(app.at - Item.n)
    BY <1>10 DEF Again, At
  <2> QED
    BY <1>2, <1>10, <2>1
<1>11. CASE RunsOut \/ Destructor
  <2>1. app'.name = app.name /\ app'.exit # "-"
    BY <1>1, <1>2, <1>11 DEF RunsOut, Destructor
  <2> QED
    BY <2>1 DEF Inside
<1>12. CASE Client \/ Cable \/ UNCHANGED vars
  <2>1. UNCHANGED <<hand, app>>
    BY <1>12 DEF Client, ClientComes, ClientAsks, ClientQuits, ClientDies, OnlyClient, Cable, Cut, Mend, vars
  <2> QED
    BY <1>6, <2>1
<1>13. CASE Interrupt
  <2>1. UNCHANGED hand /\ app' = [app EXCEPT !.shutdown = TRUE]
    BY <1>13 DEF Interrupt, OnlyMain
  <2>2. app'.name = app.name /\ app'.at = app.at /\ app'.exit = app.exit
    BY <1>1, <2>1
  <2> QED
    BY <2>1, <2>2 DEF Inside
<1>14. CASE Sdk
  BY <1>14 DEF Sdk, Inside
<1> QED
  BY <1>5, <1>7, <1>8, <1>9, <1>10, <1>11, <1>12, <1>13, <1>14 DEF Next, Main

(* The call of the item that is next. *)
LEMMA IssuedOnCourse ==
  ASSUME Safe(hand), NEW auto \in BOOLEAN, Steady(hand, auto), NEW item \in Items, NEW a, NEW i, NEW n,
         Fits(item, a, i, n, auto), a[i] \in Stages, a[i + 1] \in Stages,
         Along(a, i, item, hand), Ready, item.call # "none", Begin(item.call)
  PROVE  Steady(hand', auto) /\ Along(a, i, item, hand')
<1>1. "-" \notin ErrorCodes
  BY DEF ErrorCodes
<1>2. InStage(a[i], hand)
  <2>1. ~Comes(item.call, a[i + 1], hand)
    <3>1. hand.call \notin DOMAIN Waited
      BY DEF Ready, Waited
    <3> QED
      BY <1>1, <3>1 DEF Ready, Comes, Answers, Underway
  <2> QED
    BY <1>1, <2>1 DEF Ready, Along
<1>3. item.call \in Callable
  BY DEF Items
<1>4. CASE item.kind = "must" /\ Leads(item.call, a[i], a[i + 1], auto)
  <2>1. Comes(item.call, a[i + 1], hand') /\ Steady(hand', auto)
    BY <1>2, <1>3, <1>4, CallBegins DEF Ready
  <2> QED
    BY <1>4, <2>1 DEF Along
<1>5. CASE item.kind = "demo" /\ Refuses(item.call, a[i])
  <2>1. Refusal(item.call) \in ErrorCodes \ {"None"}
    BY <1>2, <1>3, <1>5, WrongCall, Refused
  <2>2. hand'.call = "none" /\ hand'.code \in ErrorCodes \ {"None"} /\ InStage(a[i], hand') /\ Steady(hand', auto)
    BY <1>2, <1>3, <2>1, RefusalKeepsStage
  <2> QED
    BY <1>5, <2>2 DEF Along
<1> QED
  BY <1>4, <1>5 DEF Fits

(* A step of anybody keeps main() on its course. *)
LEMMA CourseKept ==
  ASSUME IInv, OnCourse, [Next]_vars PROVE OnCourse'
<1>1. Safe(hand) /\ Reading
  BY DEF IInv
<1>2. "-" \notin ErrorCodes
  BY DEF ErrorCodes
<1> DEFINE name == app.name
           a == CourseOf(name)
           auto == AutoHome(name)
           n == Len(Script[name])
<1> SUFFICES ASSUME app'.name \in Tutorial, Inside'
             PROVE  Steady(hand', AutoHome(app'.name)) /\ Along(CourseOf(app'.name), app'.at, Item', hand')
  BY DEF OnCourse
<1>3. app'.name = name /\ name \in Tutorial /\ Inside
  <2>1. app'.name = app.name
    <3>1. app \in [name : DOMAIN Script, at : Nat \ {0}, shutdown : BOOLEAN, attempts : Nat, exit : {"-", "0", "1"}]
      BY <1>1 DEF Reading
    <3> QED
      BY <1>1, <3>1 DEF Next, Main, Issue, Take, Skip, Goto, Leave, LoopHead, Again, Attempt, Switch, Key, RunsOut,
            Destructor, Serve, StopsServing, Client, ClientComes, ClientAsks, ClientQuits, ClientDies, OnlyClient,
            Interrupt, Sdk, Cable, vars, Apply, OnlyMain
  <2> QED
    BY <1>1, <2>1, ReadsOn
<1>4. /\ Fits(Item, a, app.at, n, auto) /\ Item \in Items /\ auto \in BOOLEAN /\ app.at \in 1 .. n /\ n \in Nat
      /\ \A i \in 1 .. n + 1 : a[i] \in Stages
  BY <1>1, <1>3, ItemFits
<1>5. Steady(hand, auto) /\ Along(a, app.at, Item, hand)
  BY <1>3 DEF OnCourse
<1>6. a[app.at] \in Stages /\ a[app.at + 1] \in Stages
  BY <1>4
<1>7. Item' = Script[name][app'.at]
  BY <1>3 DEF Item
<1> SUFFICES Steady(hand', auto) /\ Along(a, app'.at, Item', hand')
  BY <1>3
<1> HIDE DEF a, auto, n
<1>8. CASE UNCHANGED hand /\ app'.at = app.at
  <2>1. Item' = Item
    BY <1>7, <1>8 DEF Item, name
  <2> QED
    BY <1>5, <1>8, <2>1
<1>9. CASE Issue /\ app' = app
  <2>1. Item' = Item
    BY <1>7, <1>9 DEF Item, name
  <2>2. Ready /\ Item.call # "none" /\ Begin(Item.call)
    BY <1>9 DEF Issue
  <2>3. Steady(hand', auto) /\ Along(a, app.at, Item, hand')
    BY <1>1, <1>4, <1>5, <1>6, <2>2, IssuedOnCourse
  <2> QED
    BY <1>9, <2>1, <2>3
<1>10. CASE Take /\ (At("must") \/ At("demo")) /\ app'.at = app.at + 1 /\ (At("must") => hand.code = "None")
  <2>1. hand \in HandRecord /\ hand' = [hand EXCEPT !.code = "-", !.early = FALSE] /\ hand.code # "-"
    BY <1>1, <1>10 DEF Safe, Take, Forgotten
  <2>2. /\ hand'.code = "-" /\ hand'.call = hand.call /\ hand'.destroyed = hand.destroyed
        /\ hand'.requested = hand.requested /\ hand'.observed = hand.observed /\ hand'.homing = hand.homing
        /\ hand'.homingRuns = hand.homingRuns /\ hand'.publishing = hand.publishing
        /\ hand'.autoReconnect = hand.autoReconnect /\ hand'.autoHome = hand.autoHome /\ hand'.loop = hand.loop
    BY <2>1 DEF HandRecord
  <2>3. Steady(hand', auto) /\ \A p \in Stages : InStage(p, hand) => InStage(p, hand')
    BY <1>5, <2>2 DEF Steady, InStage, AtHome, Stages
  <2>4. ~Underway(hand)
    BY <2>1 DEF Underway
  <2>5. CASE At("must")
    <3>1. Item.kind = "must" /\ hand.code = "None"
      BY <1>10, <2>5 DEF At
    <3>2. Answers(Item.call, a[app.at + 1], hand)
      BY <1>5, <2>1, <2>4, <3>1 DEF Along, Comes
    <3>3. hand'.call = "none" /\ InStage(a[app.at + 1], hand')
      BY <1>6, <2>2, <2>3, <3>1, <3>2 DEF Answers
    <3> QED
      BY <1>10, <2>2, <2>3, <3>3 DEF Along
  <2>6. CASE At("demo")
    <3>1. Item.kind = "demo"
      BY <2>6 DEF At
    <3>2. hand.call = "none" /\ InStage(a[app.at], hand) /\ a[app.at + 1] = a[app.at]
      BY <1>4, <1>5, <2>1, <3>1 DEF Along, Fits
    <3>3. hand'.call = "none" /\ InStage(a[app.at + 1], hand')
      BY <1>6, <2>2, <2>3, <3>2
    <3> QED
      BY <1>10, <2>2, <2>3, <3>3 DEF Along
  <2> QED
    BY <1>10, <2>5, <2>6
<1>11. ASSUME UNCHANGED hand, Item.kind \in {"count", "forever", "again"}, a[app'.at] = a[app.at]
       PROVE  Steady(hand', auto) /\ Along(a, app'.at, Item', hand')
  <2>1. hand.call = "none" /\ hand.code = "-" /\ InStage(a[app.at], hand)
    BY <1>5, <1>11 DEF Along
  <2> QED
    BY <1>5, <1>11, <2>1 DEF Along
<1>12. CASE LoopHead /\ (Skip(0) \/ Skip(Item.n))
  <2>1. UNCHANGED hand /\ Item.kind \in {"count", "forever"}
    BY <1>12 DEF LoopHead, OnlyMain, At
  <2>2. a[app.at + 1] = a[app.at] /\ a[app.at + 1 + Item.n] = a[app.at]
    BY <1>4, <2>1 DEF Fits
  <2>3. app'.at = app.at + 1 \/ app'.at = app.at + 1 + Item.n
    BY <1>1, <1>4, <1>12 DEF Skip, Goto, Reading
  <2> QED
    BY <1>11, <2>1, <2>2, <2>3
<1>13. CASE Again
  <2>1. UNCHANGED hand /\ Item.kind = "again"
    BY <1>13 DEF Again, OnlyMain, At
  <2>2. a[app.at - Item.n] = a[app.at]
    BY <1>4, <2>1 DEF Fits
  <2>3. app'.at = app.at - Item.n
    BY <1>1, <1>13 DEF Again, Goto, Reading
  <2> QED
    BY <1>11, <2>1, <2>2, <2>3
<1>14. CASE Sdk /\ app' = app
  <2>1. Item' = Item
    BY <1>7, <1>14 DEF Item, name
  <2>2. CASE CallEnds
    <3>1. hand.call # "none"
      BY <2>2 DEF CallEnds, ConnectEnds, ReconnectEnds, JoinEnds, Confirm, RunEnds, HomeEnds, StopEnds, DestroyEnds, Waiting
    <3>2. Item.kind = "must" /\ Underway(hand) /\ a[app.at + 1] = Waited[hand.call]
      BY <1>5, <3>1 DEF Along, Comes, Answers
    <3>3. Comes(Item.call, a[app.at + 1], hand') /\ Steady(hand', auto)
      BY <1>1, <1>4, <1>5, <1>6, <2>2, <3>2, CallReturns
    <3> QED
      BY <1>14, <2>1, <3>2, <3>3 DEF Along
  <2>3. CASE ControlLoop \/ SendFails
    <3>1. ~hand.autoReconnect /\ hand.loop # "trying"
      BY <1>5 DEF Steady
    <3>2. /\ \A p \in Stages : InStage(p, hand) => InStage(p, hand')
          /\ Underway(hand) => Underway(hand')
          /\ hand'.call = hand.call /\ hand'.code = hand.code /\ hand'.early = hand.early /\ Steady(hand', auto)
      BY <1>1, <1>5, <2>3, <3>1, LoopKeepsStage, LoopLeavesAlone DEF Steady
    <3> QED
      BY <1>5, <1>6, <1>14, <2>1, <3>2 DEF Along, Comes, Answers
  <2> QED
    BY <1>14, <2>2, <2>3 DEF Sdk
<1> QED
  BY <1>1, <1>3, <1>8, <1>9, <1>10, <1>12, <1>13, <1>14, ReadsOn DEF name

(* main() begins in front of its first item. *)
LEMMA CourseBegins == Init => OnCourse
<1> SUFFICES ASSUME Init, app.name \in Tutorial
             PROVE  Steady(hand, AutoHome(app.name)) /\ Along(CourseOf(app.name), app.at, Item, hand)
  BY DEF OnCourse
<1>1. PICK p \in Programs :
        /\ hand = Created(AutoHome(p), AutoReconnect(p))
        /\ app = [name |-> p, at |-> 1, shutdown |-> FALSE, attempts |-> 0, exit |-> "-"]
  BY DEF Init, HandInit
<1>2. p # "self_managed" /\ app.name = p /\ app.at = 1
  BY <1>1, TutorialNames
<1>3. Reading
  BY Begins DEF IInv
<1>4. CourseOf(p)[1] = "new"
  BY <1>2, <1>3, ItemFits
<1>5. Steady(hand, AutoHome(p))
  BY <1>1, <1>2 DEF Created, Steady, AutoReconnect
<1>6. hand.call = "none" /\ hand.code = "-" /\ InStage("new", hand)
  BY <1>1 DEF Created, InStage
<1> QED
  BY <1>2, <1>4, <1>5, <1>6 DEF Along

(* An example that teaches an order of calls is never told that its order  *)
(* is wrong, except where a target falls between the stores with which the *)
(* loop ends a homing, and where it shows a call that is refused, and      *)
(* there it is never carried out: for any set of examples, whatever the    *)
(* link, the drives and the user do.                                       *)
THEOREM TutorialsAreInOrder == Spec => []ScriptsAreInOrder
<1>1. IInv /\ OnCourse /\ [Next]_vars => IInv' /\ OnCourse'
  <2> SUFFICES ASSUME IInv, OnCourse, [Next]_vars PROVE IInv' /\ OnCourse'
    OBVIOUS
  <2>1. Safe(hand') /\ Reading' /\ OnCourse'
    BY HandSafe, ReadingKept, CourseKept
  <2> QED
    BY <2>1 DEF IInv, Safe, Closing, Unhurt, HandRecord
<1>2. OnCourse => ScriptsAreInOrder
  <2> SUFFICES ASSUME OnCourse, app.name \in Tutorial, Inside, hand.code # "-"
               PROVE  /\ hand.code = "WrongCallOrder" =>
                           Item.kind = "demo" \/ (Item.call \in {"target", "nan"} /\ hand.early)
                      /\ Item.kind = "demo" => hand.code # "None"
    BY DEF ScriptsAreInOrder
  <2>1. Along(CourseOf(app.name), app.at, Item, hand)
    BY DEF OnCourse
  <2> QED
    BY <2>1 DEF Along, Comes, Answers, Underway
<1> QED
  BY <1>1, <1>2, Begins, CourseBegins, PTL DEF Spec

=============================================================================
