------------------------------ MODULE HandLink ------------------------------
(***************************************************************************)
(* The traffic of one hand: what HandComms::read() and write() make of the *)
(* frames on the socket, the control word of every actuator, and the two   *)
(* ways the loop loses the link, silence and a send that fails.            *)
(*                                                                         *)
(*   comms  the session: HandComms with its Transport                      *)
(*   queue  the frames received and not yet read                           *)
(*   loop   what run_control_loop() keeps of the link, and the lifecycle   *)
(*   user   the call that waits for the loop to confirm it                 *)
(*   drive  the actuators: CiA 402 state, last bit 7, cause of a trip      *)
(*   trips  the drive faults still to come                                 *)
(*   ghost  what has really happened, for the properties only              *)
(*                                                                         *)
(* A cycle is two steps, Read and Write: requests and the drives act       *)
(* between them.  A definition that no other uses is the one after it with *)
(* a bug in it, which the properties must notice.                          *)
(***************************************************************************)
EXTENDS Integers, Sequences, FiniteSets, FiniteSetsExt

CONSTANTS
  Actuators,   \* the actuators of the hand
  Disabled,    \* HandConfig::disabled_actuators
  LossCycles,  \* cycles of silence that still count as receiving
  Anomalies,   \* the frames that tell nothing of the hand, by DecodeResult
  MaxQueue,    \* bound: frames that arrive between two reads
  MaxTrips     \* bound: drive faults

ASSUME HandLinkAssumption ==
  /\ Disabled \subseteq Actuators /\ LossCycles \in Nat \ {0}
  /\ Anomalies \subseteq {"Error", "LengthError", "ConflictingCommand", "NotOurId"}
  /\ MaxQueue \in Nat /\ MaxTrips \in Nat

VARIABLES comms, queue, loop, user, drive, trips, ghost
vars == <<comms, queue, loop, user, drive, trips, ghost>>

(* CiA 402 as the status word shows it.  "zero" is a status word never      *)
(* received; bit 5 is high in the states of HighBit5.                       *)
States == {"off", "ready", "on", "enabled", "fault"}
HighBit5 == {"ready", "on", "enabled"}
Words == {"none", "QuickStop", "Shutdown", "SwitchOn", "EnableOperation", "EnableOperationHoming", "FaultReset"}

(* A state frame carries the status word of every drive, and which of those *)
(* that are read have an error code.                                        *)
Frames ==
  [kind : {"state"}, states : [Actuators -> States], errors : SUBSET (Actuators \ Disabled)] \cup [kind : Anomalies]
Received(f) == IF f.kind = "state" THEN "Decoded" ELSE f.kind

FreshComms ==
  [status |-> [a \in Actuators |-> "zero"], errors |-> {}, word |-> [a \in Actuators |-> "none"], seenHigh |-> {},
   silent |-> 0, any |-> FALSE, errno |-> "0", homing |-> FALSE]

(* asked and own are what the cycle that runs has loaded of requested and   *)
(* observed, the two atomics; own is overwritten by a fault it raises.      *)
BetweenCycles(l) == [l EXCEPT !.pc = "top", !.asked = "Connected", !.own = "Disconnected", !.receiving = FALSE]
NewLoop ==
  [pc |-> "top", requested |-> "Connected", observed |-> "Disconnected", asked |-> "Connected", own |-> "Disconnected",
   receiving |-> FALSE, previous |-> TRUE]
NoGhost == [heard |-> FALSE, gap |-> 0, unfounded |-> FALSE, overwritten |-> FALSE]

Init ==
  /\ comms = FreshComms /\ queue = <<>> /\ loop = NewLoop /\ user = "connect"
  /\ drive = [a \in Actuators |-> [state |-> "off", bit7 |-> FALSE, cause |-> FALSE]]
  /\ trips = MaxTrips
  /\ ghost = NoGhost

-----------------------------------------------------------------------------
(* decode() and read() *)

Decode(c, f) ==
  IF f.kind = "state" THEN [c EXCEPT !.status = f.states, !.errors = f.errors] ELSE c

DrainAny(c, frames) ==
  LET decoded == {i \in DOMAIN frames : Received(frames[i]) = "Decoded"}
      after == IF decoded = {} THEN c ELSE Decode(c, frames[Max(decoded)]) IN
  [after EXCEPT
     !.any = @ \/ frames # <<>>,
     !.silent = IF frames # <<>> THEN 0 ELSE IF @ > LossCycles THEN @ ELSE @ + 1,
     !.seenHigh = @ \cup {a \in Actuators : after.status[a] \in HighBit5}]
(* The whole queue is drained; the last frame of an id is the one kept, and *)
(* only a decoded one ends the silence.                                     *)
Drain(c, frames) ==
  LET decoded == {i \in DOMAIN frames : Received(frames[i]) = "Decoded"}
      after == IF decoded = {} THEN c ELSE Decode(c, frames[Max(decoded)]) IN
  [after EXCEPT
     !.any = @ \/ decoded # {},
     !.silent = IF decoded # {} THEN 0 ELSE IF @ > LossCycles THEN @ ELSE @ + 1,
     !.seenHigh = @ \cup {a \in Actuators : after.status[a] \in HighBit5}]

Enabled(c) == {a \in Actuators \ Disabled : c.status[a] = "enabled"}

(* enable_settled() and quick_stop_attained() *)
DrivesEnabled(c) ==
  /\ Actuators \ Disabled \subseteq Enabled(c) \cup c.errors
  /\ Enabled(c) \subseteq c.errors => Disabled = Actuators
QuickStopAttained(c) == \A a \in c.seenHigh \ Disabled : c.status[a] \notin HighBit5

(* watch_link(): the first frame, then the loss of the link faults from any *)
(* lifecycle, once: while the link stays lost a silence is no news.         *)
Read ==
  /\ loop.pc = "top" /\ loop.observed # "Faulted"
  /\ comms' = Drain(comms, queue)
  /\ queue' = <<>>
  /\ LET receiving == comms'.any /\ comms'.silent <= LossCycles
         lost == comms'.any /\ loop.previous /\ ~receiving IN
     loop' = [loop EXCEPT !.pc = "write", !.receiving = receiving,
                          !.previous = IF comms'.any THEN receiving ELSE @,
                          !.asked = loop.requested,
                          !.own = IF lost THEN "Faulted" ELSE loop.observed,
                          !.observed = IF lost THEN "Faulted" ELSE @]
  /\ LET decoded == \E i \in DOMAIN queue : queue[i].kind = "state" IN
     ghost' = [ghost EXCEPT !.heard = @ \/ decoded,
                            !.gap = IF decoded THEN 0 ELSE IF @ > LossCycles THEN @ ELSE @ + 1,
                            !.overwritten = @ /\ ~decoded]
  /\ UNCHANGED <<user, drive, trips>>

(* A fault that is still observed at the head of a cycle ends the loop.     *)
LoopEnds ==
  /\ loop.pc = "top" /\ loop.observed = "Faulted"
  /\ loop' = [loop EXCEPT !.pc = "dead"]
  /\ UNCHANGED <<comms, queue, user, drive, trips, ghost>>

-----------------------------------------------------------------------------
(* write() *)

ComputeControlWordHigh(mode, status, last) ==
  CASE mode = "Homing" -> "EnableOperationHoming"
    [] mode \in {"SwitchOn", "Shutdown", "QuickStop"} -> mode
    [] mode = "Enable" /\ status = "fault" -> "FaultReset"
    [] mode = "Enable" /\ status \in {"enabled", "on"} -> "EnableOperation"
    [] mode = "Enable" /\ status = "ready" -> "SwitchOn"
    [] mode = "Enable" /\ status \in {"off", "zero"} -> "Shutdown"
ComputeControlWord(mode, status, last) ==
  CASE mode = "Homing" -> "EnableOperationHoming"
    [] mode \in {"SwitchOn", "Shutdown", "QuickStop"} -> mode
    [] mode = "Enable" /\ status = "fault" -> IF last = "FaultReset" THEN "Shutdown" ELSE "FaultReset"
    [] mode = "Enable" /\ status \in {"enabled", "on"} -> "EnableOperation"
    [] mode = "Enable" /\ status = "ready" -> "SwitchOn"
    [] mode = "Enable" /\ status \in {"off", "zero"} -> "Shutdown"

(* A disabled actuator is held at Shutdown whatever the others are told. *)
ActuatorModeShared(a, mode) == mode
ActuatorMode(a, mode) == IF a \in Disabled THEN "Shutdown" ELSE mode

(* The homing sequence as write() sees it: it asks for a mode until it ends *)
(* or is cancelled by the quick stop (module HomingSequence).               *)
Modes(quickStop) ==
  CASE quickStop -> {"QuickStop"}
    [] ~quickStop /\ comms.homing -> {"Enable", "SwitchOn", "Homing"}
    [] ~quickStop /\ ~comms.homing -> {"Enable"}

(* The five sends: mode, homing method, position, effort, control word.     *)
(* The bus changes at most once within a burst.  Of a burst it matters      *)
(* whether the control word went out, the errno of the last send that       *)
(* failed, and whether one failed for good.  A short write has no errno.    *)
Results == {"sent", "short", "EAGAIN", "ENETDOWN"}
Errnos == {"0", "EAGAIN", "ENETDOWN"}
Sends == {[i \in 1..5 |-> IF i < k THEN before ELSE after] : before, after \in Results, k \in 1..5}
Errno(result) == IF result = "short" THEN "0" ELSE result
LastErrno(sends) ==
  LET failed == {i \in 1..5 : sends[i] # "sent"} IN
  IF failed = {} THEN "none" ELSE Errno(sends[Max(failed)])
Bursts == {[arrives |-> sends[5] = "sent", errno |-> LastErrno(sends),
            lost |-> \E i \in 1..5 : sends[i] \in {"short", "ENETDOWN"}] : sends \in Sends}

TransmitErrnoFirst(burst) == IF comms.errno # "0" \/ burst.errno = "none" THEN comms.errno ELSE burst.errno
(* last_transmit_errno_ is written by a burst that fails, never cleared. *)
TransmitErrno(burst) == IF burst.errno = "none" THEN comms.errno ELSE burst.errno

(* What a drive makes of a control word it receives (CiA 402). *)
React(d, word) ==
  LET reset == d.state = "fault" /\ word = "FaultReset" /\ ~d.bit7 /\ ~d.cause
      next == CASE d.state = "fault" -> IF reset THEN "off" ELSE "fault"
                [] d.state # "fault" /\ word = "QuickStop" -> "off"
                [] d.state # "fault" /\ word = "Shutdown" -> "ready"
                [] d.state # "fault" /\ word = "SwitchOn" -> IF d.state = "off" THEN "off" ELSE "on"
                [] d.state # "fault" /\ word \in {"EnableOperation", "EnableOperationHoming"} ->
                     IF d.state \in {"on", "enabled"} THEN "enabled" ELSE d.state
                [] d.state # "fault" /\ word \in {"FaultReset", "none"} -> d.state IN
  [d EXCEPT !.state = next, !.bit7 = word = "FaultReset"]

ControlSession == loop.asked \in {"Running", "Stopped"} \/ loop.own = "Faulted"
QuickStop == loop.requested # "Running" \/ loop.own = "Faulted"

(* A full transmit queue is not a lost link. *)
Transient(errno) == errno = "EAGAIN"
Judge(burst) ==
  burst.errno # "none" /\ ~Transient(TransmitErrno(burst)) /\ loop.requested = "Running" /\ loop.own # "Faulted"

(* watch_drive_state() at the end of the cycle, which loads both again. *)
Verdict(l, c) ==
  CASE l.observed = "Faulted" -> "Faulted"
    [] l.observed # "Faulted" /\ l.receiving /\ l.requested = "Running" /\ DrivesEnabled(c) -> "Running"
    [] l.observed # "Faulted" /\ l.receiving /\ l.requested = "Stopped" /\ QuickStopAttained(c) -> "Stopped"
    [] OTHER -> IF l.observed = "Disconnected" /\ c.any THEN "Connected" ELSE l.observed
EndOfCycle(l, c) == [BetweenCycles(l) EXCEPT !.observed = Verdict(l, c)]

WordOf(a, mode) == ComputeControlWord(ActuatorMode(a, mode), comms.status[a], comms.word[a])
Burst(burst, mode, over) ==
  LET word == [a \in Actuators |-> WordOf(a, mode)]
      faults == Judge(burst) IN
  /\ comms' = [comms EXCEPT !.word = word, !.errno = TransmitErrno(burst), !.homing = @ /\ ~over]
  /\ drive' = IF burst.arrives THEN [a \in Actuators |-> React(drive[a], word[a])] ELSE drive
  /\ loop' = EndOfCycle([loop EXCEPT !.observed = IF faults THEN "Faulted" ELSE @], comms')
  /\ ghost' = [ghost EXCEPT !.unfounded = @ \/ (faults /\ ~burst.lost)]

Transmit(bursts, modes) ==
  /\ loop.pc = "write" /\ ControlSession
  /\ \E burst \in bursts, mode \in modes, over \in {QuickStop, comms.homing} : Burst(burst, mode, over)
  /\ UNCHANGED <<queue, user, trips>>
Write == Transmit(Bursts, Modes(QuickStop))

WriteNothing ==
  /\ loop.pc = "write" /\ ~ControlSession
  /\ loop' = EndOfCycle(loop, comms)
  /\ UNCHANGED <<comms, queue, user, drive, trips, ghost>>

-----------------------------------------------------------------------------
(* Sessions and requests *)

ReopenKeeping ==
  /\ user = "idle" /\ loop.pc # "write" /\ (loop.observed = "Faulted" \/ loop.requested = "Connected")
  /\ comms' = [comms EXCEPT !.silent = 0, !.errno = "0", !.homing = FALSE]
  /\ queue' = <<>> /\ loop' = NewLoop /\ user' = "connect" /\ ghost' = NoGhost
  /\ UNCHANGED <<drive, trips>>
(* reconnect(), or disconnect() and connect(): the loop is joined, and a    *)
(* new socket opened.  What the probe decodes into rx_frames_ goes with     *)
(* everything the last session observed.                                    *)
Reopen ==
  /\ user = "idle" /\ loop.pc # "write" /\ (loop.observed = "Faulted" \/ loop.requested = "Connected")
  /\ comms' = FreshComms
  /\ queue' = <<>> /\ loop' = NewLoop /\ user' = "connect" /\ ghost' = NoGhost
  /\ UNCHANGED <<drive, trips>>

(* run() waits for Running, start_homing() does not, and stop() stores      *)
(* nothing behind its wait.  A request that no loop is left to serve is     *)
(* module HandCore's.                                                       *)
Request ==
  /\ user = "idle" /\ loop.pc # "dead" /\ loop.observed \notin {"Disconnected", "Faulted"}
  /\ \/ /\ loop.requested \in {"Connected", "Stopped"} /\ loop' = [loop EXCEPT !.requested = "Running"]
        /\ user' \in {"run", "idle"}
     \/ /\ loop.requested = "Running" /\ loop' = [loop EXCEPT !.requested = "Stopped"]
        /\ UNCHANGED user
  /\ UNCHANGED <<comms, queue, drive, trips, ghost>>

(* The wait of connect() or run() has seen what it waits for, and the call  *)
(* then stores what it confirms, over whatever the loop stored meanwhile.   *)
WaitEnds ==
  /\ \/ user = "connect" /\ comms.any /\ user' = "connected"
     \/ user = "run" /\ loop.observed = "Running" /\ user' = "running"
  /\ UNCHANGED <<comms, queue, loop, drive, trips, ghost>>
Confirm ==
  /\ user \in {"connected", "running"} /\ user' = "idle"
  /\ loop' = [loop EXCEPT !.observed = IF user = "connected" THEN "Connected" ELSE "Running"]
  /\ ghost' = [ghost EXCEPT !.overwritten = @ \/ loop.observed = "Faulted"]
  /\ UNCHANGED <<comms, queue, drive, trips>>
RunFails ==
  /\ user = "run" /\ loop.observed # "Running" /\ user' = "idle"
  /\ loop' = [loop EXCEPT !.requested = "Stopped"]
  /\ UNCHANGED <<comms, queue, drive, trips, ghost>>

StartHoming ==
  /\ loop.pc = "top" /\ loop.requested = "Running" /\ loop.observed = "Running" /\ ~comms.homing
  /\ comms' = [comms EXCEPT !.homing = TRUE]
  /\ UNCHANGED <<queue, loop, user, drive, trips, ghost>>

-----------------------------------------------------------------------------
(* The drives, which have an error code as long as they are in fault *)

(* What arrives at a socket that nobody reads any more goes with it.        *)
Arrive(f) == loop.pc # "dead" /\ Len(queue) < MaxQueue /\ queue' = Append(queue, f)
DrivesReport ==
  /\ Arrive([kind |-> "state", states |-> [a \in Actuators |-> drive[a].state],
             errors |-> {a \in Actuators \ Disabled : drive[a].state = "fault"}])
  /\ UNCHANGED <<comms, loop, user, drive, trips, ghost>>
StrangeFrame ==
  /\ loop.pc = "top" /\ \E kind \in Anomalies : Arrive([kind |-> kind])
  /\ UNCHANGED <<comms, loop, user, drive, trips, ghost>>

(* A disabled actuator reports its missing sensor only once it is powered. *)
Trip ==
  /\ loop.pc = "top" /\ trips > 0 /\ trips' = trips - 1
  /\ \E a \in Actuators :
       /\ a \in Disabled => drive[a].state \in {"on", "enabled"}
       /\ drive' = [drive EXCEPT ![a].state = "fault", ![a].cause = TRUE]
  /\ UNCHANGED <<comms, queue, loop, user, ghost>>
Heal ==
  /\ loop.pc = "top" /\ \E a \in Actuators : drive[a].cause /\ drive' = [drive EXCEPT ![a].cause = FALSE]
  /\ UNCHANGED <<comms, queue, loop, user, trips, ghost>>
-----------------------------------------------------------------------------
Cycle == Read \/ Write \/ WriteNothing \/ LoopEnds
Next == \/ Cycle \/ Reopen \/ Request \/ WaitEnds \/ Confirm \/ RunFails \/ StartHoming
        \/ DrivesReport \/ StrangeFrame \/ Trip \/ Heal
Spec == Init /\ [][Next]_vars

-----------------------------------------------------------------------------
(* Properties *)

Sessions ==
  [status : [Actuators -> States \cup {"zero"}], errors : SUBSET (Actuators \ Disabled),
   word : [Actuators -> Words], seenHigh : SUBSET Actuators,
   silent : 0..LossCycles + 1, any : BOOLEAN, errno : Errnos, homing : BOOLEAN]
Lifecycles == {"Disconnected", "Connected", "Running", "Stopped", "Faulted"}
Loops ==
  [pc : {"top", "write", "dead"}, requested : {"Connected", "Running", "Stopped"}, observed : Lifecycles,
   asked : {"Connected", "Running", "Stopped"}, own : Lifecycles, receiving : BOOLEAN, previous : BOOLEAN]
Drives == [state : States, bit7 : BOOLEAN, cause : BOOLEAN]

(* Every variable has its type. *)
TypeOK ==
  /\ comms \in Sessions
  /\ queue \in Seq(Frames) /\ Len(queue) <= MaxQueue
  /\ loop \in Loops
  /\ user \in {"idle", "connect", "connected", "run", "running"}
  /\ drive \in [Actuators -> Drives]
  /\ trips \in 0..MaxTrips
  /\ ghost \in [heard : BOOLEAN, gap : 0..LossCycles + 1, unfounded : BOOLEAN, overwritten : BOOLEAN]

(* Nothing a verdict is taken from was received on an earlier socket: a     *)
(* status word, a bit 5 seen high, the first frame.                         *)
NothingInherited ==
  comms.any \/ comms.seenHigh # {} \/ (\E a \in Actuators : comms.status[a] # "zero") => ghost.heard

(* A hand that sends nothing is lost after LossCycles cycles, however many  *)
(* error frames, short frames or commands of others keep arriving: the      *)
(* cycle in which it is lost faults, and none runs on with the hand silent, *)
(* unless a call that had seen its confirmation stored it over that fault.  *)
SilenceIsNoticed ==
  loop.pc = "write" /\ ghost.heard /\ ghost.gap > LossCycles => loop.own = "Faulted" \/ ghost.overwritten

(* No transmit fault is raised but by a burst of which a send failed for    *)
(* good: neither a full queue nor the errno of an earlier burst raises one. *)
TransmitFaultIsReal == ~ghost.unfounded

(* No mode of the control word, the stages of homing included, powers an    *)
(* actuator the configuration disables.                                     *)
DisabledNeverPowered == \A a \in Disabled : drive[a].state \notin {"on", "enabled"}

(* The loop runs, the drives report, and a bus that is full at times does   *)
(* not for ever take the same of the two words of the fault reset.          *)
WordArrives(a, word) ==
  Transmit({burst \in Bursts : burst.arrives}, {mode \in Modes(QuickStop) : WordOf(a, mode) = word})
FairSpec ==
  /\ Spec /\ WF_vars(Cycle) /\ WF_vars(DrivesReport)
  /\ \A a \in Actuators \ Disabled, word \in {"FaultReset", "Shutdown"} : SF_vars(WordArrives(a, word))

(* A drive fault whose cause has gone is reset while the hand keeps         *)
(* running: the ladder makes the rising edge of bit 7 the drive waits for,  *)
(* whatever it was sent before.  (Where a fault of the link was overwritten *)
(* the loop may be gone.)                                                   *)
Stuck(a) ==
  /\ drive[a].state = "fault" /\ ~drive[a].cause
  /\ loop.requested = "Running" /\ loop.observed # "Faulted" /\ ~ghost.overwritten
FaultIsReset == \A a \in Actuators \ Disabled : ~<>[]Stuck(a)
=============================================================================
