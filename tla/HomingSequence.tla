--------------------------- MODULE HomingSequence ---------------------------
(***************************************************************************)
(* The homing sequence of the control loop                                 *)
(* (comms/state_machine/homing_sequence.cpp), one action per stage of      *)
(* step(), and the drives it walks through CiA 402 (cia402.hpp, and, as    *)
(* far as that file tells what a drive answers, the drives themselves).    *)
(*                                                                         *)
(*   seq    the members of HomingSequence                                  *)
(*   frame  what the last cycle sent: mode, pushing actuators, ladder mode *)
(*   drive  each drive: its CiA 402 state and its homing status            *)
(*   run    of this run, for the properties: cycles spent, and the drives  *)
(*          that completed their own homing                                *)
(*                                                                         *)
(* An operator that is used nowhere (AnyAttained, StayUncounted, ...) is   *)
(* the next one with a bug in it, which the properties must notice.        *)
(***************************************************************************)
EXTENDS Naturals, FiniteSets

CONSTANTS
  Actuators,
  EnableCycles, ClearCycles, PreloadCycles, SettleCycles, EdgeCycles, TriggerCycles,
  MaxStarts   \* bound: how many runs

ASSUME HomingAssumption ==
  /\ IsFiniteSet(Actuators) /\ MaxStarts \in Nat
  /\ {EnableCycles, ClearCycles, PreloadCycles, SettleCycles, TriggerCycles} \subseteq Nat \ {0}
  /\ EdgeCycles \in 0..SettleCycles

VARIABLES seq, frame, drive, run
vars == <<seq, frame, drive, run>>

Stages == {"Enable", "ClearDisable", "ClearReEnable", "Preload", "Settle", "TriggerWait"}
Outcomes == {"InProgress", "Succeeded", "EnableTimeout", "ClearTimeout", "HomingError", "TriggerTimeout"}
Ladders == {"Enable", "SwitchOn", "Homing", "QuickStop"}
Origins == {"none", "attained", "error"}
AnyDrives == [Actuators -> [state : {"off", "on", "enabled"}, origin : Origins]]

Unused == [active |-> FALSE, stage |-> "Enable", cycle |-> 0, outcome |-> "InProgress",
           disabled |-> {}, present |-> {}, running |-> {}, attained |-> {}, failed |-> {},
           failedStage |-> "Enable"]

Init ==
  /\ seq = Unused
  /\ frame = [mode |-> "CST", pushing |-> {}, ladder |-> "QuickStop"]
  /\ drive = [a \in Actuators |-> [state |-> "off", origin |-> "none"]]
  /\ run = [starts |-> 0, elapsed |-> 0, homed |-> {}]

-----------------------------------------------------------------------------
(* The drives, external: a drive follows the control word of a frame or     *)
(* has not got to it yet, and may fall out of the ladder on its own.        *)
(* Entering Operation Enabled clears bit 12, which otherwise stays; bit 4   *)
(* in mode 6 makes an enabled drive home.                                   *)
Follows(d, ladder, mode) ==
  CASE ladder = "QuickStop" -> {[d EXCEPT !.state = "off"]}
    [] ladder = "SwitchOn" /\ d.state = "enabled" -> {[d EXCEPT !.state = "on"]}
    [] ladder \in {"Enable", "Homing"} /\ d.state = "off" -> {[d EXCEPT !.state = "on"]}
    [] ladder \in {"Enable", "Homing"} /\ d.state = "on" -> {[state |-> "enabled", origin |-> "none"]}
    [] ladder = "Homing" /\ mode = "Homing" /\ d.state = "enabled" /\ d.origin = "none" ->
         {[d EXCEPT !.origin = o] : o \in {"attained", "error"}}
    [] OTHER -> {d}
Answers(d, ladder, mode) == Follows(d, ladder, mode) \cup {d, [d EXCEPT !.state = "off"]}

(* fill_homing_command(), the control word, and what the drives make of     *)
(* them.  A disabled actuator is held at Shutdown.                          *)
Sends(mode, pushing, ladder) ==
  /\ frame' = [mode |-> mode, pushing |-> pushing, ladder |-> ladder]
  /\ \E f \in AnyDrives :
       /\ \A a \in Actuators :
            f[a] \in IF a \in seq.disabled THEN {[drive[a] EXCEPT !.state = "off"]}
                     ELSE Answers(drive[a], ladder, mode)
       /\ drive' = f

-----------------------------------------------------------------------------
(* start() and cancel() *)

(* A new run, or the one that is going on restarted.  Since the end of the  *)
(* last run anything may have happened to the drives.                       *)
Start ==
  /\ run.starts < MaxStarts
  /\ \E disabled \in SUBSET Actuators :
       seq' = [Unused EXCEPT !.active = TRUE, !.disabled = disabled, !.failedStage = seq.failedStage]
  /\ drive' \in IF seq.active THEN {drive} ELSE AnyDrives
  /\ run' = [starts |-> run.starts + 1, elapsed |-> 0, homed |-> {}]
  /\ UNCHANGED frame

(* The quick stop of the same write() takes the drives down. *)
Cancel ==
  /\ seq.active
  /\ seq' = [seq EXCEPT !.active = FALSE]
  /\ Sends("CST", {}, "QuickStop")
  /\ UNCHANGED run

-----------------------------------------------------------------------------
(* step(): the cycle counter, how a cycle may end, what the status words    *)
(* say (bit 2; bits 12 and 13, which say anything at all outside mode 6)    *)

Budget == EnableCycles + 2 * ClearCycles + PreloadCycles + SettleCycles + TriggerCycles

In(stage) == seq.active /\ seq.stage = stage
Cycle == seq.cycle + 1

Enter(s, stage) == [s EXCEPT !.stage = stage, !.cycle = 0]
StayUncounted(s) == s
Stay(s) == [s EXCEPT !.cycle = Cycle]
Fail(s, outcome, failed) ==
  [s EXCEPT !.cycle = Cycle, !.active = FALSE, !.outcome = outcome, !.failed = failed,
            !.failedStage = s.stage]

Enabled == {a \in Actuators : drive[a].state = "enabled"}
Homed == {a \in Actuators : drive[a].origin = "attained"}
Shown == {shown \in [Actuators -> Origins] :
            frame.mode = "Homing" => \A a \in Actuators : shown[a] = drive[a].origin}

(* For the properties; elapsed is capped past every budget. *)
Counts ==
  run' = [run EXCEPT !.elapsed = IF @ > Budget THEN @ ELSE @ + 1, !.homed = @ \cup (Homed' \ Homed)]

Targets == Actuators \ seq.disabled

(* Whoever answers within the window takes part; a dead motor is left out.  *)
EnableStep ==
  /\ In("Enable")
  /\ LET s == [seq EXCEPT !.present = @ \cup (Enabled \cap Targets)] IN
     seq' = CASE s.present # {} /\ (s.present = Targets \/ Cycle >= EnableCycles) -> Enter(s, "ClearDisable")
              [] s.present = {} /\ Cycle >= EnableCycles -> Fail(s, "EnableTimeout", Actuators)
              [] OTHER -> Stay(s)
  /\ Sends("CST", {}, "Enable") /\ Counts

(* Operation is disabled, so that enabling it again clears bit 12.  In      *)
(* mode 6, where bit 12 means homing attained.                              *)
AnyStillEnabled == Enabled
StillEnabled == seq.present \cap Enabled
ClearDisableStep ==
  /\ In("ClearDisable")
  /\ seq' = CASE StillEnabled = {} -> Enter(seq, "ClearReEnable")
              [] StillEnabled # {} /\ Cycle >= ClearCycles -> Fail(seq, "ClearTimeout", StillEnabled)
              [] OTHER -> Stay(seq)
  /\ Sends("Homing", {}, "SwitchOn") /\ Counts

ClearReEnableStep ==
  /\ In("ClearReEnable")
  /\ \E shown \in Shown :
       LET unclear == {a \in seq.present : a \notin Enabled \/ shown[a] = "attained"} IN
       seq' = CASE unclear = {} -> Enter(seq, "Preload")
                [] unclear # {} /\ Cycle >= ClearCycles -> Fail(seq, "ClearTimeout", unclear)
                [] OTHER -> Stay(seq)
  /\ Sends("Homing", {}, "Enable") /\ Counts

(* The push to the hard stop, for a fixed time. *)
PreloadStep ==
  /\ In("Preload")
  /\ seq' = IF Cycle >= PreloadCycles THEN Enter(seq, "Settle") ELSE Stay(seq)
  /\ Sends("CST", seq.present, "Enable") /\ Counts

SettleMode == IF Cycle > SettleCycles - EdgeCycles THEN "Homing" ELSE "CST"
SettleReleased ==
  /\ In("Settle")
  /\ seq' = IF Cycle >= SettleCycles THEN Enter(seq, "TriggerWait") ELSE Stay(seq)
  /\ Sends(SettleMode, {}, "Enable") /\ Counts
SettleStep ==
  /\ In("Settle")
  /\ seq' = IF Cycle >= SettleCycles THEN Enter(seq, "TriggerWait") ELSE Stay(seq)
  /\ Sends(SettleMode, seq.present, "Enable") /\ Counts

(* evaluate_homing_trigger(): the rising edge of bit 12, a bit 13, or the   *)
(* end of the budget.                                                       *)
TriggerEdge(s, shown) ==
  LET bit12 == {a \in s.present : shown[a] = "attained"} IN
  [s EXCEPT !.running = @ \cup (s.present \ bit12), !.attained = @ \cup (bit12 \cap s.running)]
AnyAttained(s) == s.attained # {}
AllAttained(s) == s.attained = s.present
TriggerOverLate == Cycle > TriggerCycles
TriggerOver == Cycle >= TriggerCycles
TriggerWaitStep ==
  /\ In("TriggerWait")
  /\ \E shown \in Shown :
       LET s == TriggerEdge(seq, shown)
           wrong == {a \in s.present : shown[a] = "error"}
       IN seq' = CASE wrong # {} -> Fail(s, "HomingError", wrong)
                   [] wrong = {} /\ AllAttained(s) ->
                        [s EXCEPT !.cycle = Cycle, !.active = FALSE, !.outcome = "Succeeded"]
                   [] wrong = {} /\ ~AllAttained(s) /\ TriggerOver ->
                        Fail(s, "TriggerTimeout", s.present \ s.attained)
                   [] OTHER -> Stay(s)
  /\ Sends("Homing", seq.present, "Homing") /\ Counts

Step == EnableStep \/ ClearDisableStep \/ ClearReEnableStep \/ PreloadStep \/ SettleStep \/ TriggerWaitStep
Next == Start \/ Cancel \/ Step

Spec == Init /\ [][Next]_vars
(* The control loop steps an active sequence every cycle. *)
FairSpec == Spec /\ WF_vars(Step)

-----------------------------------------------------------------------------
(* Properties *)

(* The members of HomingSequence, the frame and the drives have their types;*)
(* a disabled actuator never takes part, and only who takes part has homed. *)
TypeOK ==
  /\ seq \in [active : BOOLEAN, stage : Stages, cycle : 0..Budget, outcome : Outcomes,
              disabled : SUBSET Actuators, present : SUBSET (Actuators \ seq.disabled),
              running : SUBSET seq.present, attained : SUBSET seq.present,
              failed : SUBSET Actuators, failedStage : Stages]
  /\ frame \in [mode : {"CST", "Homing"}, pushing : SUBSET Actuators, ladder : Ladders]
  /\ drive \in AnyDrives
  /\ run \in [starts : 0..MaxStarts, elapsed : 0..Budget + 1, homed : SUBSET Actuators]

(* Success means that every actuator taking part, at least one, completed   *)
(* its own homing in this very run: a bit 12 left over from an earlier      *)
(* homing, or read outside mode 6, does not count.                          *)
SuccessIsEarned == seq.outcome = "Succeeded" => seq.present # {} /\ seq.present \subseteq run.homed

(* A run ends within the sum of the stage budgets, which is the time limit  *)
(* documented for home().                                                   *)
EndsWithinBudget == run.elapsed <= Budget /\ (seq.active => run.elapsed < Budget)

(* A failure after the enable window names the actuators that caused it,    *)
(* all of which took part; a success names none.                            *)
CulpritsTookPart ==
  CASE seq.outcome \in {"ClearTimeout", "HomingError", "TriggerTimeout"} ->
         seq.failed # {} /\ seq.failed \subseteq seq.present
    [] seq.outcome = "EnableTimeout" -> seq.present = {}
    [] OTHER -> seq.failed = {}

(* Once the push has begun, it goes on, on the same actuators, to the end   *)
(* of the run, and no frame drops the power stage: a pressed finger would   *)
(* slip off the stop it is to be zeroed at.                                 *)
NoSlipAfterPush ==
  [][Step /\ frame.pushing # {} /\ run.elapsed > 0
       => frame'.pushing = frame.pushing /\ frame'.ladder \in {"Enable", "Homing"}]_vars

(* A run that is not started again ends. *)
HomingEnds == seq.active ~> ~seq.active

(* What the comments and the documentation say of single points *)

(* The actuators the user disabled are never reported. *)
DisabledAreNotBlamed == seq.failed \cap seq.disabled = {}

(* Settle goes on holding the push in CST and turns to mode 6 at its end. *)
SettleHoldsThePush == [][In("Settle") /\ seq.cycle = 0 /\ SettleStep => frame'.mode = "CST"]_vars

=============================================================================
