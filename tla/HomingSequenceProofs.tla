------------------------ MODULE HomingSequenceProofs ------------------------
(***************************************************************************)
(* A homing that succeeds was earned by every actuator taking part, a run  *)
(* ends within its budget, a failure names whoever caused it, and a push   *)
(* that has begun does not slip: for any set of actuators, whatever the    *)
(* drives answer, and for any budgets of the stages.                       *)
(***************************************************************************)
EXTENDS HomingSequence, TLAPS

(* The cycles a stage may take, and those the stages before it may take.   *)
Limit(stage) ==
  CASE stage = "Enable" -> EnableCycles
    [] stage \in {"ClearDisable", "ClearReEnable"} -> ClearCycles
    [] stage = "Preload" -> PreloadCycles
    [] stage = "Settle" -> SettleCycles
    [] stage = "TriggerWait" -> TriggerCycles
Before(stage) ==
  CASE stage = "Enable" -> 0
    [] stage = "ClearDisable" -> EnableCycles
    [] stage = "ClearReEnable" -> EnableCycles + ClearCycles
    [] stage = "Preload" -> EnableCycles + 2 * ClearCycles
    [] stage = "Settle" -> EnableCycles + 2 * ClearCycles + PreloadCycles
    [] stage = "TriggerWait" -> EnableCycles + 2 * ClearCycles + PreloadCycles + SettleCycles

Pushes == {"Preload", "Settle", "TriggerWait"}

(* The run is within the budget of its stage and of those before.          *)
OnTime ==
  /\ run.elapsed <= Budget
  /\ seq.active => /\ seq.cycle < Limit(seq.stage)
                   /\ run.elapsed <= Before(seq.stage) + seq.cycle
                   /\ seq.stage # "Enable" => run.elapsed > 0

(* A run has no outcome before it ends; past the enable window it has      *)
(* somebody taking part.                                                   *)
UnderWay ==
  seq.active => seq.outcome = "InProgress" /\ (seq.stage # "Enable" => seq.present # {})

(* A status word is read in mode 6 wherever bit 12 decides: on clearing it *)
(* and, once a low bit was seen, in the wait for its rising edge.          *)
ReadInModeSix ==
  seq.active => /\ seq.stage = "ClearReEnable" => frame.mode = "Homing"
                /\ seq.running # {} => seq.stage = "TriggerWait" /\ frame.mode = "Homing"

(* After the clearing a bit 12 of an actuator taking part is of this run,  *)
(* and so is every edge counted.                                           *)
OriginsAreNew ==
  /\ seq.active /\ seq.stage \in Pushes =>
       \A a \in seq.present : drive[a].origin = "attained" => a \in run.homed
  /\ seq.active => seq.attained \subseteq run.homed

(* The push begins after the clearing and is on all who take part.         *)
PushHolds ==
  seq.active /\ run.elapsed > 0 =>
    /\ frame.pushing \in {{}, seq.present}
    /\ seq.stage \notin Pushes => frame.pushing = {}

IInv ==
  /\ TypeOK
  /\ OnTime
  /\ UnderWay
  /\ ReadInModeSix
  /\ OriginsAreNew
  /\ PushHolds
  /\ SuccessIsEarned
  /\ CulpritsTookPart

(* The members of HomingSequence, each with its type. *)
Runs ==
  {s \in [active : BOOLEAN, stage : Stages, cycle : 0..Budget, outcome : Outcomes,
          disabled : SUBSET Actuators, present : SUBSET Actuators, running : SUBSET Actuators,
          attained : SUBSET Actuators, failed : SUBSET Actuators, failedStage : Stages] :
     s.present \cap s.disabled = {} /\ s.running \subseteq s.present /\ s.attained \subseteq s.present}

-----------------------------------------------------------------------------
(* The operators.                                                          *)

(* TypeOK, with the type of seq in one piece. *)
LEMMA TypeParts ==
  TypeOK <=> /\ seq \in Runs
             /\ frame \in [mode : {"CST", "Homing"}, pushing : SUBSET Actuators, ladder : Ladders]
             /\ drive \in AnyDrives
             /\ run \in [starts : 0..MaxStarts, elapsed : 0..Budget + 1, homed : SUBSET Actuators]
<1>1. seq \in Runs <=>
        seq \in [active : BOOLEAN, stage : Stages, cycle : 0..Budget, outcome : Outcomes,
                 disabled : SUBSET Actuators, present : SUBSET (Actuators \ seq.disabled),
                 running : SUBSET seq.present, attained : SUBSET seq.present,
                 failed : SUBSET Actuators, failedStage : Stages]
  BY DEF Runs
<1> QED
  BY <1>1 DEF TypeOK

(* The budgets of the stages add up. *)
LEMMA Budgets ==
  /\ Budget \in Nat
  /\ \A stage \in Stages : /\ Limit(stage) \in Nat \ {0} /\ Before(stage) \in Nat
                           /\ Before(stage) + Limit(stage) <= Budget
  /\ Before("ClearDisable") = Before("Enable") + Limit("Enable")
  /\ Before("ClearReEnable") = Before("ClearDisable") + Limit("ClearDisable")
  /\ Before("Preload") = Before("ClearReEnable") + Limit("ClearReEnable")
  /\ Before("Settle") = Before("Preload") + Limit("Preload")
  /\ Before("TriggerWait") = Before("Settle") + Limit("Settle")
<1> USE HomingAssumption
<1>1. \A n \in {EnableCycles, ClearCycles, PreloadCycles, SettleCycles, TriggerCycles} : n \in Nat /\ n > 0
  OBVIOUS
<1>2. Budget \in Nat
  BY <1>1 DEF Budget
<1>3. ASSUME NEW stage \in Stages
      PROVE  Limit(stage) \in Nat \ {0} /\ Before(stage) \in Nat /\ Before(stage) + Limit(stage) <= Budget
  BY <1>1 DEF Stages, Limit, Before, Budget
<1>4. /\ Before("ClearDisable") = Before("Enable") + Limit("Enable")
      /\ Before("ClearReEnable") = Before("ClearDisable") + Limit("ClearDisable")
      /\ Before("Preload") = Before("ClearReEnable") + Limit("ClearReEnable")
  BY <1>1 DEF Limit, Before
<1>5. /\ Before("Settle") = Before("Preload") + Limit("Preload")
      /\ Before("TriggerWait") = Before("Settle") + Limit("Settle")
  BY <1>1 DEF Limit, Before
<1> QED
  BY <1>2, <1>3, <1>4, <1>5

(* Only bit 4 in mode 6 makes a drive report a homing it has completed. *)
LEMMA NoOriginWithoutTrigger ==
  ASSUME NEW d \in [state : {"off", "on", "enabled"}, origin : Origins],
         NEW ladder \in Ladders \ {"Homing"}, NEW mode, NEW e \in Answers(d, ladder, mode)
  PROVE  e.origin = "attained" => d.origin = "attained"
<1>1. e \in Follows(d, ladder, mode) \/ e = d \/ e = [d EXCEPT !.state = "off"]
  BY DEF Answers
<1>2. CASE e \in Follows(d, ladder, mode)
  BY <1>2 DEF Follows, Ladders, Origins
<1> QED
  BY <1>1, <1>2

-----------------------------------------------------------------------------
(* What every stage of step() has in common.                               *)

(* Sends, whatever it sends: the frame, the drives, and the count of the   *)
(* drives that completed a homing.                                         *)
LEMMA StepSends ==
  ASSUME TypeOK, Step
  PROVE  /\ seq.active
         /\ drive' \in AnyDrives
         /\ frame' \in [mode : {"CST", "Homing"}, pushing : SUBSET Actuators, ladder : Ladders]
         /\ frame'.pushing = IF seq.stage \in Pushes THEN seq.present ELSE {}
         /\ seq.stage \in Pushes => frame'.ladder \in {"Enable", "Homing"}
         /\ seq.stage \in {"ClearDisable", "ClearReEnable", "TriggerWait"} => frame'.mode = "Homing"
         /\ seq.stage # "TriggerWait" =>
              \A a \in Actuators : drive'[a].origin = "attained" => drive[a].origin = "attained"
<1>0. /\ drive \in AnyDrives /\ seq \in Runs
  BY TypeParts
<1>1. \E mode \in {"CST", "Homing"}, ladder \in Ladders, pushing \in {{}, seq.present} :
        /\ Sends(mode, pushing, ladder)
        /\ pushing = IF seq.stage \in Pushes THEN seq.present ELSE {}
        /\ seq.stage # "TriggerWait" => ladder # "Homing"
        /\ seq.stage \in Pushes => ladder \in {"Enable", "Homing"}
        /\ seq.stage \in {"ClearDisable", "ClearReEnable", "TriggerWait"} => mode = "Homing"
        /\ seq.active
  BY DEF Step, In, EnableStep, ClearDisableStep, ClearReEnableStep, PreloadStep, SettleStep, TriggerWaitStep,
         Pushes, Ladders, SettleMode, Sends
<1>2. PICK mode \in {"CST", "Homing"}, ladder \in Ladders, pushing \in {{}, seq.present}, f \in AnyDrives :
        /\ frame' = [mode |-> mode, pushing |-> pushing, ladder |-> ladder]
        /\ \A a \in Actuators :
             f[a] \in IF a \in seq.disabled THEN {[drive[a] EXCEPT !.state = "off"]}
                      ELSE Answers(drive[a], ladder, mode)
        /\ drive' = f
        /\ pushing = IF seq.stage \in Pushes THEN seq.present ELSE {}
        /\ seq.stage # "TriggerWait" => ladder # "Homing"
        /\ seq.stage \in Pushes => ladder \in {"Enable", "Homing"}
        /\ seq.stage \in {"ClearDisable", "ClearReEnable", "TriggerWait"} => mode = "Homing"
        /\ seq.active
  BY <1>1 DEF Sends
<1>3. seq.present \in SUBSET Actuators
  BY <1>0 DEF Runs
<1>4. ASSUME seq.stage # "TriggerWait", NEW a \in Actuators, f[a].origin = "attained"
      PROVE  drive[a].origin = "attained"
  <2>1. drive[a] \in [state : {"off", "on", "enabled"}, origin : Origins]
    BY <1>0 DEF AnyDrives
  <2>2. CASE a \in seq.disabled
    BY <1>2, <1>4, <2>1, <2>2
  <2>3. CASE a \notin seq.disabled
    <3>1. ladder \in Ladders \ {"Homing"} /\ f[a] \in Answers(drive[a], ladder, mode)
      BY <1>2, <1>4, <2>3
    <3> QED
      BY <1>4, <2>1, <3>1, NoOriginWithoutTrigger
  <2> QED
    BY <2>2, <2>3
<1> QED
  BY <1>2, <1>3, <1>4

(* The cycle is counted, and a homing that completes in it is noted. *)
LEMMA StepCounts ==
  ASSUME TypeOK, OnTime, Step
  PROVE  /\ run' \in [starts : 0..MaxStarts, elapsed : 0..Budget + 1, homed : SUBSET Actuators]
         /\ run'.elapsed = run.elapsed + 1 /\ run'.elapsed <= Budget
         /\ run.homed \subseteq run'.homed
         /\ \A a \in Actuators : drive'[a].origin = "attained" => drive[a].origin = "attained" \/ a \in run'.homed
<1>1. Counts
  BY DEF Step, EnableStep, ClearDisableStep, ClearReEnableStep, PreloadStep, SettleStep, TriggerWaitStep
<1>2. /\ run \in [starts : 0..MaxStarts, elapsed : 0..Budget + 1, homed : SUBSET Actuators] /\ Budget \in Nat
      /\ seq \in Runs
  BY TypeParts, Budgets
<1>3. run.elapsed < Budget
  <2>1. seq.stage \in Stages /\ seq.cycle \in Nat
    BY <1>2 DEF Runs
  <2>2. seq.active
    BY StepSends
  <2>3. Limit(seq.stage) \in Nat /\ Before(seq.stage) \in Nat /\ Before(seq.stage) + Limit(seq.stage) <= Budget
    BY <2>1, Budgets
  <2> QED
    BY <1>2, <2>1, <2>2, <2>3 DEF OnTime
<1>4. run' = [run EXCEPT !.elapsed = run.elapsed + 1, !.homed = run.homed \cup (Homed' \ Homed)]
  <2>1. ~ (run.elapsed > Budget)
    BY <1>2, <1>3
  <2>2. run' = [run EXCEPT !.elapsed = IF run.elapsed > Budget THEN run.elapsed ELSE run.elapsed + 1,
                           !.homed = run.homed \cup (Homed' \ Homed)]
    BY <1>1, Zenon DEF Counts
  <2> QED
    BY <2>1, <2>2, Zenon
<1>5. Homed' \in SUBSET Actuators /\ run.elapsed + 1 \in 0..Budget
  BY <1>2, <1>3 DEF Homed
<1>6. run'.elapsed = run.elapsed + 1 /\ run'.homed = run.homed \cup (Homed' \ Homed)
  BY <1>2, <1>4
<1>7. run' \in [starts : 0..MaxStarts, elapsed : 0..Budget + 1, homed : SUBSET Actuators]
  <2>1. run.homed \cup (Homed' \ Homed) \in SUBSET Actuators /\ run.elapsed + 1 \in 0..Budget + 1
    BY <1>2, <1>5
  <2> QED
    BY <1>2, <1>4, <2>1
<1>8. \A a \in Actuators : drive'[a].origin = "attained" => drive[a].origin = "attained" \/ a \in run'.homed
  BY <1>6 DEF Homed
<1> QED
  BY <1>5, <1>6, <1>7, <1>8

-----------------------------------------------------------------------------
(* The inductive invariant: first what a stage owes it beyond the common.  *)

(* A step keeps the invariant when its new seq is a run that is on time,   *)
(* has the outcome it may have, and has earned its success.                *)
Fits(s) ==
  /\ s \in Runs
  /\ s.active => /\ s.cycle < Limit(s.stage) /\ s.outcome = "InProgress"
                 /\ run.elapsed + 1 <= Before(s.stage) + s.cycle
                 /\ s.stage # "Enable" => s.present # {}
                 /\ s.stage = "ClearReEnable" => seq.stage \in {"ClearDisable", "ClearReEnable"}
                 /\ s.running # {} => s.stage = "TriggerWait" /\ seq.stage = "TriggerWait"
                 /\ s.attained \subseteq run.homed
                 /\ s.stage \in Pushes =>
                      /\ \A a \in s.present : drive[a].origin = "attained" => a \in run.homed
                      /\ seq.stage = "ClearReEnable" \/ (seq.stage \in Pushes /\ s.present = seq.present)
                 /\ s.stage \notin Pushes => seq.stage \notin Pushes
  /\ s.outcome = "Succeeded" => s.present # {} /\ s.present \subseteq run.homed
  /\ CASE s.outcome \in {"ClearTimeout", "HomingError", "TriggerTimeout"} ->
            s.failed # {} /\ s.failed \subseteq s.present
       [] s.outcome = "EnableTimeout" -> s.present = {}
       [] OTHER -> s.failed = {}

(* Such a step keeps the invariant. *)
LEMMA FitsKeeps ==
  ASSUME IInv, Step, NEW s, seq' = s, Fits(s)
  PROVE  IInv'
<1>0. TypeOK /\ OnTime
  BY DEF IInv
<1>1. /\ s \in Runs /\ seq \in Runs /\ run.elapsed \in Nat
  BY <1>0, TypeParts DEF Fits
<1>2. TypeOK'
  <2>1. /\ seq' \in Runs
        /\ frame' \in [mode : {"CST", "Homing"}, pushing : SUBSET Actuators, ladder : Ladders]
        /\ drive' \in AnyDrives
        /\ run' \in [starts : 0..MaxStarts, elapsed : 0..Budget + 1, homed : SUBSET Actuators]
    BY <1>0, <1>1, StepSends, StepCounts
  <2>2. (seq \in Runs /\ frame \in [mode : {"CST", "Homing"}, pushing : SUBSET Actuators, ladder : Ladders]
          /\ drive \in AnyDrives
          /\ run \in [starts : 0..MaxStarts, elapsed : 0..Budget + 1, homed : SUBSET Actuators] => TypeOK)'
    BY TypeParts, PTL
  <2> QED
    BY <2>1, <2>2
<1>3. OnTime'
  <2>1. run'.elapsed = run.elapsed + 1 /\ run'.elapsed <= Budget
    BY <1>0, StepCounts
  <2>2. run'.elapsed > 0
    BY <1>1, <2>1
  <2> QED
    BY <2>1, <2>2 DEF OnTime, Fits
<1>4. UnderWay'
  BY DEF UnderWay, Fits
<1>5. ReadInModeSix'
  BY <1>0, StepSends DEF ReadInModeSix, Fits
<1>6. OriginsAreNew'
  <2>1. run.homed \subseteq run'.homed
    BY <1>0, StepCounts
  <2>2. ASSUME s.active, s.stage \in Pushes, NEW a \in s.present, drive'[a].origin = "attained"
        PROVE  a \in run'.homed
    <3>1. a \in Actuators
      BY <1>1 DEF Runs
    <3>2. drive[a].origin = "attained" \/ a \in run'.homed
      BY <1>0, <2>2, <3>1, StepCounts
    <3> QED
      BY <2>1, <2>2, <3>2 DEF Fits
  <2> QED
    BY <2>1, <2>2 DEF OriginsAreNew, Fits
<1>7. PushHolds'
  <2> SUFFICES ASSUME s.active
               PROVE  frame'.pushing \in {{}, s.present} /\ (s.stage \notin Pushes => frame'.pushing = {})
    BY DEF PushHolds
  <2>1. frame'.pushing = IF seq.stage \in Pushes THEN seq.present ELSE {}
    BY <1>0, StepSends
  <2>2. CASE s.stage \in Pushes
    BY <2>1, <2>2 DEF Fits, Pushes
  <2>3. CASE s.stage \notin Pushes
    BY <2>1, <2>3 DEF Fits
  <2> QED
    BY <2>2, <2>3
<1>8. SuccessIsEarned'
  BY <1>0, StepCounts DEF SuccessIsEarned, Fits
<1>9. CulpritsTookPart'
  BY DEF CulpritsTookPart, Fits
<1> QED
  BY <1>2, <1>3, <1>4, <1>5, <1>6, <1>7, <1>8, <1>9 DEF IInv

(* The cycle counter in a stage that has not ended. *)
LEMMA CycleOf ==
  ASSUME IInv, seq.active
  PROVE  /\ seq \in Runs /\ drive \in AnyDrives /\ seq.cycle \in Nat /\ Cycle \in 0..Budget
         /\ Cycle = seq.cycle + 1 /\ Cycle <= Limit(seq.stage) /\ run.elapsed \in Nat
         /\ run.elapsed + 1 <= Before(seq.stage) + Cycle
         /\ Limit(seq.stage) \in Nat \ {0} /\ Before(seq.stage) \in Nat
         /\ seq.outcome = "InProgress" /\ seq.failed = {}
         /\ run.homed \in SUBSET Actuators
<1>1. seq \in Runs /\ drive \in AnyDrives /\ run.elapsed \in Nat /\ run.homed \in SUBSET Actuators
  BY TypeParts, Budgets DEF IInv
<1>2. seq.stage \in Stages /\ seq.cycle \in Nat
  BY <1>1, Budgets DEF Runs
<1>3. /\ Limit(seq.stage) \in Nat \ {0} /\ Before(seq.stage) \in Nat /\ Budget \in Nat
      /\ Before(seq.stage) + Limit(seq.stage) <= Budget
  BY <1>2, Budgets
<1>4. seq.cycle < Limit(seq.stage) /\ run.elapsed <= Before(seq.stage) + seq.cycle
  BY DEF IInv, OnTime
<1>5. seq.outcome = "InProgress" /\ seq.failed = {}
  BY DEF IInv, UnderWay, CulpritsTookPart
<1> QED
  BY <1>1, <1>2, <1>3, <1>4, <1>5 DEF Cycle

(* How a cycle may end: in the next stage. *)
LEMMA Entered ==
  ASSUME NEW s \in Runs, NEW stage \in Stages
  PROVE  /\ Enter(s, stage) \in Runs /\ Enter(s, stage).stage = stage /\ Enter(s, stage).cycle = 0
         /\ Enter(s, stage).active = s.active /\ Enter(s, stage).outcome = s.outcome
         /\ Enter(s, stage).present = s.present /\ Enter(s, stage).running = s.running
         /\ Enter(s, stage).attained = s.attained /\ Enter(s, stage).failed = s.failed
<1>1. 0 \in 0..Budget
  BY Budgets
<1>2. Enter(s, stage) = [s EXCEPT !.stage = stage, !.cycle = 0]
  BY DEF Enter
<1>3. Enter(s, stage) \in Runs
  BY <1>1, <1>2 DEF Runs
<1> QED
  BY <1>2, <1>3 DEF Runs

(* In this one, a cycle later. *)
LEMMA Stayed ==
  ASSUME NEW s \in Runs, Cycle \in 0..Budget
  PROVE  /\ Stay(s) \in Runs /\ Stay(s).stage = s.stage /\ Stay(s).cycle = Cycle
         /\ Stay(s).active = s.active /\ Stay(s).outcome = s.outcome
         /\ Stay(s).present = s.present /\ Stay(s).running = s.running
         /\ Stay(s).attained = s.attained /\ Stay(s).failed = s.failed
<1> DEFINE c == Cycle
<1>1. c \in 0..Budget /\ Stay(s) = [s EXCEPT !.cycle = c]
  BY DEF Stay
<1> HIDE DEF c
<1>2. Stay(s) \in Runs
  BY <1>1 DEF Runs
<1> QED
  BY <1>1, <1>2 DEF Runs, c

(* Failed. *)
LEMMA FailedRun ==
  ASSUME NEW s \in Runs, Cycle \in 0..Budget, NEW outcome \in Outcomes, NEW failed \in SUBSET Actuators
  PROVE  /\ Fail(s, outcome, failed) \in Runs /\ ~Fail(s, outcome, failed).active
         /\ Fail(s, outcome, failed).outcome = outcome /\ Fail(s, outcome, failed).failed = failed
         /\ Fail(s, outcome, failed).present = s.present
<1> DEFINE c == Cycle
<1>1. /\ c \in 0..Budget
      /\ Fail(s, outcome, failed) = [s EXCEPT !.cycle = c, !.active = FALSE, !.outcome = outcome, !.failed = failed,
                                              !.failedStage = s.stage]
  BY DEF Fail
<1> HIDE DEF c
<1> QED
  BY <1>1 DEF Runs

(* A failure fits when it blames somebody who took part. *)
LEMMA FailureFits ==
  ASSUME NEW s \in Runs, Cycle \in 0..Budget, NEW failed \in SUBSET Actuators,
         NEW outcome \in {"EnableTimeout", "ClearTimeout", "HomingError", "TriggerTimeout"},
         outcome = "EnableTimeout" => s.present = {},
         outcome # "EnableTimeout" => failed # {} /\ failed \subseteq s.present
  PROVE  Fits(Fail(s, outcome, failed))
<1>1. outcome \in Outcomes
  BY DEF Outcomes
<1> QED
  BY <1>1, FailedRun DEF Fits

(* The drives answer, or the window ends. *)
LEMMA EnableFits == ASSUME IInv, EnableStep PROVE Fits(seq')
<1> DEFINE s == [seq EXCEPT !.present = @ \cup (Enabled \cap Targets)]
<1>1. seq.active /\ seq.stage = "Enable"
  BY DEF EnableStep, In
<1>2. /\ seq \in Runs /\ seq.cycle \in Nat /\ Cycle \in 0..Budget /\ Cycle <= EnableCycles
      /\ run.elapsed \in Nat /\ run.elapsed + 1 <= Cycle /\ seq.outcome = "InProgress" /\ seq.failed = {}
      /\ EnableCycles \in Nat
  BY <1>1, CycleOf DEF Limit, Before
<1>3. seq.running = {} /\ seq.attained \subseteq run.homed
  BY <1>1 DEF IInv, ReadInModeSix, OriginsAreNew
<1>4. s \in Runs /\ s = [seq EXCEPT !.present = s.present]
  BY <1>2 DEF Runs, Enabled, Targets
<1>5. /\ s.active /\ s.stage = "Enable" /\ s.cycle = seq.cycle /\ s.running = {} /\ s.attained = seq.attained
      /\ s.outcome = "InProgress" /\ s.failed = {}
  BY <1>1, <1>2, <1>3, <1>4 DEF Runs
<1>6. seq' = CASE s.present # {} /\ (s.present = Targets \/ Cycle >= EnableCycles) -> Enter(s, "ClearDisable")
               [] s.present = {} /\ Cycle >= EnableCycles -> Fail(s, "EnableTimeout", Actuators)
               [] OTHER -> Stay(s)
  BY DEF EnableStep
<1> HIDE DEF s
<1>7. Budget \in Nat /\ Before("ClearDisable") = EnableCycles /\ Limit("ClearDisable") \in Nat \ {0}
  BY Budgets DEF Before, Stages
<1>8. CASE s.present # {} /\ (s.present = Targets \/ Cycle >= EnableCycles)
  <2>1. seq' = Enter(s, "ClearDisable")
    BY <1>6, <1>8
  <2> QED
    BY <1>1, <1>2, <1>3, <1>4, <1>5, <1>7, <1>8, <2>1, Entered DEF Fits, Pushes, Stages
<1>9. CASE s.present = {} /\ Cycle >= EnableCycles
  <2>1. seq' = Fail(s, "EnableTimeout", Actuators)
    BY <1>6, <1>9
  <2> QED
    BY <1>2, <1>4, <1>9, <2>1, FailureFits
<1>10. CASE ~(s.present # {} /\ (s.present = Targets \/ Cycle >= EnableCycles)) /\ ~(s.present = {} /\ Cycle >= EnableCycles)
  <2>1. seq' = Stay(s) /\ Cycle < EnableCycles
    BY <1>2, <1>6, <1>10
  <2> QED
    BY <1>1, <1>2, <1>3, <1>4, <1>5, <2>1, Stayed DEF Fits, Pushes, Limit, Before
<1> QED
  BY <1>8, <1>9, <1>10

(* Operation is disabled: everyone taking part, within the budget. *)
LEMMA ClearDisableFits == ASSUME IInv, ClearDisableStep PROVE Fits(seq')
<1>1. seq.active /\ seq.stage = "ClearDisable"
  BY DEF ClearDisableStep, In
<1>2. /\ seq \in Runs /\ Cycle \in 0..Budget /\ Cycle <= ClearCycles /\ run.elapsed \in Nat
      /\ run.elapsed + 1 <= Before("ClearDisable") + Cycle /\ ClearCycles \in Nat
      /\ seq.outcome = "InProgress" /\ seq.failed = {} /\ Before("ClearDisable") \in Nat
  BY <1>1, CycleOf DEF Limit
<1>3. seq.running = {} /\ seq.attained \subseteq run.homed /\ seq.present # {}
  BY <1>1 DEF IInv, ReadInModeSix, OriginsAreNew, UnderWay
<1>4. CASE StillEnabled = {}
  <2>1. seq' = Enter(seq, "ClearReEnable")
    BY <1>4 DEF ClearDisableStep
  <2>2. Before("ClearReEnable") = Before("ClearDisable") + ClearCycles /\ Limit("ClearReEnable") \in Nat \ {0}
    BY Budgets DEF Stages, Limit
  <2> QED
    BY <1>1, <1>2, <1>3, <2>1, <2>2, Entered DEF Fits, Pushes, Stages
<1>5. CASE StillEnabled # {} /\ Cycle >= ClearCycles
  <2>1. seq' = Fail(seq, "ClearTimeout", StillEnabled)
    BY <1>5 DEF ClearDisableStep
  <2>2. StillEnabled \in SUBSET Actuators /\ StillEnabled \subseteq seq.present
    BY <1>2 DEF StillEnabled, Runs
  <2> QED
    BY <1>2, <1>5, <2>1, <2>2, FailureFits
<1>6. CASE StillEnabled # {} /\ ~(Cycle >= ClearCycles)
  <2>1. seq' = Stay(seq) /\ Cycle < ClearCycles
    BY <1>2, <1>6 DEF ClearDisableStep
  <2> QED
    BY <1>1, <1>2, <1>3, <2>1, Stayed DEF Fits, Pushes, Limit
<1> QED
  BY <1>4, <1>5, <1>6

(* Operation is enabled again; a clear bit 12 is a drive without origin. *)
LEMMA ClearReEnableFits == ASSUME IInv, ClearReEnableStep PROVE Fits(seq')
<1>1. seq.active /\ seq.stage = "ClearReEnable"
  BY DEF ClearReEnableStep, In
<1>2. /\ seq \in Runs /\ Cycle \in 0..Budget /\ Cycle <= ClearCycles /\ run.elapsed \in Nat
      /\ run.elapsed + 1 <= Before("ClearReEnable") + Cycle /\ ClearCycles \in Nat
      /\ seq.outcome = "InProgress" /\ seq.failed = {} /\ Before("ClearReEnable") \in Nat
  BY <1>1, CycleOf DEF Limit
<1>3. seq.running = {} /\ seq.attained \subseteq run.homed /\ seq.present # {} /\ frame.mode = "Homing"
  BY <1>1 DEF IInv, ReadInModeSix, OriginsAreNew, UnderWay
<1>4. PICK shown \in Shown :
        LET unclear == {a \in seq.present : a \notin Enabled \/ shown[a] = "attained"} IN
        seq' = CASE unclear = {} -> Enter(seq, "Preload")
                 [] unclear # {} /\ Cycle >= ClearCycles -> Fail(seq, "ClearTimeout", unclear)
                 [] OTHER -> Stay(seq)
  BY DEF ClearReEnableStep
<1> DEFINE unclear == {a \in seq.present : a \notin Enabled \/ shown[a] = "attained"}
<1>5. CASE unclear = {}
  <2>1. seq' = Enter(seq, "Preload")
    BY <1>4, <1>5
  <2>2. Before("Preload") = Before("ClearReEnable") + ClearCycles /\ Limit("Preload") \in Nat \ {0}
    BY Budgets DEF Stages, Limit
  <2>3. \A a \in seq.present : drive[a].origin # "attained"
    BY <1>2, <1>3, <1>5 DEF Shown, Runs
  <2> HIDE DEF unclear
  <2> QED
    BY <1>1, <1>2, <1>3, <2>1, <2>2, <2>3, Entered DEF Fits, Pushes, Stages
<1>6. CASE unclear # {} /\ Cycle >= ClearCycles
  <2>1. seq' = Fail(seq, "ClearTimeout", unclear)
    BY <1>4, <1>6
  <2>2. unclear \in SUBSET Actuators /\ unclear \subseteq seq.present
    BY <1>2 DEF Runs
  <2> HIDE DEF unclear
  <2> QED
    BY <1>2, <1>6, <2>1, <2>2, FailureFits
<1>7. CASE unclear # {} /\ ~(Cycle >= ClearCycles)
  <2>1. seq' = Stay(seq) /\ Cycle < ClearCycles
    BY <1>2, <1>4, <1>7
  <2> HIDE DEF unclear
  <2> QED
    BY <1>1, <1>2, <1>3, <2>1, Stayed DEF Fits, Pushes, Limit
<1> QED
  BY <1>5, <1>6, <1>7

(* The two stages of fixed length between the clearing and the trigger. *)
LEMMA PushFits == ASSUME IInv, PreloadStep \/ SettleStep PROVE Fits(seq')
<1>1. seq.active /\ seq.stage \in {"Preload", "Settle"}
  BY DEF PreloadStep, SettleStep, In
<1> DEFINE next == IF seq.stage = "Preload" THEN "Settle" ELSE "TriggerWait"
           limit == Limit(seq.stage)
<1>2. /\ seq \in Runs /\ Cycle \in 0..Budget /\ Cycle <= limit /\ run.elapsed \in Nat
      /\ run.elapsed + 1 <= Before(seq.stage) + Cycle /\ limit \in Nat
      /\ seq.outcome = "InProgress" /\ seq.failed = {} /\ Before(seq.stage) \in Nat
  BY <1>1, CycleOf
<1>3. /\ seq.running = {} /\ seq.attained \subseteq run.homed /\ seq.present # {}
      /\ \A a \in seq.present : drive[a].origin = "attained" => a \in run.homed
  BY <1>1 DEF IInv, ReadInModeSix, OriginsAreNew, UnderWay, Pushes
<1>4. seq' = IF Cycle >= limit THEN Enter(seq, next) ELSE Stay(seq)
  BY <1>1 DEF PreloadStep, SettleStep, In, Limit
<1>5. Before(next) = Before(seq.stage) + limit /\ Limit(next) \in Nat \ {0} /\ next \in {"Settle", "TriggerWait"}
  BY <1>1, Budgets DEF Stages
<1> HIDE DEF next
<1>6. CASE Cycle >= limit
  <2>1. next \in Stages
    BY <1>5 DEF Stages
  <2> QED
    BY <1>1, <1>2, <1>3, <1>4, <1>5, <1>6, <2>1, Entered DEF Fits, Pushes
<1>7. CASE ~(Cycle >= limit)
  BY <1>1, <1>2, <1>3, <1>4, <1>7, Stayed DEF Fits, Pushes
<1> QED
  BY <1>6, <1>7

(* An edge counted is a homing this run completed. *)
LEMMA EdgeOf ==
  ASSUME IInv, In("TriggerWait"), NEW shown \in Shown, NEW s, s = TriggerEdge(seq, shown)
  PROVE  /\ s \in Runs /\ s.active /\ s.stage = "TriggerWait" /\ s.cycle = seq.cycle /\ s.present = seq.present
         /\ s.outcome = seq.outcome /\ s.failed = seq.failed /\ s.attained \subseteq run.homed
<1> DEFINE bit12 == {a \in seq.present : shown[a] = "attained"}
<1>1. seq \in Runs /\ seq.active /\ seq.stage = "TriggerWait"
  BY CycleOf DEF In
<1>2. s = [seq EXCEPT !.running = @ \cup (seq.present \ bit12), !.attained = @ \cup (bit12 \cap seq.running)]
  BY DEF TriggerEdge
<1>3. bit12 \cap seq.running \subseteq run.homed
  <2> SUFFICES ASSUME NEW a \in bit12, a \in seq.running PROVE a \in run.homed
    OBVIOUS
  <2>1. frame.mode = "Homing"
    BY <1>1 DEF IInv, ReadInModeSix
  <2>2. shown[a] = drive[a].origin /\ shown[a] = "attained" /\ a \in seq.present
    BY <1>1, <2>1 DEF Shown, Runs
  <2> QED
    BY <1>1, <2>2 DEF IInv, OriginsAreNew, Pushes
<1>4. seq.attained \subseteq run.homed
  BY <1>1 DEF IInv, OriginsAreNew
<1>5. bit12 \subseteq seq.present
  OBVIOUS
<1> HIDE DEF bit12
<1> QED
  BY <1>1, <1>2, <1>3, <1>4, <1>5 DEF Runs

(* The trigger: an error, the edges of all, or the end of the budget. *)
LEMMA TriggerFits == ASSUME IInv, TriggerWaitStep PROVE Fits(seq')
<1>1. seq.active /\ seq.stage = "TriggerWait"
  BY DEF TriggerWaitStep, In
<1>2. /\ seq \in Runs /\ Cycle \in 0..Budget /\ Cycle <= TriggerCycles /\ run.elapsed \in Nat
      /\ run.elapsed + 1 <= Before("TriggerWait") + Cycle /\ TriggerCycles \in Nat
      /\ seq.outcome = "InProgress" /\ seq.failed = {} /\ Before("TriggerWait") \in Nat
  BY <1>1, CycleOf DEF Limit
<1>3. /\ seq.present # {}
      /\ \A a \in seq.present : drive[a].origin = "attained" => a \in run.homed
  BY <1>1 DEF IInv, OriginsAreNew, UnderWay, Pushes
<1>4. PICK shown \in Shown :
        LET s == TriggerEdge(seq, shown)
            wrong == {a \in s.present : shown[a] = "error"}
        IN seq' = CASE wrong # {} -> Fail(s, "HomingError", wrong)
                    [] wrong = {} /\ AllAttained(s) ->
                         [s EXCEPT !.cycle = Cycle, !.active = FALSE, !.outcome = "Succeeded"]
                    [] wrong = {} /\ ~AllAttained(s) /\ TriggerOver ->
                         Fail(s, "TriggerTimeout", s.present \ s.attained)
                    [] OTHER -> Stay(s)
  BY DEF TriggerWaitStep
<1> DEFINE s == TriggerEdge(seq, shown)
           wrong == {a \in s.present : shown[a] = "error"}
<1>5. /\ s \in Runs /\ s.active /\ s.stage = "TriggerWait" /\ s.cycle = seq.cycle /\ s.present = seq.present
      /\ s.outcome = "InProgress" /\ s.failed = {} /\ s.attained \subseteq run.homed
  BY <1>1, <1>2, EdgeOf DEF In
<1>6. seq' = CASE wrong # {} -> Fail(s, "HomingError", wrong)
               [] wrong = {} /\ AllAttained(s) ->
                    [s EXCEPT !.cycle = Cycle, !.active = FALSE, !.outcome = "Succeeded"]
               [] wrong = {} /\ ~AllAttained(s) /\ TriggerOver ->
                    Fail(s, "TriggerTimeout", s.present \ s.attained)
               [] OTHER -> Stay(s)
  BY <1>4
<1>7. wrong \in SUBSET Actuators /\ wrong \subseteq s.present
  BY <1>5 DEF Runs
<1> HIDE DEF s, wrong
<1>8. s.present \ s.attained \in SUBSET Actuators /\ s.attained \subseteq s.present
  BY <1>5 DEF Runs
<1>9. CASE wrong # {}
  BY <1>2, <1>5, <1>6, <1>7, <1>9, FailureFits
<1>10. CASE wrong = {} /\ AllAttained(s)
  <2>1. seq' = [s EXCEPT !.cycle = Cycle, !.active = FALSE, !.outcome = "Succeeded"] /\ s.attained = s.present
    BY <1>6, <1>10 DEF AllAttained
  <2>2. seq' \in Runs
    BY <1>2, <1>5, <2>1 DEF Runs, Outcomes
  <2>3. ~seq'.active /\ seq'.outcome = "Succeeded" /\ seq'.present = s.present /\ seq'.failed = s.failed
    BY <1>5, <2>1 DEF Runs
  <2> QED
    BY <1>3, <1>5, <2>1, <2>2, <2>3 DEF Fits
<1>11. CASE wrong = {} /\ ~AllAttained(s) /\ TriggerOver
  <2>1. seq' = Fail(s, "TriggerTimeout", s.present \ s.attained)
    BY <1>6, <1>11
  <2>2. s.present \ s.attained # {}
    BY <1>8, <1>11 DEF AllAttained
  <2> QED
    BY <1>2, <1>5, <1>8, <2>1, <2>2, FailureFits
<1>12. CASE wrong = {} /\ ~AllAttained(s) /\ ~TriggerOver
  <2>1. seq' = Stay(s) /\ Cycle < TriggerCycles
    BY <1>2, <1>6, <1>12 DEF TriggerOver
  <2> QED
    BY <1>1, <1>2, <1>3, <1>5, <2>1, Stayed DEF Fits, Pushes, Limit
<1> QED
  BY <1>9, <1>10, <1>11, <1>12

-----------------------------------------------------------------------------
(* The inductive invariant.                                                *)

(* It holds before the first run. *)
LEMMA InitIInv == Init => IInv
<1> SUFFICES ASSUME Init PROVE IInv
  OBVIOUS
<1> USE DEF Init, Unused
<1>1. TypeOK
  <2>1. Budget \in Nat /\ MaxStarts \in Nat
    BY Budgets, HomingAssumption
  <2> QED
    BY <2>1 DEF TypeOK, Stages, Outcomes, Ladders, AnyDrives, Origins
<1>2. OnTime
  BY Budgets DEF OnTime
<1>3. UnderWay /\ ReadInModeSix /\ OriginsAreNew /\ PushHolds
  BY DEF UnderWay, ReadInModeSix, OriginsAreNew, PushHolds
<1>4. SuccessIsEarned /\ CulpritsTookPart
  BY DEF SuccessIsEarned, CulpritsTookPart
<1> QED
  BY <1>1, <1>2, <1>3, <1>4 DEF IInv

(* start(), also in the middle of a run. *)
LEMMA StartStep == ASSUME IInv, Start PROVE IInv'
<1>1. PICK disabled \in SUBSET Actuators :
        seq' = [Unused EXCEPT !.active = TRUE, !.disabled = disabled, !.failedStage = seq.failedStage]
  BY DEF Start
<1>2. /\ seq \in Runs /\ drive \in AnyDrives
      /\ frame \in [mode : {"CST", "Homing"}, pushing : SUBSET Actuators, ladder : Ladders]
      /\ run \in [starts : 0..MaxStarts, elapsed : 0..Budget + 1, homed : SUBSET Actuators]
  BY TypeParts DEF IInv
<1>3. Budget \in Nat /\ Limit("Enable") \in Nat \ {0} /\ Before("Enable") = 0 /\ MaxStarts \in Nat
  BY Budgets, HomingAssumption DEF Stages, Before
<1>4. run.starts < MaxStarts /\ run' = [starts |-> run.starts + 1, elapsed |-> 0, homed |-> {}] /\ UNCHANGED frame
      /\ drive' \in AnyDrives
  BY <1>2 DEF Start
<1>5. /\ seq'.active /\ seq'.stage = "Enable" /\ seq'.cycle = 0 /\ seq'.outcome = "InProgress" /\ seq'.disabled = disabled
      /\ seq'.present = {} /\ seq'.running = {} /\ seq'.attained = {} /\ seq'.failed = {}
  BY <1>1 DEF Unused
<1>6. TypeOK'
  <2>1. (seq \in Runs /\ frame \in [mode : {"CST", "Homing"}, pushing : SUBSET Actuators, ladder : Ladders]
          /\ drive \in AnyDrives
          /\ run \in [starts : 0..MaxStarts, elapsed : 0..Budget + 1, homed : SUBSET Actuators] => TypeOK)'
    BY TypeParts, PTL
  <2>2. seq.failedStage \in Stages
    BY <1>2 DEF Runs
  <2>3. seq' \in Runs
    <3>1. seq' = [active |-> TRUE, stage |-> "Enable", cycle |-> 0, outcome |-> "InProgress",
                  disabled |-> disabled, present |-> {}, running |-> {}, attained |-> {}, failed |-> {},
                  failedStage |-> seq.failedStage]
      BY <1>1 DEF Unused
    <3>2. 0 \in 0..Budget /\ "Enable" \in Stages /\ "InProgress" \in Outcomes
      BY <1>3 DEF Stages, Outcomes
    <3> QED
      BY <2>2, <3>1, <3>2 DEF Runs
  <2>4. run' \in [starts : 0..MaxStarts, elapsed : 0..Budget + 1, homed : SUBSET Actuators]
    BY <1>2, <1>3, <1>4
  <2> QED
    BY <1>2, <1>4, <2>1, <2>3, <2>4
<1>7. OnTime' /\ UnderWay'
  BY <1>3, <1>4, <1>5 DEF OnTime, UnderWay
<1>8. ReadInModeSix' /\ OriginsAreNew' /\ PushHolds'
  BY <1>4, <1>5 DEF ReadInModeSix, OriginsAreNew, PushHolds, Pushes
<1>9. SuccessIsEarned' /\ CulpritsTookPart'
  BY <1>5 DEF SuccessIsEarned, CulpritsTookPart
<1> QED
  BY <1>6, <1>7, <1>8, <1>9 DEF IInv

(* cancel(). *)
LEMMA CancelStep == ASSUME IInv, Cancel PROVE IInv'
<1>1. /\ seq \in Runs /\ drive \in AnyDrives
      /\ frame \in [mode : {"CST", "Homing"}, pushing : SUBSET Actuators, ladder : Ladders]
      /\ run \in [starts : 0..MaxStarts, elapsed : 0..Budget + 1, homed : SUBSET Actuators]
  BY TypeParts DEF IInv
<1>2. seq' = [seq EXCEPT !.active = FALSE] /\ run' = run /\ seq.active
  BY DEF Cancel
<1>3. drive' \in AnyDrives /\ frame' = [mode |-> "CST", pushing |-> {}, ladder |-> "QuickStop"]
  BY DEF Cancel, Sends
<1>4. seq' \in Runs /\ ~seq'.active /\ seq'.outcome = seq.outcome /\ seq'.present = seq.present /\ seq'.failed = seq.failed
  BY <1>1, <1>2 DEF Runs
<1>5. TypeOK'
  <2>1. (seq \in Runs /\ frame \in [mode : {"CST", "Homing"}, pushing : SUBSET Actuators, ladder : Ladders]
          /\ drive \in AnyDrives
          /\ run \in [starts : 0..MaxStarts, elapsed : 0..Budget + 1, homed : SUBSET Actuators] => TypeOK)'
    BY TypeParts, PTL
  <2>2. frame' \in [mode : {"CST", "Homing"}, pushing : SUBSET Actuators, ladder : Ladders]
    BY <1>3 DEF Ladders
  <2> QED
    BY <1>1, <1>2, <1>3, <1>4, <2>1, <2>2
<1>6. OnTime' /\ UnderWay' /\ ReadInModeSix' /\ OriginsAreNew' /\ PushHolds'
  BY <1>2, <1>4 DEF IInv, OnTime, UnderWay, ReadInModeSix, OriginsAreNew, PushHolds
<1>7. SuccessIsEarned' /\ CulpritsTookPart'
  BY <1>2, <1>4 DEF IInv, SuccessIsEarned, CulpritsTookPart
<1> QED
  BY <1>5, <1>6, <1>7 DEF IInv

(* Nothing moves. *)
LEMMA StutterStep == ASSUME IInv, UNCHANGED vars PROVE IInv'
  BY DEF IInv, vars, TypeOK, OnTime, UnderWay, ReadInModeSix, OriginsAreNew, PushHolds, SuccessIsEarned, CulpritsTookPart

(* Every stage of step() keeps it. *)
LEMMA StepStep == ASSUME IInv, Step PROVE IInv'
<1>1. Fits(seq')
  BY EnableFits, ClearDisableFits, ClearReEnableFits, PushFits, TriggerFits DEF Step
<1>2. PICK s : s = seq'
  OBVIOUS
<1>3. Fits(s)
  BY <1>1, <1>2
<1> QED
  BY <1>2, <1>3, FitsKeeps

(* Every step keeps it. *)
LEMMA NextIInv == IInv /\ [Next]_vars => IInv'
  BY StartStep, CancelStep, StepStep, StutterStep DEF Next

(* It holds in every state of the sequence. *)
LEMMA Invariance == Spec => []IInv
  BY InitIInv, NextIInv, PTL DEF Spec

-----------------------------------------------------------------------------
(* Theorems.                                                               *)

(* Every variable keeps its type. *)
THEOREM HomingTypeCorrect == Spec => []TypeOK
<1>1. IInv => TypeOK
  BY DEF IInv
<1> QED
  BY Invariance, <1>1, PTL

(* A success is a homing every actuator taking part completed in this run. *)
THEOREM SuccessEarned == Spec => []SuccessIsEarned
<1>1. IInv => SuccessIsEarned
  BY DEF IInv
<1> QED
  BY Invariance, <1>1, PTL

(* A run ends within the sum of the budgets of its stages. *)
THEOREM WithinBudget == Spec => []EndsWithinBudget
<1>1. IInv => EndsWithinBudget
  <2> SUFFICES ASSUME IInv, seq.active PROVE run.elapsed < Budget
    BY DEF IInv, OnTime, EndsWithinBudget
  <2>1. seq.stage \in Stages /\ seq \in Runs
    BY TypeParts DEF IInv, Runs
  <2>2. Before(seq.stage) + Limit(seq.stage) <= Budget /\ Budget \in Nat
    BY <2>1, Budgets
  <2>3. seq.cycle < Limit(seq.stage) /\ run.elapsed <= Before(seq.stage) + seq.cycle
    BY DEF IInv, OnTime
  <2> QED
    BY <2>2, <2>3, CycleOf
<1> QED
  BY Invariance, <1>1, PTL

(* A failure blames somebody who took part, and only those. *)
THEOREM BlameIsFair == Spec => []CulpritsTookPart
<1>1. IInv => CulpritsTookPart
  BY DEF IInv
<1> QED
  BY Invariance, <1>1, PTL

(* A push that has begun goes on, on the same actuators and powered, to    *)
(* the end of the run.                                                     *)
THEOREM PushDoesNotSlip == Spec => NoSlipAfterPush
<1>1. ASSUME IInv, [Next]_vars
      PROVE  [Step /\ frame.pushing # {} /\ run.elapsed > 0
                => frame'.pushing = frame.pushing /\ frame'.ladder \in {"Enable", "Homing"}]_vars
  <2> SUFFICES ASSUME Step, frame.pushing # {}, run.elapsed > 0
               PROVE  frame'.pushing = frame.pushing /\ frame'.ladder \in {"Enable", "Homing"}
    OBVIOUS
  <2>1. TypeOK /\ PushHolds
    BY <1>1 DEF IInv
  <2>2. seq.active
    BY <2>1, StepSends
  <2>3. seq.stage \in Pushes /\ frame.pushing = seq.present
    BY <2>1, <2>2 DEF PushHolds
  <2> QED
    BY <2>1, <2>3, StepSends
<1> QED
  BY Invariance, <1>1, PTL DEF Spec, NoSlipAfterPush
=============================================================================
