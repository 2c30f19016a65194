--------------------------- MODULE HandLinkProofs ---------------------------
(***************************************************************************)
(* What the loop concludes from the traffic of one hand is true of that    *)
(* traffic, and no control word powers a disabled actuator: for any set of *)
(* actuators, any of them disabled, any silence limit and any length of    *)
(* the receive queue.                                                      *)
(***************************************************************************)
EXTENDS HandLink, WellFoundedInduction, TLAPS

(* The session counts the silence as it really is, and has a first frame   *)
(* exactly when one was decoded on this socket.                            *)
CountsTruly == comms.silent = ghost.gap /\ comms.any = ghost.heard

(* Before the first frame nothing is known of any drive. *)
UnheardIsUnknown ==
  ~ghost.heard => comms.seenHigh = {} /\ \A a \in Actuators : comms.status[a] = "zero"

(* The loop knows from the cycle before whether the link was lost, and has  *)
(* then faulted, unless that fault was overwritten.                         *)
LossIsKnown ==
  /\ ~loop.previous <=> ghost.heard /\ ghost.gap > LossCycles
  /\ loop.pc = "top" /\ ~loop.previous => loop.observed = "Faulted" \/ ghost.overwritten
  /\ loop.pc = "write" /\ ~loop.previous => loop.own = "Faulted" \/ ghost.overwritten
  /\ loop.pc = "write" /\ loop.own = "Faulted" => loop.observed = "Faulted" \/ ghost.overwritten

IInv ==
  /\ TypeOK
  /\ CountsTruly
  /\ UnheardIsUnknown
  /\ LossIsKnown
  /\ TransmitFaultIsReal
  /\ DisabledNeverPowered

-----------------------------------------------------------------------------
(* The operators.                                                          *)

(* A set of positions of a sequence has a last one: Max of FiniteSetsExt.  *)
LEMMA MaxIsGreatest ==
  ASSUME NEW n \in Nat, NEW S \in SUBSET (1 .. n), S # {}
  PROVE  Max(S) \in S /\ \A y \in S : y <= Max(S)
<1> DEFINE T == {n - x : x \in S}
           R == OpToRel(<, Nat)
<1>1. T \subseteq Nat /\ T # {}
  <2>1. \A x \in S : n - x \in Nat
    OBVIOUS
  <2> QED
    BY <2>1
<1>2. \E z \in T : \A y \in T : ~ (<<y, z>> \in R)
  BY <1>1, NatLessThanWellFounded, WFMin
<1>3. \A y, z \in Nat : y < z => <<y, z>> \in R
  BY DEF OpToRel
<1> HIDE DEF R
<1>4. PICK z \in T : \A y \in T : z <= y
  <2> HIDE DEF T
  <2>1. PICK z \in T : \A y \in T : ~ (<<y, z>> \in R)
    BY <1>2
  <2>2. \A y \in T : z <= y
    <3> SUFFICES ASSUME NEW y \in T PROVE z <= y
      OBVIOUS
    <3>1. ~ (<<y, z>> \in R) /\ y \in Nat /\ z \in Nat
      BY <1>1, <2>1
    <3>2. ~ (y < z)
      BY <1>3, <3>1, Zenon
    <3> QED
      BY <3>1, <3>2
  <2> QED
    BY <2>2
<1>5. PICK x \in S : z = n - x
  BY <1>4
<1>6. \A y \in S : x >= y
  <2> SUFFICES ASSUME NEW y \in S PROVE x >= y
    OBVIOUS
  <2>1. z <= n - y
    BY <1>4
  <2> QED
    BY <2>1, <1>5
<1> QED
  BY <1>6 DEF Max

(* The hand was heard in a queue of frames. *)
HeardIn(frames) == \E i \in DOMAIN frames : frames[i].kind = "state"

(* A read: the drives' states are those of a frame of the queue or the old *)
(* ones, and only a state frame ends the silence.                          *)
LEMMA DrainOf ==
  ASSUME NEW c \in Sessions,
         NEW frames \in Seq(Frames),
         NEW d, d = Drain(c, frames)
  PROVE  /\ d \in Sessions
         /\ d.any = (c.any \/ HeardIn(frames))
         /\ d.silent = IF HeardIn(frames) THEN 0 ELSE IF c.silent > LossCycles THEN c.silent ELSE c.silent + 1
         /\ ~HeardIn(frames) => d.status = c.status
         /\ d.seenHigh = c.seenHigh \cup {a \in Actuators : d.status[a] \in HighBit5}
<1> DEFINE decoded == {i \in DOMAIN frames : Received(frames[i]) = "Decoded"}
           after == IF decoded = {} THEN c ELSE Decode(c, frames[Max(decoded)])
<1>1. \A i \in DOMAIN frames : Received(frames[i]) = "Decoded" <=> frames[i].kind = "state"
  <2> SUFFICES ASSUME NEW i \in DOMAIN frames
               PROVE  Received(frames[i]) = "Decoded" <=> frames[i].kind = "state"
    OBVIOUS
  <2>1. frames[i] \in Frames
    OBVIOUS
  <2> QED
    BY <2>1, HandLinkAssumption DEF Frames, Received
<1>2. HeardIn(frames) <=> decoded # {}
  BY <1>1 DEF HeardIn
<1>3. decoded # {} => frames[Max(decoded)] \in [kind : {"state"}, states : [Actuators -> States], errors : SUBSET (Actuators \ Disabled)]
  <2> SUFFICES ASSUME decoded # {} PROVE frames[Max(decoded)] \in [kind : {"state"}, states : [Actuators -> States], errors : SUBSET (Actuators \ Disabled)]
    OBVIOUS
  <2>1. DOMAIN frames = 1 .. Len(frames) /\ Len(frames) \in Nat
    OBVIOUS
  <2>2. Max(decoded) \in decoded
    BY <2>1, MaxIsGreatest
  <2> HIDE DEF decoded
  <2>3. Max(decoded) \in DOMAIN frames /\ frames[Max(decoded)].kind = "state"
    BY <1>1, <2>2 DEF decoded
  <2>4. frames[Max(decoded)] \in Frames
    BY <2>3
  <2> QED
    BY <2>3, <2>4, HandLinkAssumption DEF Frames
<1>4. after = [c EXCEPT !.status = IF decoded = {} THEN c.status ELSE frames[Max(decoded)].states,
                       !.errors = IF decoded = {} THEN c.errors ELSE frames[Max(decoded)].errors]
  BY <1>3 DEF Decode, Sessions
<1>5. d = [after EXCEPT
             !.any = @ \/ decoded # {},
             !.silent = IF decoded # {} THEN 0 ELSE IF @ > LossCycles THEN @ ELSE @ + 1,
             !.seenHigh = @ \cup {a \in Actuators : after.status[a] \in HighBit5}]
  BY DEF Drain
<1> HIDE DEF decoded
<1>6. after \in Sessions /\ after = [c EXCEPT !.status = after.status, !.errors = after.errors] /\ (decoded = {} => after = c)
  <2>1. PICK status \in [Actuators -> States \cup {"zero"}], errors \in SUBSET (Actuators \ Disabled) :
          after = [c EXCEPT !.status = status, !.errors = errors] /\ (decoded = {} => status = c.status /\ errors = c.errors)
    <3>1. c.status \in [Actuators -> States \cup {"zero"}] /\ c.errors \in SUBSET (Actuators \ Disabled)
      BY DEF Sessions
    <3>2. decoded # {} => /\ frames[Max(decoded)].states \in [Actuators -> States \cup {"zero"}]
                          /\ frames[Max(decoded)].errors \in SUBSET (Actuators \ Disabled)
      BY <1>3
    <3> QED
      BY <1>4, <3>1, <3>2
  <2>2. decoded = {} => after = c
    OBVIOUS
  <2> HIDE DEF after
  <2>3. after \in Sessions /\ after.status = status /\ after.errors = errors
    BY <2>1 DEF Sessions
  <2> QED
    BY <2>1, <2>2, <2>3
<1> HIDE DEF after
<1>7. /\ after.any = c.any /\ after.silent = c.silent /\ after.seenHigh = c.seenHigh
      /\ c.any \in BOOLEAN /\ c.silent \in 0..LossCycles + 1
  BY <1>6 DEF Sessions
<1>8. /\ d.status = after.status
      /\ d.any = (c.any \/ decoded # {})
      /\ d.silent = IF decoded # {} THEN 0 ELSE IF c.silent > LossCycles THEN c.silent ELSE c.silent + 1
      /\ d.seenHigh = c.seenHigh \cup {a \in Actuators : d.status[a] \in HighBit5}
  BY <1>5, <1>6, <1>7 DEF Sessions
<1>9. d \in Sessions
  <2>1. d.silent \in 0..LossCycles + 1
    BY <1>7, <1>8, HandLinkAssumption
  <2>2. d.seenHigh \in SUBSET Actuators /\ d.any \in BOOLEAN
    BY <1>7, <1>8 DEF Sessions
  <2> QED
    BY <1>5, <1>6, <2>1, <2>2 DEF Sessions
<1> QED
  BY <1>2, <1>6, <1>8, <1>9

(* The word a mode gives is a control word; at Shutdown it is Shutdown. *)
LEMMA ComputedWord ==
  ASSUME NEW mode \in {"Enable", "SwitchOn", "Homing", "QuickStop", "Shutdown"},
         NEW status \in States \cup {"zero"}, NEW last \in Words
  PROVE  /\ ComputeControlWord(mode, status, last) \in Words
         /\ mode = "Shutdown" => ComputeControlWord(mode, status, last) = "Shutdown"
  BY DEF ComputeControlWord, States, Words

(* A drive stays a drive, and Shutdown takes its power. *)
LEMMA Reacts ==
  ASSUME NEW d \in Drives, NEW word \in Words
  PROVE  /\ React(d, word) \in Drives
         /\ word = "Shutdown" => React(d, word).state \notin {"on", "enabled"}
  BY DEF React, States, Words, Drives

(* A burst whose last failure is no full queue has a send that failed for  *)
(* good.                                                                   *)
LEMMA BurstOf ==
  ASSUME NEW burst \in Bursts
  PROVE  /\ burst.arrives \in BOOLEAN /\ burst.errno \in Errnos \cup {"none"} /\ burst.lost \in BOOLEAN
         /\ burst.errno \in {"0", "ENETDOWN"} => burst.lost
<1>1. PICK sends \in Sends :
        burst = [arrives |-> sends[5] = "sent", errno |-> LastErrno(sends),
                 lost |-> \E i \in 1..5 : sends[i] \in {"short", "ENETDOWN"}]
  BY DEF Bursts
<1>2. sends \in [1..5 -> Results]
  BY DEF Sends
<1> DEFINE failed == {i \in 1..5 : sends[i] # "sent"}
<1>3. failed # {} => Max(failed) \in 1..5 /\ sends[Max(failed)] # "sent"
  BY MaxIsGreatest
<1>4. LastErrno(sends) = IF failed = {} THEN "none" ELSE Errno(sends[Max(failed)])
  BY DEF LastErrno
<1> HIDE DEF failed
<1>5. /\ LastErrno(sends) \in Errnos \cup {"none"}
      /\ LastErrno(sends) \in {"0", "ENETDOWN"} => \E i \in 1..5 : sends[i] \in {"short", "ENETDOWN"}
  BY <1>2, <1>3, <1>4 DEF Results, Errnos, Errno
<1> QED
  BY <1>1, <1>5

(* The errno the loop judges is of a send that failed for good only if one *)
(* of this burst did.                                                      *)
LEMMA JudgedOf ==
  ASSUME TypeOK, NEW burst \in Bursts
  PROVE  TransmitErrno(burst) \in Errnos /\ Judge(burst) \in BOOLEAN /\ (Judge(burst) => burst.lost)
  BY BurstOf DEF TypeOK, Sessions, TransmitErrno, Judge, Transient, Errnos

-----------------------------------------------------------------------------
(* The inductive invariant.                                                *)

(* It holds when the first socket opens. *)
LEMMA InitIInv == Init => IInv
<1> SUFFICES ASSUME Init PROVE IInv
  OBVIOUS
<1> USE HandLinkAssumption DEF Init, FreshComms, NewLoop, NoGhost
<1>1. TypeOK
  BY DEF TypeOK, Sessions, Loops, Lifecycles, Drives, States, Words, Errnos
<1>2. CountsTruly /\ UnheardIsUnknown /\ LossIsKnown /\ TransmitFaultIsReal /\ DisabledNeverPowered
  BY DEF CountsTruly, UnheardIsUnknown, LossIsKnown, TransmitFaultIsReal, DisabledNeverPowered
<1> QED
  BY <1>1, <1>2 DEF IInv

(* read() and watch_link(). *)
LEMMA ReadStep == ASSUME IInv, Read PROVE IInv'
<1> DEFINE heard == HeardIn(queue)
           receiving == comms'.any /\ comms'.silent <= LossCycles
           lost == comms'.any /\ loop.previous /\ ~receiving
<1>0. TypeOK
  BY DEF IInv
<1>1. /\ comms' \in Sessions
      /\ comms'.any = (comms.any \/ heard)
      /\ comms'.silent = IF heard THEN 0 ELSE IF comms.silent > LossCycles THEN comms.silent ELSE comms.silent + 1
      /\ ~heard => comms'.status = comms.status
      /\ comms'.seenHigh = comms.seenHigh \cup {a \in Actuators : comms'.status[a] \in HighBit5}
  BY <1>0, DrainOf DEF TypeOK, Read
<1>2. /\ loop.pc = "top" /\ loop.observed # "Faulted" /\ queue' = <<>> /\ UNCHANGED <<user, drive, trips>>
      /\ loop' = [loop EXCEPT !.pc = "write", !.receiving = receiving,
                    !.previous = IF comms'.any THEN receiving ELSE @,
                    !.asked = loop.requested,
                    !.own = IF lost THEN "Faulted" ELSE loop.observed,
                    !.observed = IF lost THEN "Faulted" ELSE @]
      /\ ghost' = [ghost EXCEPT !.heard = @ \/ heard,
                     !.gap = IF heard THEN 0 ELSE IF @ > LossCycles THEN @ ELSE @ + 1,
                     !.overwritten = @ /\ ~heard]
  BY DEF Read, HeardIn
<1>h. heard \in BOOLEAN /\ receiving \in BOOLEAN /\ lost \in BOOLEAN
  BY DEF HeardIn
<1>r. receiving <=> comms'.any /\ comms'.silent <= LossCycles
  OBVIOUS
<1>l. lost <=> comms'.any /\ loop.previous /\ ~receiving
  OBVIOUS
<1> HIDE DEF heard, receiving, lost
<1> USE HandLinkAssumption
<1>3. TypeOK'
  <2>1. queue' \in Seq(Frames) /\ Len(queue') <= MaxQueue
    BY <1>2
  <2>2. loop' \in Loops
    BY <1>0, <1>2, <1>h DEF TypeOK, Loops, Lifecycles
  <2>3. ghost' \in [heard : BOOLEAN, gap : 0..LossCycles + 1, unfounded : BOOLEAN, overwritten : BOOLEAN]
    <3>1. ghost \in [heard : BOOLEAN, gap : 0..LossCycles + 1, unfounded : BOOLEAN, overwritten : BOOLEAN]
      BY <1>0 DEF TypeOK
    <3>2. ghost.gap \in 0..LossCycles + 1 /\ LossCycles \in Nat
      BY <3>1
    <3>3. (IF heard THEN 0 ELSE IF ghost.gap > LossCycles THEN ghost.gap ELSE ghost.gap + 1) \in 0..LossCycles + 1
      BY <1>h, <3>2
    <3> QED
      BY <1>2, <1>h, <3>1, <3>3
  <2> QED
    BY <1>0, <1>1, <1>2, <2>1, <2>2, <2>3 DEF TypeOK
<1>4. CountsTruly'
  BY <1>0, <1>1, <1>2 DEF IInv, CountsTruly, TypeOK
<1>5. UnheardIsUnknown'
  BY <1>0, <1>1, <1>2 DEF IInv, UnheardIsUnknown, TypeOK, HighBit5
<1>6. LossIsKnown'
  <2>1. /\ loop'.pc = "write" /\ loop'.previous = IF comms'.any THEN receiving ELSE loop.previous
        /\ loop'.own = IF lost THEN "Faulted" ELSE loop.observed
        /\ loop'.observed = IF lost THEN "Faulted" ELSE loop.observed
    BY <1>0, <1>2 DEF TypeOK, Loops
  <2>2. /\ ghost'.heard = (ghost.heard \/ heard) /\ ghost'.overwritten = (ghost.overwritten /\ ~heard)
        /\ ghost'.gap = comms'.silent /\ ghost'.heard = comms'.any /\ comms'.silent \in Nat
    BY <1>0, <1>1, <1>2, <1>4 DEF TypeOK, CountsTruly, Sessions
  <2>3. ~loop.previous <=> ghost.heard /\ ghost.gap > LossCycles
    BY DEF IInv, LossIsKnown
  <2>4. ~loop.previous => loop.observed = "Faulted" \/ ghost.overwritten
    BY <1>2 DEF IInv, LossIsKnown
  <2>5. loop.previous \in BOOLEAN /\ ghost.heard \in BOOLEAN /\ ghost.overwritten \in BOOLEAN
    BY <1>0 DEF TypeOK, Loops
  <2>6. ~loop'.previous <=> ghost'.heard /\ ghost'.gap > LossCycles
    <3>1. CASE comms'.any
      <4>1. receiving <=> ~(comms'.silent > LossCycles)
        BY <2>2, <1>r, <3>1
      <4>2. loop'.previous = receiving /\ ghost'.heard
        BY <2>1, <2>2, <3>1
      <4> QED
        BY <2>2, <4>1, <4>2
    <3>2. CASE ~comms'.any
      BY <2>1, <2>2, <2>3, <2>5, <1>h, <3>2
    <3> QED
      BY <3>1, <3>2
  <2>7. ~loop'.previous /\ ~lost => ghost'.overwritten
    <3> SUFFICES ASSUME ~loop'.previous, ~lost PROVE ghost'.overwritten
      OBVIOUS
    <3>1. comms'.any /\ ~receiving /\ ~loop.previous
      BY <2>1, <2>2, <2>6, <2>5, <1>l, <1>h
    <3>2. ~heard
      BY <1>1, <1>r, <3>1
    <3> QED
      BY <2>2, <2>4, <1>2, <3>1, <3>2
  <2> QED
    BY <1>2, <1>h, <2>1, <2>6, <2>7 DEF LossIsKnown
<1>7. TransmitFaultIsReal' /\ DisabledNeverPowered'
  BY <1>0, <1>2 DEF IInv, TransmitFaultIsReal, DisabledNeverPowered, TypeOK
<1> QED
  BY <1>3, <1>4, <1>5, <1>6, <1>7 DEF IInv

(* The end of a cycle keeps what is known of the link, and leaves a fault  *)
(* a fault.                                                                *)
LEMMA EndsCycle ==
  ASSUME NEW l \in Loops,
         NEW c \in Sessions
  PROVE  /\ EndOfCycle(l, c) \in Loops
         /\ EndOfCycle(l, c).pc = "top" /\ EndOfCycle(l, c).previous = l.previous
         /\ l.observed = "Faulted" => EndOfCycle(l, c).observed = "Faulted"
<1> DEFINE v == Verdict(l, c)
<1>1. v \in {"Disconnected", "Connected", "Running", "Stopped", "Faulted"} /\ (l.observed = "Faulted" => v = "Faulted")
  BY DEF Verdict, Loops, Lifecycles
<1>2. EndOfCycle(l, c) = [l EXCEPT !.pc = "top", !.asked = "Connected", !.own = "Disconnected", !.receiving = FALSE,
                                   !.observed = v]
  BY DEF EndOfCycle, BetweenCycles, Loops
<1> QED
  <2> HIDE DEF v
  <2> QED
    BY <1>1, <1>2 DEF Loops, Lifecycles

(* write(): five sends and the control words of all actuators. *)
LEMMA WriteStep == ASSUME IInv, Write PROVE IInv'
<1>0. TypeOK
  BY DEF IInv
<1>1. PICK burst \in Bursts, mode \in Modes(QuickStop), over \in {QuickStop, comms.homing} : Burst(burst, mode, over)
  BY DEF Write, Transmit
<1> DEFINE word == [a \in Actuators |-> WordOf(a, mode)]
           before == [loop EXCEPT !.observed = IF Judge(burst) THEN "Faulted" ELSE @]
<1>2. mode \in {"Enable", "SwitchOn", "Homing", "QuickStop"}
  BY <1>0, <1>1 DEF Modes, TypeOK, QuickStop
<1>3. word \in [Actuators -> Words] /\ \A a \in Disabled : word[a] = "Shutdown"
  <2> SUFFICES ASSUME NEW a \in Actuators
               PROVE  word[a] \in Words /\ (a \in Disabled => word[a] = "Shutdown")
    BY HandLinkAssumption
  <2>1. comms.status[a] \in States \cup {"zero"} /\ comms.word[a] \in Words
    BY <1>0 DEF TypeOK, Sessions
  <2>2. /\ ActuatorMode(a, mode) \in {"Enable", "SwitchOn", "Homing", "QuickStop", "Shutdown"}
        /\ a \in Disabled => ActuatorMode(a, mode) = "Shutdown"
    BY <1>2 DEF ActuatorMode
  <2> QED
    BY <2>1, <2>2, ComputedWord DEF WordOf
<1>4. TransmitErrno(burst) \in Errnos /\ Judge(burst) \in BOOLEAN /\ (Judge(burst) => burst.lost) /\ burst.lost \in BOOLEAN
  BY <1>0, <1>1, JudgedOf, BurstOf
<1>5. over \in BOOLEAN
  BY <1>0, <1>1 DEF QuickStop, TypeOK, Sessions
<1>6. /\ loop.pc = "write" /\ UNCHANGED <<queue, user, trips>>
      /\ comms' = [comms EXCEPT !.word = word, !.errno = TransmitErrno(burst), !.homing = @ /\ ~over]
      /\ drive' = IF burst.arrives THEN [a \in Actuators |-> React(drive[a], word[a])] ELSE drive
      /\ loop' = EndOfCycle(before, comms')
      /\ ghost' = [ghost EXCEPT !.unfounded = @ \/ (Judge(burst) /\ ~burst.lost)]
  BY <1>1 DEF Write, Transmit, Burst
<1> HIDE DEF word, before
<1>7. before \in Loops
  BY <1>0, <1>4 DEF TypeOK, Loops, Lifecycles, before
<1>7a. comms' \in Sessions
  BY <1>0, <1>3, <1>4, <1>5, <1>6 DEF TypeOK, Sessions
<1>8. /\ loop' \in Loops
      /\ loop'.pc = "top" /\ loop'.previous = loop.previous
      /\ before.observed = "Faulted" => loop'.observed = "Faulted"
  BY <1>0, <1>6, <1>7, <1>7a, EndsCycle DEF before, TypeOK, Loops
<1>9. /\ drive' \in [Actuators -> Drives]
      /\ DisabledNeverPowered'
  <2>1. CASE burst.arrives
    BY <1>0, <1>3, <1>6, <2>1, Reacts, HandLinkAssumption DEF TypeOK, DisabledNeverPowered
  <2>2. CASE ~burst.arrives
    BY <1>0, <1>6, <2>2 DEF IInv, TypeOK, DisabledNeverPowered
  <2> QED
    BY <2>1, <2>2
<1>10. TypeOK'
  <2>1. ghost' \in [heard : BOOLEAN, gap : 0..LossCycles + 1, unfounded : BOOLEAN, overwritten : BOOLEAN]
    BY <1>0, <1>4, <1>6 DEF TypeOK
  <2> QED
    BY <1>0, <1>6, <1>7a, <1>8, <1>9, <2>1 DEF TypeOK
<1>11. CountsTruly' /\ UnheardIsUnknown'
  BY <1>0, <1>6 DEF IInv, CountsTruly, UnheardIsUnknown, TypeOK
<1>12. LossIsKnown'
  <2>1. loop.observed = "Faulted" => loop'.observed = "Faulted"
    BY <1>0, <1>4, <1>8 DEF before, TypeOK, Loops
  <2>2. ghost'.heard = ghost.heard /\ ghost'.gap = ghost.gap /\ ghost'.overwritten = ghost.overwritten
    BY <1>0, <1>6 DEF TypeOK
  <2> QED
    BY <1>6, <1>8, <2>1, <2>2 DEF IInv, LossIsKnown
<1>13. TransmitFaultIsReal'
  BY <1>0, <1>4, <1>6 DEF IInv, TransmitFaultIsReal, TypeOK
<1> QED
  BY <1>9, <1>10, <1>11, <1>12, <1>13 DEF IInv

(* A cycle outside a control session sends nothing. *)
LEMMA WriteNothingStep == ASSUME IInv, WriteNothing PROVE IInv'
<1>0. TypeOK
  BY DEF IInv
<1>1. loop.pc = "write" /\ loop' = EndOfCycle(loop, comms) /\ UNCHANGED <<comms, queue, user, drive, trips, ghost>>
  BY DEF WriteNothing
<1>2. /\ loop' \in Loops
      /\ loop'.pc = "top" /\ loop'.previous = loop.previous
      /\ loop.observed = "Faulted" => loop'.observed = "Faulted"
  BY <1>0, <1>1, EndsCycle DEF TypeOK
<1>3. TypeOK'
  BY <1>0, <1>1, <1>2 DEF TypeOK
<1>4. CountsTruly' /\ UnheardIsUnknown' /\ TransmitFaultIsReal' /\ DisabledNeverPowered'
  BY <1>1, <1>2 DEF IInv, CountsTruly, UnheardIsUnknown, TransmitFaultIsReal, DisabledNeverPowered
<1>5. LossIsKnown'
  BY <1>1, <1>2 DEF IInv, LossIsKnown
<1> QED
  BY <1>3, <1>4, <1>5 DEF IInv

(* The loop ends of a fault. *)
LEMMA EndStep == ASSUME IInv, LoopEnds PROVE IInv'
<1>1. TypeOK'
  BY DEF IInv, LoopEnds, TypeOK, Loops
<1>2. CountsTruly' /\ UnheardIsUnknown' /\ LossIsKnown' /\ TransmitFaultIsReal' /\ DisabledNeverPowered'
  BY DEF IInv, LoopEnds, TypeOK, Loops, CountsTruly, UnheardIsUnknown, LossIsKnown, TransmitFaultIsReal,
         DisabledNeverPowered
<1> QED
  BY <1>1, <1>2 DEF IInv

(* A new connection forgets the last session; the drives keep theirs. *)
LEMMA ReopenStep == ASSUME IInv, Reopen PROVE IInv'
<1> USE HandLinkAssumption DEF Reopen, FreshComms, NewLoop, NoGhost
<1>1. TypeOK'
  BY DEF IInv, TypeOK, Sessions, Loops, Lifecycles, Words, Errnos
<1>2. CountsTruly' /\ UnheardIsUnknown' /\ LossIsKnown' /\ TransmitFaultIsReal'
  BY DEF CountsTruly, UnheardIsUnknown, LossIsKnown, TransmitFaultIsReal
<1>3. DisabledNeverPowered'
  BY DEF IInv, DisabledNeverPowered
<1> QED
  BY <1>1, <1>2, <1>3 DEF IInv

(* The user asks for something, waits for it and confirms it. *)
LEMMA UserStep == ASSUME IInv, Request \/ WaitEnds \/ Confirm \/ RunFails \/ StartHoming PROVE IInv'
<1> USE DEF Request, WaitEnds, Confirm, RunFails, StartHoming
<1>1. TypeOK'
  <2>1. CASE Request \/ WaitEnds \/ RunFails
    BY <2>1 DEF IInv, TypeOK, Loops
  <2>2. CASE Confirm
    <3>1. loop' \in Loops
      BY <2>2 DEF IInv, TypeOK, Loops, Lifecycles
    <3>2. ghost' \in [heard : BOOLEAN, gap : 0..LossCycles + 1, unfounded : BOOLEAN, overwritten : BOOLEAN]
      <4>1. ghost \in [heard : BOOLEAN, gap : 0..LossCycles + 1, unfounded : BOOLEAN, overwritten : BOOLEAN]
        BY DEF IInv, TypeOK
      <4> QED
        BY <2>2, <4>1
    <3> QED
      BY <2>2, <3>1, <3>2 DEF IInv, TypeOK
  <2>3. CASE StartHoming
    <3>1. comms' \in Sessions
      BY <2>3 DEF IInv, TypeOK, Sessions
    <3> QED
      BY <2>3, <3>1 DEF IInv, TypeOK
  <2> QED
    BY <2>1, <2>2, <2>3
<1>2. CountsTruly' /\ UnheardIsUnknown' /\ TransmitFaultIsReal' /\ DisabledNeverPowered'
  BY DEF IInv, TypeOK, Sessions, CountsTruly, UnheardIsUnknown, TransmitFaultIsReal, DisabledNeverPowered
<1>3. LossIsKnown'
  <2>1. CASE Confirm
    BY <2>1 DEF IInv, TypeOK, Loops, LossIsKnown
  <2>2. CASE Request \/ WaitEnds \/ RunFails \/ StartHoming
    BY <2>2 DEF IInv, TypeOK, Loops, LossIsKnown
  <2> QED
    BY <2>1, <2>2
<1> QED
  BY <1>1, <1>2, <1>3 DEF IInv

(* A frame arrives. *)
LEMMA ArriveStep == ASSUME IInv, DrivesReport \/ StrangeFrame PROVE IInv'
<1>1. PICK f \in Frames : Arrive(f)
  <2>1. CASE DrivesReport
    <3>1. [kind |-> "state", states |-> [a \in Actuators |-> drive[a].state],
           errors |-> {a \in Actuators \ Disabled : drive[a].state = "fault"}] \in Frames
      BY DEF IInv, TypeOK, Drives, Frames
    <3> QED
      BY <2>1, <3>1 DEF DrivesReport
  <2>2. CASE StrangeFrame
    BY <2>2 DEF StrangeFrame, Frames
  <2> QED
    BY <2>1, <2>2
<1>2. UNCHANGED <<comms, loop, user, drive, trips, ghost>>
  BY DEF DrivesReport, StrangeFrame
<1>3. queue' \in Seq(Frames) /\ Len(queue') <= MaxQueue
  BY <1>1, HandLinkAssumption DEF IInv, TypeOK, Arrive
<1>4. TypeOK'
  BY <1>2, <1>3 DEF IInv, TypeOK
<1>5. CountsTruly' /\ UnheardIsUnknown' /\ LossIsKnown' /\ TransmitFaultIsReal' /\ DisabledNeverPowered'
  BY <1>2 DEF IInv, CountsTruly, UnheardIsUnknown, LossIsKnown, TransmitFaultIsReal,
         DisabledNeverPowered
<1> QED
  BY <1>4, <1>5 DEF IInv

(* A drive trips, or the cause of a trip goes. *)
LEMMA DriveStep == ASSUME IInv, Trip \/ Heal PROVE IInv'
<1> USE HandLinkAssumption
<1>0. TypeOK /\ DisabledNeverPowered
  BY DEF IInv
<1>1. UNCHANGED <<comms, queue, loop, user, ghost>> /\ trips' \in 0..MaxTrips
  BY <1>0 DEF TypeOK, Trip, Heal
<1>2. PICK a \in Actuators : \/ drive' = [drive EXCEPT ![a].state = "fault", ![a].cause = TRUE]
                             \/ drive' = [drive EXCEPT ![a].cause = FALSE]
  BY DEF Trip, Heal
<1>3. /\ drive' \in [Actuators -> Drives]
      /\ \A b \in Actuators : drive'[b].state = drive[b].state \/ drive'[b].state = "fault"
  <2>1. drive[a] \in Drives
    BY <1>0 DEF TypeOK
  <2>2. PICK d \in Drives : drive' = [drive EXCEPT ![a] = d] /\ (d.state = drive[a].state \/ d.state = "fault")
    <3>1. CASE drive' = [drive EXCEPT ![a].state = "fault", ![a].cause = TRUE]
      <4>1. drive' = [drive EXCEPT ![a] = [drive[a] EXCEPT !.state = "fault", !.cause = TRUE]]
        BY <1>0, <3>1 DEF TypeOK
      <4>2. [drive[a] EXCEPT !.state = "fault", !.cause = TRUE] \in Drives
        BY <2>1 DEF Drives, States
      <4>3. [drive[a] EXCEPT !.state = "fault", !.cause = TRUE].state = "fault"
        BY <2>1 DEF Drives
      <4> QED
        BY <4>1, <4>2, <4>3
    <3>2. CASE drive' = [drive EXCEPT ![a].cause = FALSE]
      <4>1. drive' = [drive EXCEPT ![a] = [drive[a] EXCEPT !.cause = FALSE]]
        BY <1>0, <3>2 DEF TypeOK
      <4>2. [drive[a] EXCEPT !.cause = FALSE] \in Drives /\ [drive[a] EXCEPT !.cause = FALSE].state = drive[a].state
        BY <2>1 DEF Drives
      <4> QED
        BY <4>1, <4>2
    <3> QED
      BY <1>2, <3>1, <3>2
  <2> QED
    BY <1>0, <2>2 DEF TypeOK
<1>4. DisabledNeverPowered'
  BY <1>0, <1>3 DEF DisabledNeverPowered
<1>5. TypeOK'
  BY <1>0, <1>1, <1>3 DEF TypeOK
<1>6. CountsTruly' /\ UnheardIsUnknown' /\ LossIsKnown' /\ TransmitFaultIsReal'
  BY <1>1 DEF IInv, CountsTruly, UnheardIsUnknown, LossIsKnown, TransmitFaultIsReal
<1> QED
  BY <1>4, <1>5, <1>6 DEF IInv

(* Nothing moves. *)
LEMMA StutterStep == ASSUME IInv, UNCHANGED vars PROVE IInv'
  BY DEF IInv, vars, TypeOK, CountsTruly, UnheardIsUnknown, LossIsKnown, TransmitFaultIsReal,
         DisabledNeverPowered

(* Every step keeps the invariant. *)
LEMMA NextIInv == IInv /\ [Next]_vars => IInv'
  BY ReadStep, WriteStep, WriteNothingStep, EndStep, ReopenStep, UserStep, ArriveStep, DriveStep, StutterStep
  DEF Next, Cycle

(* It holds in every state the hand and the loop reach. *)
LEMMA Invariance == Spec => []IInv
  BY InitIInv, NextIInv, PTL DEF Spec

-----------------------------------------------------------------------------
(* Theorems.                                                               *)

(* Every variable keeps its type. *)
THEOREM LinkTypeCorrect == Spec => []TypeOK
<1>1. IInv => TypeOK
  BY DEF IInv
<1> QED
  BY Invariance, <1>1, PTL

(* No verdict is taken from anything an earlier socket received. *)
THEOREM SessionsAreApart == Spec => []NothingInherited
<1>1. IInv => NothingInherited
  BY DEF IInv, TypeOK, CountsTruly, UnheardIsUnknown, NothingInherited
<1> QED
  BY Invariance, <1>1, PTL

(* A silence longer than the limit faults in the very cycle in which it is, *)
(* and no later cycle runs unless that fault was overwritten.               *)
THEOREM SilenceFaults == Spec => []SilenceIsNoticed
<1>1. IInv => SilenceIsNoticed
  BY DEF IInv, TypeOK, Loops, LossIsKnown, SilenceIsNoticed
<1> QED
  BY Invariance, <1>1, PTL

(* A transmit fault is raised by a burst of which a send failed for good.  *)
THEOREM TransmitFaultsAreReal == Spec => []TransmitFaultIsReal
<1>1. IInv => TransmitFaultIsReal
  BY DEF IInv
<1> QED
  BY Invariance, <1>1, PTL

(* A disabled actuator is never powered. *)
THEOREM DisabledStaysOff == Spec => []DisabledNeverPowered
<1>1. IInv => DisabledNeverPowered
  BY DEF IInv
<1> QED
  BY Invariance, <1>1, PTL
=============================================================================
