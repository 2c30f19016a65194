---------------------- MODULE RealtimeEventRingProofs -----------------------
(***************************************************************************)
(* Every event the RT loop offers is accounted for, the log is in order    *)
(* and whole, and the ring implements the bounded queue of EventQueue: for *)
(* any capacity and any number of events, and however often RT threads and *)
(* logging threads come and go, die or fail to start.                      *)
(***************************************************************************)
EXTENDS RealtimeEventRing, SequenceTheorems, TLAPS

(* The indices push() has published and pop() has not given back. *)
Window == readIndex .. writeIndex - 1
At(k) == slots[k % Capacity]

(* A push() that was accepted and has not published its event yet. *)
Copying == rpc \in {"copy", "store"}

(* The indices and the counters agree with what was offered. *)
Counted ==
  /\ readIndex <= writeIndex
  /\ writeIndex - readIndex <= Capacity
  /\ Copying => writeIndex - readIndex < Capacity
  /\ Len(logged) <= readIndex
  /\ readIndex - Len(logged) <= notices + (IF lpc = "catch" THEN 1 ELSE 0)
  /\ offered = writeIndex + countDropped + (IF rpc = "idle" THEN 0 ELSE 1)
  /\ countReported <= countDropped

(* The window holds whole events in the order they were offered, the one   *)
(* being pushed not among them; pop() copies the oldest.                   *)
InOrder ==
  /\ \A k \in Window : At(k) \in Events /\ At(k) <= offered
  /\ Copying => \A k \in Window : At(k) < offered
  /\ \A j, k \in Window : j < k => At(j) < At(k)
  /\ lpc = "copy" => readIndex < writeIndex /\ event = At(readIndex)

(* The log is the events before the window. *)
LogInOrder ==
  /\ \A i \in DOMAIN logged : logged[i] \in Events /\ logged[i] <= offered
  /\ Copying => \A i \in DOMAIN logged : logged[i] < offered
  /\ \A i, j \in DOMAIN logged : i < j => logged[i] < logged[j]
  /\ \A i \in DOMAIN logged, k \in Window : logged[i] < At(k)

(* The threads end in order: the RT thread between two pushes, then the    *)
(* logging thread after a drain that found the ring empty, or by throwing. *)
EndsInOrder ==
  /\ ~rtAlive => rpc = "idle"
  /\ rtAlive => upc = "idle" /\ running
  /\ upc = "start" => running
  /\ upc = "idle" /\ lpc # "none" => running
  /\ draining => ~running /\ lpc \notin {"none", "catch"}
  /\ lpc = "catch" => notices < MaxThrows
  /\ lpc = "ended" => draining \/ notices > 0
  /\ draining /\ lpc \in {"report", "ended"} => readIndex = writeIndex
  /\ draining /\ lpc = "ended" => countReported = countDropped

IInv == TypeOK /\ Counted /\ InOrder /\ LogInOrder /\ EndsInOrder

-----------------------------------------------------------------------------
(* Arithmetic of the slots.                                                *)

(* Every index has a slot. *)
LEMMA SlotOf == ASSUME NEW k \in Nat PROVE k % Capacity \in 0 .. Capacity - 1
  BY RingAssumption

(* An index is its lap times the capacity plus its slot. *)
LEMMA LapAndSlot ==
  ASSUME NEW k \in Nat
  PROVE  k \div Capacity \in Nat /\ k = Capacity * (k \div Capacity) + (k % Capacity)
  BY RingAssumption

(* Two indices less than the capacity apart have different slots. *)
LEMMA SlotsApart ==
  ASSUME NEW j \in Nat, NEW k \in Nat, j < k, k - j < Capacity
  PROVE  j % Capacity # k % Capacity
<1> DEFINE p == j \div Capacity
           q == k \div Capacity
<1>1. /\ j = Capacity * p + (j % Capacity) /\ p \in Nat
      /\ k = Capacity * q + (k % Capacity) /\ q \in Nat
  BY LapAndSlot
<1>2. j % Capacity \in 0 .. Capacity - 1 /\ k % Capacity \in 0 .. Capacity - 1
  BY SlotOf
<1> HIDE DEF p, q
<1> SUFFICES ASSUME j % Capacity = k % Capacity PROVE FALSE
  OBVIOUS
<1> USE RingAssumption
<1>3. k - j = Capacity * (q - p)
  BY <1>1, <1>2
<1>4. q - p > 0
  <2>1. SUFFICES ASSUME q - p <= 0 PROVE FALSE
    BY <1>1
  <2>2. Capacity * (q - p) <= 0
    BY <1>1, <2>1
  <2> QED
    BY <1>3, <2>2
<1>5. Capacity * (q - p) >= Capacity
  BY <1>1, <1>4
<1> QED
  BY <1>1, <1>3, <1>5

(* The slot push() writes is outside the window. *)
LEMMA WriteSlotIsFree ==
  ASSUME TypeOK, readIndex <= writeIndex, writeIndex - readIndex < Capacity, NEW k \in Window
  PROVE  k % Capacity # writeIndex % Capacity
<1>1. k \in Nat /\ k < writeIndex /\ writeIndex - k < Capacity
  BY RingAssumption DEF Window, TypeOK
<1> QED
  BY <1>1, SlotsApart DEF TypeOK

-----------------------------------------------------------------------------
(* The inductive invariant.                                                *)

(* It holds before the first event. *)
LEMMA InitIInv == Init => IInv
<1> SUFFICES ASSUME Init PROVE IInv
  OBVIOUS
<1> USE RingAssumption DEF Init
<1>1. TypeOK
  <2>1. slots \in [0 .. Capacity - 1 -> {Empty, Torn} \cup Events]
    OBVIOUS
  <2>2. offered \in 0 .. MaxEvents /\ logged \in Seq({Torn} \cup Events)
    OBVIOUS
  <2>3. notices \in 0 .. MaxThrows
    OBVIOUS
  <2> QED
    BY <2>1, <2>2, <2>3 DEF TypeOK
<1>2. Counted
  BY DEF Counted, Copying
<1>3. Window = {}
  BY DEF Window
<1>4. InOrder
  BY <1>3 DEF InOrder
<1>5. LogInOrder
  BY <1>3 DEF LogInOrder
<1>6. EndsInOrder
  BY DEF EndsInOrder
<1> QED
  BY <1>1, <1>2, <1>4, <1>5, <1>6 DEF IInv

(* push() decides whether the event is dropped. *)
LEMMA PushTestStep == ASSUME IInv, PushTest PROVE IInv'
<1> USE RingAssumption DEF IInv, PushTest, ring, user, logger
<1>1. TypeOK'
  BY DEF TypeOK
<1>2. Counted'
  BY DEF TypeOK, Counted, Copying
<1>3. Window' = Window /\ \A k : At(k)' = At(k)
  BY DEF Window, At
<1>4. InOrder'
  BY <1>3 DEF InOrder, Copying, TypeOK, Events
<1>5. LogInOrder'
  BY <1>3 DEF LogInOrder, Copying, TypeOK, Events
<1>6. EndsInOrder'
  BY DEF EndsInOrder, TypeOK
<1> QED
  BY <1>1, <1>2, <1>4, <1>5, <1>6


(* The drop is counted. *)
LEMMA PushDropStep == ASSUME IInv, PushDrop PROVE IInv'
<1> USE RingAssumption DEF IInv, PushDrop, user, logger
<1>1. TypeOK'
  BY DEF TypeOK
<1>2. Counted'
  BY DEF TypeOK, Counted, Copying
<1>3. Window' = Window /\ \A k : At(k)' = At(k)
  BY DEF Window, At
<1>4. InOrder'
  BY <1>3 DEF InOrder, Copying
<1>5. LogInOrder'
  BY <1>3 DEF LogInOrder, Copying
<1>6. EndsInOrder'
  BY DEF EndsInOrder, TypeOK, Counted
<1> QED
  BY <1>1, <1>2, <1>4, <1>5, <1>6

(* The copy into the slot leaves the window alone. *)
LEMMA CopyLeavesWindow == ASSUME IInv, PushCopy PROVE \A k \in Window : At(k)' = At(k)
<1> USE RingAssumption DEF IInv, PushCopy
<1> SUFFICES ASSUME NEW k \in Window PROVE At(k)' = At(k)
  OBVIOUS
<1>1. k % Capacity # writeIndex % Capacity
  BY WriteSlotIsFree DEF Counted, Copying
<1>2. k % Capacity \in 0 .. Capacity - 1
  BY SlotOf DEF Window
<1> QED
  BY <1>1, <1>2 DEF At, TypeOK

(* So it keeps the invariant. *)
LEMMA PushCopyStep == ASSUME IInv, PushCopy PROVE IInv'
<1> USE RingAssumption DEF IInv, PushCopy, user, logger
<1>1. TypeOK'
  BY DEF TypeOK
<1>2. Counted'
  BY DEF TypeOK, Counted, Copying
<1>3. Window' = Window
  BY DEF Window
<1>4. \A k \in Window : At(k)' = At(k)
  BY CopyLeavesWindow
<1>5. lpc = "copy" => readIndex \in Window
  BY DEF InOrder, Window, TypeOK
<1>6. InOrder'
  BY <1>3, <1>4, <1>5 DEF InOrder, Copying
<1>7. LogInOrder'
  BY <1>3, <1>4 DEF LogInOrder, Copying
<1>8. EndsInOrder'
  BY DEF EndsInOrder
<1> QED
  BY <1>1, <1>2, <1>6, <1>7, <1>8

(* The release store puts the event at the end of the window. *)
LEMMA Published ==
  ASSUME IInv, PushStore
  PROVE  /\ Window' = Window \cup {writeIndex} /\ writeIndex \notin Window
         /\ \A k \in Window : At(k)' = At(k)
         /\ slots'[writeIndex % Capacity] = offered
         /\ offered \in Events
<1> USE RingAssumption DEF IInv, PushStore
<1>1. Window' = Window \cup {writeIndex} /\ writeIndex \notin Window
  <2>1. readIndex \in Nat /\ writeIndex \in Nat /\ readIndex <= writeIndex
    BY DEF TypeOK, Counted
  <2>2. Window' = readIndex .. (writeIndex + 1) - 1
    BY DEF Window
  <2> QED
    BY <2>1, <2>2 DEF Window
<1>2. \A k \in Window : At(k)' = At(k)
  <2> SUFFICES ASSUME NEW k \in Window PROVE At(k)' = At(k)
    OBVIOUS
  <2>1. k % Capacity # writeIndex % Capacity
    BY WriteSlotIsFree DEF Counted, Copying
  <2>2. k % Capacity \in 0 .. Capacity - 1
    BY SlotOf DEF Window
  <2> QED
    BY <2>1, <2>2 DEF At, TypeOK
<1>3. slots'[writeIndex % Capacity] = offered
  <2>1. writeIndex % Capacity \in 0 .. Capacity - 1
    BY SlotOf DEF TypeOK
  <2> QED
    BY <2>1 DEF TypeOK
<1>4. offered \in Events
  BY DEF Counted, TypeOK, Events
<1> QED
  BY <1>1, <1>2, <1>3, <1>4

(* It keeps the invariant. *)
LEMMA PushStoreStep == ASSUME IInv, PushStore PROVE IInv'
<1> USE RingAssumption DEF IInv, PushStore, user, logger
<1>1. TypeOK'
  BY Published DEF TypeOK
<1>2. Counted'
  BY DEF TypeOK, Counted, Copying
<1>3. lpc = "copy" => readIndex \in Window
  BY DEF InOrder, Window, TypeOK
<1>4. /\ \A k \in Window : k < writeIndex /\ At(k)' = At(k) /\ At(k) < offered
      /\ \A k \in Window' : k \in Window \/ (k = writeIndex /\ At(k)' = offered)
  BY Published DEF Window, InOrder, Copying, At
<1>5. \A k \in Window' : At(k)' \in Events /\ At(k)' <= offered
  BY <1>4, Published DEF InOrder, Events
<1>6. \A j, k \in Window' : j < k => At(j)' < At(k)'
  <2> SUFFICES ASSUME NEW j \in Window', NEW k \in Window', j < k PROVE At(j)' < At(k)'
    OBVIOUS
  <2>1. j \in Window
    BY <1>4 DEF TypeOK, Window
  <2> QED
    BY <1>4, <2>1 DEF InOrder
<1>7. InOrder'
  <2>1. lpc' = "copy" => readIndex' < writeIndex' /\ event' = slots'[readIndex' % Capacity]
    BY <1>3, Published DEF InOrder, At, TypeOK
  <2> QED
    BY <1>5, <1>6, <2>1 DEF InOrder, Copying, At
<1>8. LogInOrder'
  BY <1>4 DEF LogInOrder, Copying
<1>9. EndsInOrder'
  BY DEF EndsInOrder, TypeOK
<1> QED
  BY <1>1, <1>2, <1>7, <1>8, <1>9

(* The logging thread reads its flag. *)
LEMMA TestRunningStep == ASSUME IInv, TestRunning PROVE IInv'
<1> USE DEF IInv, TestRunning, ring, rt, user
<1>1. TypeOK'
  BY DEF TypeOK
<1>2. Counted'
  BY DEF Counted, Copying
<1>3. Window' = Window /\ \A k : At(k)' = At(k)
  BY DEF Window, At
<1>4. InOrder'
  BY <1>3 DEF InOrder, Copying
<1>5. LogInOrder'
  BY <1>3 DEF LogInOrder, Copying
<1>6. EndsInOrder'
  BY DEF EndsInOrder
<1> QED
  BY <1>1, <1>2, <1>4, <1>5, <1>6

(* pop() finds the ring empty or starts to copy the oldest event. *)
LEMMA PopTestStep == ASSUME IInv, PopTest PROVE IInv'
<1> USE RingAssumption DEF IInv, PopTest, ring, rt, user
<1>1. readIndex # writeIndex => readIndex \in Window
  BY DEF Window, TypeOK, Counted
<1>2. TypeOK'
  BY <1>1 DEF TypeOK, InOrder, At
<1>3. Counted'
  BY DEF Counted, Copying
<1>4. Window' = Window /\ \A k : At(k)' = At(k)
  BY DEF Window, At
<1>5. InOrder'
  BY <1>4 DEF InOrder, Copying, At, Counted, TypeOK
<1>6. LogInOrder'
  BY <1>4 DEF LogInOrder, Copying
<1>7. EndsInOrder'
  BY DEF EndsInOrder
<1> QED
  BY <1>2, <1>3, <1>5, <1>6, <1>7

(* pop() gives a slot back, whether the event becomes a line or is lost. *)
Taken ==
  /\ lpc = "copy"
  /\ readIndex' = readIndex + 1
  /\ UNCHANGED <<slots, writeIndex, countDropped, rt>>

(* What pop() returns is the oldest event, whole; the window loses it. *)
LEMMA Popped ==
  ASSUME IInv, Taken
  PROVE  /\ readIndex \in Window /\ Window' = Window \ {readIndex}
         /\ \A k : At(k)' = At(k)
         /\ event = At(readIndex) /\ event = slots[readIndex % Capacity]
<1> USE RingAssumption DEF IInv, Taken
<1>1. readIndex \in Window
  BY DEF InOrder, Window, TypeOK
<1>2. Window' = Window \ {readIndex}
  <2>1. readIndex \in Nat /\ writeIndex \in Nat /\ Window' = readIndex + 1 .. writeIndex - 1
    BY DEF Window, TypeOK
  <2> QED
    BY <2>1 DEF Window
<1>3. \A k : At(k)' = At(k)
  BY DEF At
<1>4. event = At(readIndex) /\ event = slots[readIndex % Capacity]
  BY DEF InOrder, At
<1> QED
  BY <1>1, <1>2, <1>3, <1>4

(* It keeps the invariant. *)
LEMMA PopStoreStep == ASSUME IInv, PopStore PROVE IInv'
<1> USE RingAssumption DEF IInv, PopStore, rt, user
<1>0. Taken /\ logged' = Append(logged, At(readIndex)) /\ event' = event
  <2>1. Taken
    BY DEF Taken
  <2> QED
    BY <2>1, Popped
<1> USE <1>0
<1>1. At(readIndex) \in Events /\ At(readIndex) <= offered /\ (Copying => At(readIndex) < offered)
  BY Popped DEF InOrder
<1>2. /\ Len(logged') = Len(logged) + 1 /\ DOMAIN logged' = 1 .. Len(logged) + 1
      /\ DOMAIN logged = 1 .. Len(logged) /\ Len(logged) \in Nat
      /\ \A i \in DOMAIN logged : logged'[i] = logged[i]
      /\ logged'[Len(logged) + 1] = At(readIndex)
      /\ logged' \in Seq({Torn} \cup Events)
  BY Popped, <1>1 DEF TypeOK
<1>3. TypeOK'
  BY <1>2, Popped DEF TypeOK
<1>4. Counted'
  BY <1>2 DEF TypeOK, Counted, Copying, InOrder
<1>5. InOrder'
  BY Popped DEF InOrder, Copying
<1>6. \A i \in DOMAIN logged' : logged'[i] \in Events /\ logged'[i] <= offered
  BY <1>1, <1>2 DEF LogInOrder
<1>7. Copying => \A i \in DOMAIN logged' : logged'[i] < offered
  BY <1>1, <1>2 DEF LogInOrder
<1>8. \A i, j \in DOMAIN logged' : i < j => logged'[i] < logged'[j]
  <2> SUFFICES ASSUME NEW i \in DOMAIN logged', NEW j \in DOMAIN logged', i < j
               PROVE  logged'[i] < logged'[j]
    OBVIOUS
  <2>1. i \in DOMAIN logged
    BY <1>2
  <2> QED
    BY <1>2, <2>1, Popped DEF LogInOrder
<1>9. \A i \in DOMAIN logged', k \in Window' : logged'[i] < At(k)'
  <2> SUFFICES ASSUME NEW i \in DOMAIN logged', NEW k \in Window' PROVE logged'[i] < At(k)'
    OBVIOUS
  <2>1. k \in Window /\ readIndex < k /\ At(k)' = At(k)
    BY Popped DEF Window, TypeOK
  <2>2. At(readIndex) < At(k)
    BY <2>1, Popped DEF InOrder
  <2> QED
    BY <1>2, <2>1, <2>2 DEF LogInOrder
<1>10. LogInOrder'
  BY <1>6, <1>7, <1>8, <1>9 DEF LogInOrder, Copying
<1>11. EndsInOrder'
  BY DEF EndsInOrder
<1> QED
  BY <1>3, <1>4, <1>5, <1>10, <1>11

(* The drops are reported; the last report ends the logging thread. *)
LEMMA ReportDroppedStep == ASSUME IInv, ReportDropped PROVE IInv'
<1> USE DEF IInv, ReportDropped, ring, rt, user
<1>1. TypeOK'
  BY DEF TypeOK
<1>2. Counted'
  BY DEF Counted, Copying, TypeOK
<1>3. Window' = Window /\ \A k : At(k)' = At(k)
  BY DEF Window, At
<1>4. InOrder'
  BY <1>3 DEF InOrder, Copying
<1>5. LogInOrder'
  BY <1>3 DEF LogInOrder, Copying
<1>6. EndsInOrder'
  BY DEF EndsInOrder
<1> QED
  BY <1>1, <1>2, <1>4, <1>5, <1>6

(* A throw takes the event off the ring at most. *)
LEMMA LoggingThrowsStep == ASSUME IInv, LoggingThrows PROVE IInv'
<1> USE RingAssumption DEF IInv, LoggingThrows, rt, user
<1>1. CASE UNCHANGED readIndex
  <2>1. TypeOK'
    BY <1>1 DEF TypeOK
  <2>2. Counted'
    BY <1>1 DEF Counted, Copying, TypeOK
  <2>3. Window' = Window /\ \A k : At(k)' = At(k)
    BY <1>1 DEF Window, At
  <2>4. InOrder' /\ LogInOrder'
    BY <2>3 DEF InOrder, LogInOrder, Copying
  <2>5. EndsInOrder'
    BY DEF EndsInOrder
  <2> QED
    BY <2>1, <2>2, <2>4, <2>5
<1>2. CASE lpc = "copy" /\ readIndex' = readIndex + 1
  <2>1. Taken
    BY <1>2 DEF Taken
  <2>2. TypeOK'
    BY <1>2 DEF TypeOK
  <2>3. Counted'
    BY <1>2 DEF Counted, Copying, TypeOK, InOrder
  <2>4. Window' = Window \ {readIndex} /\ \A k : At(k)' = At(k)
    BY <2>1, Popped
  <2>5. InOrder' /\ LogInOrder'
    BY <2>4 DEF InOrder, LogInOrder, Copying
  <2>6. EndsInOrder'
    BY DEF EndsInOrder
  <2> QED
    BY <2>2, <2>3, <2>5, <2>6
<1> QED
  BY <1>1, <1>2

(* The line that says so is written. *)
LEMMA NoticeLoggedStep == ASSUME IInv, NoticeLogged PROVE IInv'
<1> USE DEF IInv, NoticeLogged, ring, rt, user
<1>1. TypeOK'
  BY RingAssumption DEF TypeOK, EndsInOrder
<1>2. Counted'
  BY DEF Counted, Copying, TypeOK
<1>3. Window' = Window /\ \A k : At(k)' = At(k)
  BY DEF Window, At
<1>4. InOrder' /\ LogInOrder'
  BY <1>3 DEF InOrder, LogInOrder, Copying
<1>5. EndsInOrder'
  BY RingAssumption DEF EndsInOrder, TypeOK
<1> QED
  BY <1>1, <1>2, <1>4, <1>5

(* Threads come and go with the calls of the user. *)
LEMMA LifetimeStep == ASSUME IInv, Lifetime PROVE IInv'
<1> USE DEF IInv, Lifetime, Connect, StartControl, StartFails, JoinLogging, JoinControl, StopLogging,
            ring, rt, user, logger
<1>1. TypeOK'
  BY DEF TypeOK
<1>2. Counted'
  <2>1. (lpc' = "catch") = (lpc = "catch") /\ UNCHANGED <<ring, rpc, offered, countReported, logged, notices>>
    OBVIOUS
  <2> QED
    BY <2>1 DEF Counted, Copying
<1>3. Window' = Window /\ \A k : At(k)' = At(k)
  BY DEF Window, At
<1>4. InOrder' /\ LogInOrder'
  <2>1. lpc' = "copy" => lpc = "copy" /\ UNCHANGED <<ring, rpc, offered, event, logged>>
    OBVIOUS
  <2>2. UNCHANGED <<ring, rpc, offered, event, logged>>
    OBVIOUS
  <2> QED
    BY <1>3, <2>1, <2>2 DEF InOrder, LogInOrder, Copying
<1>5. EndsInOrder'
  <2>1. CASE Connect
    BY <2>1 DEF EndsInOrder
  <2>2. CASE StartControl
    BY <2>2 DEF EndsInOrder
  <2>3. CASE StartFails
    BY <2>3 DEF EndsInOrder
  <2>4. CASE JoinLogging
    BY <2>4 DEF EndsInOrder
  <2>5. CASE JoinControl
    BY <2>5 DEF EndsInOrder
  <2>6. CASE StopLogging
    BY <2>6 DEF EndsInOrder
  <2> QED
    BY <2>1, <2>2, <2>3, <2>4, <2>5, <2>6
<1> QED
  BY <1>1, <1>2, <1>4, <1>5

(* Nothing moves. *)
LEMMA StutterStep == ASSUME IInv, UNCHANGED vars PROVE IInv'
<1> USE DEF IInv, vars, ring, rt, user, logger
<1>1. Window' = Window /\ \A k : At(k)' = At(k)
  BY DEF Window, At
<1>2. TypeOK' /\ Counted' /\ EndsInOrder'
  BY DEF TypeOK, Counted, Copying, EndsInOrder
<1>3. InOrder' /\ LogInOrder'
  BY <1>1 DEF InOrder, LogInOrder, Copying
<1> QED
  BY <1>2, <1>3

(* Every step keeps the invariant. *)
LEMMA NextIInv == IInv /\ [Next]_vars => IInv'
  BY PushTestStep, PushDropStep, PushCopyStep, PushStoreStep, TestRunningStep, PopTestStep,
     PopStoreStep, ReportDroppedStep, LoggingThrowsStep, NoticeLoggedStep, LifetimeStep, StutterStep
     DEF Next, Push, Logging

(* It holds in every state the threads reach. *)
LEMMA Invariance == Spec => []IInv
  BY InitIInv, NextIInv, PTL DEF Spec

-----------------------------------------------------------------------------
(* Theorems.                                                               *)

(* Every variable of the ring keeps its type. *)
THEOREM RingTypeCorrect == Spec => []TypeOK
<1>1. IInv => TypeOK
  BY DEF IInv
<1> QED
  BY Invariance, <1>1, PTL

(* The log is in order and whole, a logging thread that ended drained the  *)
(* ring or said that it threw, and once one has drained it every event     *)
(* offered is a line or a reported drop, but for one event per throw.      *)
THEOREM Accounted == Spec => []NothingUnaccounted
<1>1. IInv => NothingUnaccounted
  <2> SUFFICES ASSUME IInv PROVE NothingUnaccounted
    OBVIOUS
  <2> USE RingAssumption DEF IInv
  <2>1. \A i \in DOMAIN logged : logged[i] # Torn
    BY DEF LogInOrder, Events, Torn
  <2>2. \A i, j \in DOMAIN logged : i < j => logged[i] < logged[j]
    BY DEF LogInOrder
  <2>3. lpc = "ended" => draining \/ notices > 0
    BY DEF EndsInOrder
  <2>4. lpc = "ended" /\ draining => offered - (Len(logged) + countReported) \in 0 .. notices
    BY DEF EndsInOrder, Counted, TypeOK
  <2> QED
    BY <2>1, <2>2, <2>3, <2>4 DEF NothingUnaccounted
<1> QED
  BY Invariance, <1>1, PTL

-----------------------------------------------------------------------------
(* The refinement of EventQueue.                                           *)

(* The queue the ring stands for. *)
Waiting == [i \in 1 .. writeIndex - readIndex |-> At(readIndex + i - 1)]
Refused == countDropped + (IF rpc = "drop" THEN 1 ELSE 0)

(* It is a sequence of events as long as the window. *)
LEMMA WaitingIsSeq ==
  ASSUME IInv
  PROVE  Waiting \in Seq(Events) /\ Len(Waiting) = writeIndex - readIndex
<1> USE RingAssumption DEF IInv
<1>1. writeIndex - readIndex \in Nat
  BY DEF TypeOK, Counted
<1>2. \A i \in 1 .. writeIndex - readIndex : At(readIndex + i - 1) \in Events
  <2> SUFFICES ASSUME NEW i \in 1 .. writeIndex - readIndex PROVE At(readIndex + i - 1) \in Events
    OBVIOUS
  <2>1. readIndex + i - 1 \in Window
    BY <1>1 DEF Window, TypeOK
  <2> QED
    BY <2>1 DEF InOrder
<1> QED
  BY <1>1, <1>2 DEF Waiting

(* It still is after a step that keeps the invariant. *)
LEMMA WaitingStaysSeq ==
  IInv' => (Waiting \in Seq(Events) /\ Len(Waiting) = writeIndex - readIndex)'
<1>1. IInv => Waiting \in Seq(Events) /\ Len(Waiting) = writeIndex - readIndex
  BY WaitingIsSeq
<1> QED
  BY <1>1, PTL

(* The queue starts empty. *)
LEMMA InitQueue == Init => Queue!Init
  BY DEF Init, Queue!Init

(* A step that moves neither index nor event of the window nor drops.      *)
LEMMA QuietStep ==
  ASSUME IInv, IInv', UNCHANGED <<writeIndex, readIndex>>, Refused' = Refused,
         \A k \in Window : At(k)' = At(k)
  PROVE  UNCHANGED Queue!vars
<1>1. Waiting' = Waiting
  <2>1. \A i \in 1 .. writeIndex - readIndex : readIndex + i - 1 \in Window
    BY DEF Window, IInv, TypeOK
  <2> QED
    BY <2>1 DEF Waiting
<1> QED
  BY <1>1 DEF Queue!vars, Waiting, At, Refused

(* A full ring refuses the event: the queue is full too. *)
LEMMA PushTestQueue == ASSUME IInv, PushTest PROVE [Queue!Next]_(Queue!vars)
<1> USE RingAssumption DEF PushTest, ring
<1>1. Waiting' = Waiting
  BY DEF Waiting, At
<1>2. CASE writeIndex - readIndex >= Capacity
  <2>1. Len(Waiting) = Capacity
    BY <1>2, WaitingIsSeq DEF IInv, Counted, TypeOK
  <2>2. Refused' = Refused + 1
    BY <1>2 DEF Refused, IInv, TypeOK
  <2>3. Queue!Drop
    BY <1>1, <2>1, <2>2 DEF Queue!Drop, Waiting, At, Refused
  <2> QED
    BY <2>3 DEF Queue!Next
<1>3. CASE ~(writeIndex - readIndex >= Capacity)
  <2>1. Refused' = Refused
    BY <1>3 DEF Refused
  <2> QED
    BY <1>1, <2>1 DEF Queue!vars, Waiting, At, Refused
<1> QED
  BY <1>2, <1>3

(* The release store accepts the event at the end of a queue with room. *)
LEMMA PushStoreQueue == ASSUME IInv, IInv', PushStore PROVE Queue!Next
<1> USE RingAssumption DEF PushStore
<1>1. offered \in Events
  BY Published
<1>2. Len(Waiting) < Capacity
  BY WaitingIsSeq DEF IInv, Counted, Copying
<1>3. /\ writeIndex - readIndex \in Nat /\ readIndex \in Nat /\ writeIndex \in Nat
      /\ readIndex' = readIndex /\ writeIndex' = writeIndex + 1
  BY DEF IInv, TypeOK, Counted
<1>4. Waiting \in Seq(Events) /\ Len(Waiting) = writeIndex - readIndex
  BY WaitingIsSeq
<1>5. Waiting' \in Seq(Events) /\ Len(Waiting') = (writeIndex + 1) - readIndex
  BY WaitingStaysSeq, <1>3
<1>6. \A i \in 1 .. Len(Waiting) : Waiting'[i] = Waiting[i]
  <2> SUFFICES ASSUME NEW i \in 1 .. writeIndex - readIndex PROVE Waiting'[i] = Waiting[i]
    BY <1>4
  <2>1. readIndex + i - 1 \in Window
    BY <1>3 DEF Window
  <2>2. slots'[(readIndex + i - 1) % Capacity] = slots[(readIndex + i - 1) % Capacity]
    BY <2>1, Published DEF At
  <2>3. Waiting[i] = slots[(readIndex + i - 1) % Capacity]
    BY DEF Waiting, At
  <2>4. Waiting'[i] = slots'[(readIndex + i - 1) % Capacity]
    BY <1>3 DEF Waiting, At
  <2> QED
    BY <2>2, <2>3, <2>4
<1>7. Waiting'[Len(Waiting) + 1] = offered
  <2>1. Waiting'[(writeIndex - readIndex) + 1] = slots'[(readIndex + ((writeIndex - readIndex) + 1) - 1) % Capacity]
    BY <1>3 DEF Waiting, At
  <2>2. readIndex + ((writeIndex - readIndex) + 1) - 1 = writeIndex
    BY <1>3
  <2> QED
    BY <1>4, <2>1, <2>2, Published
<1>8. Waiting' = Append(Waiting, offered)
  <2>1. /\ Append(Waiting, offered) \in Seq(Events)
        /\ Len(Append(Waiting, offered)) = Len(Waiting) + 1
        /\ \A i \in 1 .. Len(Waiting) : Append(Waiting, offered)[i] = Waiting[i]
        /\ Append(Waiting, offered)[Len(Waiting) + 1] = offered
    BY <1>1, <1>4, AppendProperties
  <2>2. Len(Waiting') = Len(Append(Waiting, offered))
    BY <1>3, <1>4, <1>5, <2>1
  <2>3. \A i \in 1 .. Len(Waiting') : Waiting'[i] = Append(Waiting, offered)[i]
    <3> SUFFICES ASSUME NEW i \in 1 .. Len(Waiting) + 1 PROVE Waiting'[i] = Append(Waiting, offered)[i]
      BY <2>1, <2>2
    <3>1. i \in 1 .. Len(Waiting) \/ i = Len(Waiting) + 1
      BY <1>3, <1>4
    <3> QED
      BY <3>1, <1>6, <1>7, <2>1
  <2> QED
    BY <1>5, <2>1, <2>2, <2>3, SeqEqual
<1>9. Refused' = Refused
  BY DEF Refused
<1>10. \E e \in Events : Queue!Accept(e)
  BY <1>1, <1>2, <1>8, <1>9 DEF Queue!Accept, Waiting, At, Refused
<1> QED
  BY <1>10 DEF Queue!Next

(* The release store of pop() delivers the oldest event. *)
LEMMA TakenQueue == ASSUME IInv, IInv', Taken PROVE Queue!Next
<1> USE RingAssumption DEF Taken
<1>1. /\ writeIndex - readIndex \in Nat /\ readIndex \in Nat /\ writeIndex \in Nat
      /\ readIndex' = readIndex + 1 /\ writeIndex' = writeIndex /\ readIndex < writeIndex
  BY Popped DEF IInv, TypeOK, Counted, Window
<1>2. Waiting \in Seq(Events) /\ Len(Waiting) = writeIndex - readIndex
  BY WaitingIsSeq
<1>3. Waiting' \in Seq(Events) /\ Len(Waiting') = writeIndex - (readIndex + 1)
  BY WaitingStaysSeq, <1>1
<1>4. Waiting # <<>>
  BY <1>1, <1>2
<1>5. /\ Tail(Waiting) \in Seq(Events) /\ Len(Tail(Waiting)) = Len(Waiting) - 1
      /\ \A i \in 1 .. Len(Tail(Waiting)) : Tail(Waiting)[i] = Waiting[i + 1]
  BY <1>2, <1>4, HeadTailProperties
<1>6. \A i \in 1 .. Len(Waiting') : Waiting'[i] = Tail(Waiting)[i]
  <2> SUFFICES ASSUME NEW i \in 1 .. writeIndex - (readIndex + 1) PROVE Waiting'[i] = Tail(Waiting)[i]
    BY <1>3
  <2>1. Waiting'[i] = slots[((readIndex + 1) + i - 1) % Capacity]
    BY <1>1 DEF Waiting, At
  <2>2. i + 1 \in 1 .. writeIndex - readIndex /\ readIndex + (i + 1) - 1 = (readIndex + 1) + i - 1
    BY <1>1
  <2>3. Waiting[i + 1] = slots[(readIndex + (i + 1) - 1) % Capacity]
    BY <2>2 DEF Waiting, At
  <2>4. i \in 1 .. Len(Tail(Waiting))
    BY <1>1, <1>2, <1>5
  <2> QED
    BY <1>5, <2>1, <2>2, <2>3, <2>4
<1>7. Waiting' = Tail(Waiting)
  <2>1. Len(Waiting') = Len(Tail(Waiting))
    BY <1>1, <1>2, <1>3, <1>5
  <2> QED
    BY <1>3, <1>5, <1>6, <2>1, SeqEqual
<1>8. Refused' = Refused
  BY DEF Refused, rt
<1>9. Queue!Deliver
  BY <1>4, <1>7, <1>8 DEF Queue!Deliver, Waiting, At, Refused
<1> QED
  BY <1>9 DEF Queue!Next

(* Every step of the threads is a step of the queue or nothing to it. *)
LEMMA StepQueue == IInv /\ IInv' /\ [Next]_vars => [Queue!Next]_(Queue!vars)
<1> SUFFICES ASSUME IInv, IInv', [Next]_vars PROVE [Queue!Next]_(Queue!vars)
  OBVIOUS
<1>1. ASSUME PushDrop PROVE UNCHANGED Queue!vars
  BY <1>1, QuietStep DEF PushDrop, Refused, At, IInv, TypeOK
<1>2. ASSUME PushCopy PROVE UNCHANGED Queue!vars
  <2>1. \A k \in Window : At(k)' = At(k)
    BY <1>2, CopyLeavesWindow
  <2> QED
    BY <1>2, <2>1, QuietStep DEF PushCopy, Refused
<1>3. ASSUME \/ TestRunning \/ PopTest \/ ReportDropped \/ NoticeLogged
             \/ LoggingThrows /\ UNCHANGED readIndex
             \/ Lifetime \/ UNCHANGED vars
      PROVE  UNCHANGED Queue!vars
  <2>1. UNCHANGED <<ring, rpc>>
    BY <1>3 DEF TestRunning, PopTest, ReportDropped, NoticeLogged, LoggingThrows, Lifetime, Connect, StartControl,
       StartFails, JoinLogging, JoinControl, StopLogging, vars, ring, rt
  <2> QED
    BY <2>1, QuietStep DEF Refused, At, ring
<1>4. ASSUME PopStore \/ (LoggingThrows /\ ~UNCHANGED readIndex) PROVE Queue!Next
  <2>1. Taken
    BY <1>4 DEF PopStore, LoggingThrows, Taken
  <2> QED
    BY <2>1, TakenQueue
<1> QED
  BY PushTestQueue, PushStoreQueue, <1>1, <1>2, <1>3, <1>4 DEF Next, Push, Logging

(* The ring is the bounded queue: it drops only when the queue is full and *)
(* delivers what it accepted in order.                                     *)
THEOREM RingIsQueue == Spec => ImplementsEventQueue
<1>1. Init /\ [][Next]_vars /\ []IInv => Queue!Init /\ [][Queue!Next]_(Queue!vars)
  BY InitQueue, StepQueue, PTL
<1> QED
  BY Invariance, <1>1, PTL DEF Spec, ImplementsEventQueue, Queue!Spec
=============================================================================
