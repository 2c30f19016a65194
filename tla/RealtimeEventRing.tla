------------------------- MODULE RealtimeEventRing --------------------------
(***************************************************************************)
(* RealtimeEventRing (types/realtime_event_ring.hpp) with the two threads  *)
(* that meet on it: the RT loop, which pushes, and the event logging       *)
(* thread (run_event_logging_loop, log_pending_events), which drains it    *)
(* and reports what was dropped.  RT threads come and go with connect()    *)
(* and disconnect().  The logging thread outlives them: close() ends it    *)
(* once it joined the RT thread, and connect() when the RT thread cannot   *)
(* be started.  It also ends by itself when it throws, with one line that  *)
(* says so; it then stays joinable, so no connect() starts another one.    *)
(*                                                                         *)
(* Events are numbered in the order the RT loop offers them.  Copying one  *)
(* into or out of a slot takes two steps, and the slot is Torn in between. *)
(*                                                                         *)
(* An action that no other definition uses (EndUndrained, ...) is the one   *)
(* after it with a bug in it, which the properties must notice.            *)
(***************************************************************************)
EXTENDS Naturals, Sequences

CONSTANTS Capacity,   \* kCapacity
          MaxEvents,  \* bound: events the RT threads offer in all
          MaxThrows   \* bound: exceptions that end a logging thread

ASSUME RingAssumption ==
  /\ Capacity \in Nat \ {0}
  /\ MaxEvents \in Nat
  /\ MaxThrows \in Nat

Events == 1 .. MaxEvents
Empty == 0               \* a slot never written
Torn == MaxEvents + 1    \* a slot in the middle of a copy

VARIABLES
  slots,          \* slots_
  writeIndex,     \* write_index_
  readIndex,      \* read_index_
  countDropped,   \* count_dropped_
  rtAlive,        \* an RT thread exists
  rpc,            \* where push() is: "idle", "copy", "store" or "drop"
  offered,        \* the number of events offered so far
  upc,            \* where the user thread is: "idle", or in connect() at
                  \* "start" or "rollback"; "closed" once close() began
  running,        \* event_logging_running_
  lpc,            \* where the logging thread is; "none" while it is not joinable
  draining,       \* the logging thread is in its last log_pending_events()
  event,          \* the local struct pop() fills
  countReported,  \* count_reported_dropped_
  logged,         \* history: the events that became log lines
  notices         \* history: the lines that say a logging thread terminated

ring == <<slots, writeIndex, readIndex, countDropped>>
rt == <<rtAlive, rpc, offered>>
logger == <<lpc, draining, event, countReported, logged, notices>>
user == <<upc, running>>
vars == <<ring, rt, user, logger>>

Init ==
  /\ slots = [i \in 0 .. Capacity - 1 |-> Empty]
  /\ writeIndex = 0
  /\ readIndex = 0
  /\ countDropped = 0
  /\ rtAlive = FALSE
  /\ rpc = "idle"
  /\ offered = 0
  /\ upc = "idle"
  /\ running = FALSE
  /\ lpc = "none"
  /\ draining = FALSE
  /\ event = Empty
  /\ countReported = 0
  /\ logged = <<>>
  /\ notices = 0

-----------------------------------------------------------------------------
(* push(), on the RT thread.                                               *)

PushTestOneTooFew ==
  /\ rtAlive
  /\ rpc = "idle"
  /\ offered < MaxEvents
  /\ offered' = offered + 1
  /\ rpc' = IF writeIndex - readIndex >= Capacity - 1 THEN "drop" ELSE "copy"
  /\ UNCHANGED <<ring, rtAlive, user, logger>>

(* Both index loads: write_index_ is the producer's own, so the acquire    *)
(* load of read_index_ decides whether the ring is full.                   *)
PushTest ==
  /\ rtAlive
  /\ rpc = "idle"
  /\ offered < MaxEvents
  /\ offered' = offered + 1
  /\ rpc' = IF writeIndex - readIndex >= Capacity THEN "drop" ELSE "copy"
  /\ UNCHANGED <<ring, rtAlive, user, logger>>

PushDrop ==
  /\ rpc = "drop"
  /\ countDropped' = countDropped + 1
  /\ rpc' = "idle"
  /\ UNCHANGED <<slots, writeIndex, readIndex, rtAlive, offered, user, logger>>

PushCopy ==
  /\ rpc = "copy"
  /\ slots' = [slots EXCEPT ![writeIndex % Capacity] = Torn]
  /\ rpc' = "store"
  /\ UNCHANGED <<writeIndex, readIndex, countDropped, rtAlive, offered, user, logger>>

(* The copy ends, then the release store publishes it. *)
PushStore ==
  /\ rpc = "store"
  /\ slots' = [slots EXCEPT ![writeIndex % Capacity] = offered]
  /\ writeIndex' = writeIndex + 1
  /\ rpc' = "idle"
  /\ UNCHANGED <<readIndex, countDropped, rtAlive, offered, user, logger>>

-----------------------------------------------------------------------------
(* pop() and the loop around it, on the logging thread.                    *)

EndUndrained ==
  /\ lpc = "test"
  /\ draining' = ~running
  /\ lpc' = IF running THEN "pop" ELSE "ended"
  /\ UNCHANGED <<ring, rt, user, event, countReported, logged, notices>>

(* The loop condition; once it is false the last drain begins. *)
TestRunning ==
  /\ lpc = "test"
  /\ draining' = ~running
  /\ lpc' = "pop"
  /\ UNCHANGED <<ring, rt, user, event, countReported, logged, notices>>

PopTest ==
  /\ lpc = "pop"
  /\ lpc' = IF readIndex = writeIndex THEN "report" ELSE "copy"
  /\ event' = IF readIndex = writeIndex THEN event ELSE slots[readIndex % Capacity]
  /\ UNCHANGED <<ring, rt, user, draining, countReported, logged, notices>>

(* The copy ends; it is whole only if the slot was left alone meanwhile.   *)
(* Then the release store gives the slot back and the line is written.     *)
PopStore ==
  /\ lpc = "copy"
  /\ event' = IF slots[readIndex % Capacity] = event THEN event ELSE Torn
  /\ readIndex' = readIndex + 1
  /\ logged' = Append(logged, event')
  /\ lpc' = "pop"
  /\ UNCHANGED <<slots, writeIndex, countDropped, rt, user, draining, countReported, notices>>

(* The dropped events are reported once each, after every drain. *)
ReportDropped ==
  /\ lpc = "report"
  /\ countReported' = countDropped
  /\ lpc' = IF draining THEN "ended" ELSE "test"
  /\ UNCHANGED <<ring, rt, user, draining, event, logged, notices>>

(* An exception while a line is written, the queue flushed or a drop       *)
(* reported leaves the loop.  The event being written is off the ring      *)
(* already; a drop being reported is not counted as reported.  What throws *)
(* after the last drain loses nothing and is left out.                     *)
LoggingThrows ==
  /\ notices < MaxThrows
  /\ \/ /\ lpc = "copy"
        /\ readIndex' = readIndex + 1
     \/ /\ lpc = "test" \/ (lpc = "report" /\ countDropped # countReported)
        /\ UNCHANGED readIndex
  /\ lpc' = "catch"
  /\ draining' = FALSE
  /\ UNCHANGED <<slots, writeIndex, countDropped, rt, user, event, countReported, logged, notices>>

(* The handler leaves one line behind and the thread ends. *)
NoticeLogged ==
  /\ lpc = "catch"
  /\ notices' = notices + 1
  /\ lpc' = "ended"
  /\ UNCHANGED <<ring, rt, user, draining, event, countReported, logged>>

-----------------------------------------------------------------------------
(* The user thread.                                                        *)

(* connect() starts a logging thread unless one is joinable, dead or not.  *)
(* A logging thread that cannot be started leaves everything as it was.    *)
Connect ==
  /\ upc = "idle"
  /\ ~rtAlive
  /\ lpc' = IF lpc = "none" THEN "test" ELSE lpc
  /\ running' = IF lpc = "none" THEN TRUE ELSE running
  /\ upc' = "start"
  /\ UNCHANGED <<ring, rt, draining, event, countReported, logged, notices>>

(* Then it starts the RT thread. *)
StartControl ==
  /\ upc = "start"
  /\ rtAlive' = TRUE
  /\ upc' = "idle"
  /\ UNCHANGED <<ring, rpc, offered, running, logger>>

(* Or fails to, and takes the logging thread down with it. *)
StartFails ==
  /\ upc = "start"
  /\ running' = FALSE
  /\ upc' = "rollback"
  /\ UNCHANGED <<ring, rt, logger>>

JoinLogging ==
  /\ upc = "rollback"
  /\ lpc = "ended"
  /\ lpc' = "none"
  /\ draining' = FALSE
  /\ upc' = "idle"
  /\ UNCHANGED <<ring, rt, running, event, countReported, logged, notices>>

(* stop_control_loop() joined the RT thread, at the end of a cycle. *)
JoinControl ==
  /\ upc = "idle"
  /\ rtAlive
  /\ rpc = "idle"
  /\ rtAlive' = FALSE
  /\ UNCHANGED <<ring, rpc, offered, user, logger>>

StopLoggingFirst ==
  /\ upc = "idle"
  /\ running' = FALSE
  /\ upc' = "closed"
  /\ UNCHANGED <<ring, rt, logger>>

(* close(): after the RT thread has ended, the logging thread is let go. *)
StopLogging ==
  /\ upc = "idle"
  /\ ~rtAlive
  /\ running' = FALSE
  /\ upc' = "closed"
  /\ UNCHANGED <<ring, rt, logger>>

-----------------------------------------------------------------------------
Push == PushTest \/ PushDrop \/ PushCopy \/ PushStore
Logging == TestRunning \/ PopTest \/ PopStore \/ ReportDropped \/ NoticeLogged
Lifetime == Connect \/ StartControl \/ StartFails \/ JoinLogging \/ JoinControl \/ StopLogging

Next == Push \/ Logging \/ LoggingThrows \/ Lifetime

Spec == Init /\ [][Next]_vars

(* The logging thread is scheduled, and a push() that began ends.  The RT  *)
(* loop may push again or not, no call need come, and nothing need throw.  *)
FairSpec ==
  /\ Spec
  /\ WF_vars(Logging)
  /\ WF_vars(PushDrop \/ PushCopy \/ PushStore)

-----------------------------------------------------------------------------
(* Properties.                                                             *)

(* Every variable holds a value of its type. *)
TypeOK ==
  /\ slots \in [0 .. Capacity - 1 -> {Empty, Torn} \cup Events]
  /\ writeIndex \in Nat
  /\ readIndex \in Nat
  /\ countDropped \in Nat
  /\ rtAlive \in BOOLEAN
  /\ rpc \in {"idle", "copy", "store", "drop"}
  /\ offered \in 0 .. MaxEvents
  /\ upc \in {"idle", "start", "rollback", "closed"}
  /\ running \in BOOLEAN
  /\ lpc \in {"none", "test", "pop", "copy", "report", "catch", "ended"}
  /\ draining \in BOOLEAN
  /\ event \in {Empty, Torn} \cup Events
  /\ countReported \in Nat
  /\ logged \in Seq({Torn} \cup Events)
  /\ notices \in 0 .. MaxThrows

(* A logging thread that ended has drained the ring, or it threw and the   *)
(* log says so.  Once one has drained the ring, every event the RT loop    *)
(* ever offered became a line or is counted in a reported drop, but for at *)
(* most one event for each line that says a thread terminated.  That is    *)
(* why close() stops the logging thread only after the RT thread has ended *)
(* and why the loop drains once more after it saw the flag.  At any time   *)
(* the log is the events in the order they were pushed, each at most once  *)
(* and none half overwritten: push() leaves alone what pop() has not given *)
(* back.                                                                   *)
NothingUnaccounted ==
  /\ \A i \in DOMAIN logged : logged[i] # Torn
  /\ \A i, j \in DOMAIN logged : i < j => logged[i] < logged[j]
  /\ lpc = "ended" => draining \/ notices > 0
  /\ lpc = "ended" /\ draining => offered - (Len(logged) + countReported) \in 0 .. notices

(* An accepted event is taken off the ring without waiting for close():    *)
(* the logging thread catches up with every index the RT loop published,   *)
(* unless the log says that a logging thread terminated and none runs.     *)
EveryEventIsLogged ==
  \A n \in 1 .. MaxEvents :
    (writeIndex >= n) ~> (readIndex >= n \/ (lpc \in {"none", "ended"} /\ notices > 0))

(* The ring implements the bounded queue: it drops only at a moment when   *)
(* it is full, and accepts, keeps and delivers in order otherwise.  The    *)
(* queue is the window from read_index_ to write_index_, and a drop is     *)
(* decided at the load of read_index_.                                     *)
Queue == INSTANCE EventQueue WITH
  queue   <- [i \in 1 .. writeIndex - readIndex |-> slots[(readIndex + i - 1) % Capacity]],
  dropped <- countDropped + (IF rpc = "drop" THEN 1 ELSE 0)

ImplementsEventQueue == Queue!Spec
=============================================================================
