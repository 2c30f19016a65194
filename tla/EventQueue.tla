----------------------------- MODULE EventQueue -----------------------------
(***************************************************************************)
(* What a RealtimeEventRing promises: a bounded FIFO queue whose producer  *)
(* never waits.  An event offered to a full queue is dropped and counted;  *)
(* an event that was accepted is delivered, in order.                      *)
(***************************************************************************)
EXTENDS Naturals, Sequences

CONSTANTS Capacity,  \* the most events the queue holds
          Events     \* what a producer may offer

VARIABLES queue,    \* the events waiting, oldest first
          dropped   \* how many events were refused

vars == <<queue, dropped>>

Init ==
  /\ queue = <<>>
  /\ dropped = 0

Accept(e) ==
  /\ Len(queue) < Capacity
  /\ queue' = Append(queue, e)
  /\ UNCHANGED dropped

Drop ==
  /\ Len(queue) = Capacity
  /\ dropped' = dropped + 1
  /\ UNCHANGED queue

Deliver ==
  /\ queue # <<>>
  /\ queue' = Tail(queue)
  /\ UNCHANGED dropped

Next == Drop \/ Deliver \/ \E e \in Events : Accept(e)

Spec == Init /\ [][Next]_vars
=============================================================================
