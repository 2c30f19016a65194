---------------------------- MODULE LatestValue ----------------------------
(***************************************************************************)
(* What a RealtimeBuffer promises its two sides: a one-place mailbox that  *)
(* hands over the latest value put into it, at most once.  A value that is *)
(* not taken before the next one is put is lost on purpose.                *)
(***************************************************************************)
CONSTANTS Values,  \* the values a producer may put
          None     \* no value

VARIABLES pending,  \* the value waiting to be taken, or None
          taken     \* the value the consumer took last, or None

vars == <<pending, taken>>

Init ==
  /\ pending = None
  /\ taken = None

Put(v) ==
  /\ pending' = v
  /\ UNCHANGED taken

Take ==
  /\ pending # None
  /\ taken' = pending
  /\ pending' = None

Next == Take \/ \E v \in Values : Put(v)

Spec == Init /\ [][Next]_vars
=============================================================================
