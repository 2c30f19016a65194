------------------------ MODULE MCRealtimeEventRing -------------------------
(* Capacity 2 instead of 64 and 6 events: the ring fills, drops, drains    *)
(* and wraps around three times.  Two logging threads throw and more are  *)
(* started after them.                                                     *)
EXTENDS RealtimeEventRing
=============================================================================
