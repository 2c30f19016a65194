-------------------------- MODULE MCRealtimeBuffer --------------------------
(* The command buffer: two producers under staging_mutex_, one consumer.   *)
EXTENDS RealtimeBuffer

CONSTANTS user, rt, v1, v2

MCProducers == {user, rt}
MCValues == {v1, v2}
=============================================================================
