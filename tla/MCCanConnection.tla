-------------------------- MODULE MCCanConnection --------------------------
(* Two programs on one host with two channels: one finds its hand by a scan *)
(* and one is told the channel.                                             *)
EXTENDS CanConnection

MCConfig == [p \in Programs |-> IF p = "a" THEN AutoInterface ELSE "can1"]
MCSameHand == [p \in Programs |-> "left"]
MCWiring == [s \in Sides |-> IF s = "left" THEN "can1" ELSE "can0"]
=============================================================================
