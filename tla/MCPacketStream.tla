---------------------------- MODULE MCPacketStream ----------------------------
(* PacketStream for TLC: the cfg files choose the directions, the bound on    *)
(* packets and what the network may do to the ends of a read.                 *)
EXTENDS PacketStream
===============================================================================
