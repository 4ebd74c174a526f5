------------------------------ MODULE MCPacketId ------------------------------
(* PacketId with two threads, a counter of 9 values, a checkpoint every 3   *)
(* and a skip of 3, so that checkpoints, wake-ups, saturation and           *)
(* wrap-around all come within a few calls.                                 *)
EXTENDS PacketId, MCMix

CONSTANTS t1, t2
=============================================================================
