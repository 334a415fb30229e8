--------------------------- MODULE MCPacketQueue ---------------------------
(* A small instance of PacketQueue: two encoders, a capacity of five with  *)
(* the watermarks the constructor computes for it (70% is 3, 20% is 1).    *)
EXTENDS PacketQueue
CONSTANTS video, audio

MCProducers == {video, audio}
=============================================================================
