-------------------------- MODULE MCNetworkWriter --------------------------
(* A small instance of NetworkWriter: one video and one audio encoder, a   *)
(* capacity of three, and watermarks that four packets can cross both ways.*)
EXTENDS NetworkWriter
CONSTANTS video, audio

MCProducers == {video, audio}
=============================================================================
