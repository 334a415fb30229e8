----------------------------- MODULE MCCapture -----------------------------
(* A small instance of Capture.  Two cameras, so that stopping one clears  *)
(* the message queue of the other; the first has two requests, so that one *)
(* can be in the camera while another is held by the video thread.         *)
EXTENDS Capture

MCNumRequests == [c \in 1..NumCameras |-> IF c = 1 THEN 2 ELSE 1]
=============================================================================
