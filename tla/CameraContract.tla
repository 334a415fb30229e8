--------------------------- MODULE CameraContract --------------------------
(***************************************************************************)
(* What libcamera asks of a program that uses its cameras (abstract        *)
(* specification): requests are made before their camera starts; a request *)
(* is queued only while it exists, is not queued already, and its camera   *)
(* runs; it comes back only to a program that listens; a camera that is    *)
(* being stopped is given nothing more and ends with nothing queued; and   *)
(* requests are destroyed only when their camera has stopped.              *)
(***************************************************************************)
CONSTANTS Cameras,   \* the cameras
          RequestsOf \* per camera, its requests

VARIABLES state,     \* per camera, "stopped", "running" or "stopping"
          listening, \* the cameras whose completions the program receives
          made,      \* the requests that exist
          queued     \* the requests the cameras have

contractVars == <<state, listening, made, queued>>

ContractInit ==
  /\ state = [c \in Cameras |-> "stopped"]
  /\ listening = {}
  /\ made = {}
  /\ queued = {}

SetState(c, s) == state' = [state EXCEPT ![c] = s]

Start(c) ==
  /\ state[c] = "stopped"
  /\ RequestsOf[c] \cap (made \cup queued) = {}
  /\ SetState(c, "running")
  /\ made' = made \cup RequestsOf[c]
  /\ listening' = listening \cup {c}
  /\ UNCHANGED queued

Queue(c, r) ==
  /\ state[c] = "running"
  /\ r \in RequestsOf[c] \cap made
  /\ r \notin queued
  /\ queued' = queued \cup {r}
  /\ UNCHANGED <<state, listening, made>>

(* Completed, or cancelled by a time-out or by the stop of the camera. *)
ComesBack(c, r) ==
  /\ state[c] \in {"running", "stopping"}
  /\ c \in listening
  /\ r \in RequestsOf[c] \cap queued \cap made
  /\ queued' = queued \ {r}
  /\ UNCHANGED <<state, listening, made>>

StopBegins(c) ==
  /\ state[c] = "running"
  /\ SetState(c, "stopping")
  /\ UNCHANGED <<listening, made, queued>>

StopEnds(c) ==
  /\ state[c] = "stopping"
  /\ RequestsOf[c] \cap queued = {}
  /\ SetState(c, "stopped")
  /\ UNCHANGED <<listening, made, queued>>

Disconnect(c) ==
  /\ state[c] = "stopped"
  /\ listening' = listening \ {c}
  /\ UNCHANGED <<state, made, queued>>

Destroy(c) ==
  /\ state[c] = "stopped"
  /\ RequestsOf[c] \cap queued = {}
  /\ made' = made \ RequestsOf[c]
  /\ UNCHANGED <<state, listening, queued>>

ContractNext ==
  \E c \in Cameras :
    \/ Start(c) \/ StopBegins(c) \/ StopEnds(c) \/ Disconnect(c) \/ Destroy(c)
    \/ \E r \in RequestsOf[c] : Queue(c, r) \/ ComesBack(c, r)

ContractSpec == ContractInit /\ [][ContractNext]_contractVars
=============================================================================
