------------------------------ MODULE Session ------------------------------
(***************************************************************************)
(* apps/racecam.cpp, one process after the other: each opens its log,      *)
(* acquires and configures the cameras (initCams), asks YouTube for a      *)
(* stream (initOutputs), starts the cameras, captures until the time is up *)
(* or a signal comes, and takes everything back in FreeCapture.  A process *)
(* may die at every step, of an exception or of a loss of power; the logs, *)
(* the file of the token and the broadcasts at the server survive it.      *)
(*                                                                         *)
(* Composes Logger and YouTube, whose steps are steps of the process.      *)
(***************************************************************************)
EXTENDS Logger, YouTube

CONSTANT NumCameras  \* how many cameras the configuration names

Camera == 1..NumCameras

ASSUME CameraAssumption == NumCameras \in Nat \ {0}

VARIABLES main,      \* where the process is
          streams,   \* the configuration has a YouTube output
          cam,       \* the camera the loop of main is at
          stat,      \* rcams_[c].stat
          acquired,  \* the cameras libcamera has given to the process
          strmID     \* strmID_, 0 if empty

procVars == <<main, streams, cam, stat, acquired, strmID>>
vars == <<logVars, ytVars, procVars>>

TypeOK ==
  /\ LogTypeOK
  /\ YouTubeTypeOK
  /\ main \in {"down", "logging", "opening", "outputs", "starting", "cams",
               "capturing", "stopping", "outputsFree", "completing",
               "release", "freed"}
  /\ streams \in BOOLEAN
  /\ cam \in Camera
  /\ stat \in [Camera -> {"RCunknown", "RCavailable", "RCaquired",
                          "RCconfigured", "RCrunning", "RCstopping"}]
  /\ acquired \subseteq Camera
  /\ strmID \in 0..MaxBroadcasts

Init ==
  /\ LogInit
  /\ YouTubeInit
  /\ main = "down"
  /\ streams \in BOOLEAN
  /\ cam = 1
  /\ stat = [c \in Camera |-> "RCunknown"]
  /\ acquired = {}
  /\ strmID = 0

-----------------------------------------------------------------------------
Run ==
  /\ main = "down"
  /\ StartLogging
  /\ main' = "logging"
  /\ UNCHANGED <<ytVars, streams, cam, stat, acquired, strmID>>

Log ==
  /\ main = "logging"
  /\ \/ RotateOne /\ UNCHANGED main
     \/ OpenLog /\ main' = "opening"
  /\ UNCHANGED <<ytVars, streams, cam, stat, acquired, strmID>>

(* The loops over the cameras. *)
Advance_OnePast(next) ==
  IF cam <= NumCameras
    THEN cam' = cam + 1 /\ UNCHANGED main
    ELSE cam' = 1 /\ main' = next
Advance(next) ==
  IF cam < NumCameras
    THEN cam' = cam + 1 /\ UNCHANGED main
    ELSE cam' = 1 /\ main' = next

SetStat(s) == stat' = [stat EXCEPT ![cam] = s]

AcquireCamera ==
  /\ main = "opening"
  /\ stat[cam] = "RCunknown"
  /\ acquired' = acquired \cup {cam}
  /\ SetStat("RCaquired")
  /\ UNCHANGED <<logVars, ytVars, main, streams, cam, strmID>>

ConfigureCamera ==
  /\ main = "opening"
  /\ stat[cam] = "RCaquired"
  /\ SetStat("RCconfigured")
  /\ Advance("outputs")
  /\ UNCHANGED <<logVars, ytVars, streams, acquired, strmID>>

InitOutputs ==
  /\ main = "outputs"
  /\ IF streams
       THEN Begin("StartStrm", 0) /\ main' = "starting"
       ELSE UNCHANGED ytVars /\ main' = "cams"
  /\ UNCHANGED <<logVars, streams, cam, stat, acquired, strmID>>

YouTubeReturns(from, to) ==
  /\ main = from
  /\ answer = "ok"
  /\ main' = to
  /\ answer' = "none"
  /\ inHand' = 0
  /\ UNCHANGED <<logVars, now, call, stage, waited, token, auth, dirs, codeAge,
                 tries, broadcasts, orphans, gaveUpEarly, streams, cam, stat,
                 acquired>>

StreamStarted ==
  /\ YouTubeReturns("starting", "cams")
  /\ strmID' = inHand

StartCamera ==
  /\ main = "cams"
  /\ SetStat("RCrunning")
  /\ Advance("capturing")
  /\ UNCHANGED <<logVars, ytVars, streams, acquired, strmID>>

CaptureEnds_OutputsFirst ==
  /\ main = "capturing"
  /\ main' = "outputsFree"
  /\ UNCHANGED <<logVars, ytVars, streams, cam, stat, acquired, strmID>>

(* wait returns: the time is up, or there was a signal. *)
CaptureEnds ==
  /\ main = "capturing"
  /\ main' = "stopping"
  /\ UNCHANGED <<logVars, ytVars, streams, cam, stat, acquired, strmID>>

(* A camera counts as configured again if all its requests were cancelled, *)
(* otherwise it stays "stopping".                                          *)
StopCamera ==
  /\ main = "stopping"
  /\ \/ SetStat("RCstopping")
     \/ SetStat("RCconfigured")
  /\ Advance("outputsFree")
  /\ UNCHANGED <<logVars, ytVars, streams, acquired, strmID>>

HasStream_Never == FALSE
HasStream == strmID # 0

FreeOutputs ==
  /\ main = "outputsFree"
  /\ IF HasStream
       THEN Begin("StopStrm", strmID) /\ main' = "completing"
       ELSE UNCHANGED ytVars /\ main' = "release"
  /\ UNCHANGED <<logVars, streams, cam, stat, acquired, strmID>>

StreamStopped ==
  /\ YouTubeReturns("completing", "release")
  /\ strmID' = 0

Releases_Configured(s) == s = "RCconfigured"
Releases(s) == s # "RCavailable"

ReleaseCamera ==
  /\ main = "release"
  /\ acquired' = IF Releases(stat[cam]) THEN acquired \ {cam} ELSE acquired
  /\ SetStat("RCavailable")
  /\ Advance("freed")
  /\ UNCHANGED <<logVars, ytVars, streams, strmID>>

(* The process ends; what it leaves behind when it dies early. *)
Ends ==
  /\ main' = "down"
  /\ cam' = 1
  /\ stat' = [c \in Camera |-> "RCunknown"]
  /\ acquired' = {}
  /\ strmID' = 0
  /\ UNCHANGED streams

Exit ==
  /\ main = "freed"
  /\ Ends
  /\ UNCHANGED <<logVars, ytVars>>

Dies ==
  /\ main # "down"
  /\ Ends
  /\ Forget
  /\ answer' = "none"
  /\ inHand' = 0
  /\ orphans' = orphans \cup ({inHand, strmID} \ {0})
  /\ rotating' = 0
  /\ UNCHANGED <<logs, starts, lost, now, auth, dirs, broadcasts, gaveUpEarly>>

CameraStep == AcquireCamera \/ ConfigureCamera \/ StartCamera \/ StopCamera
              \/ ReleaseCamera
StreamStep == InitOutputs \/ StreamStarted \/ FreeOutputs \/ StreamStopped

Next ==
  \/ Run \/ Log \/ CameraStep \/ StreamStep \/ CaptureEnds \/ Exit \/ Dies
  \/ (YouTubeStep \/ Tick) /\ UNCHANGED <<logVars, procVars>>

Spec == Init /\ [][Next]_vars

-----------------------------------------------------------------------------
(* FreeCapture: a process that gets to its end has given every camera      *)
(* back, whether or not its requests were all cancelled, and stopped it    *)
(* before.                                                                 *)
CamerasReleased ==
  /\ main = "freed" => acquired = {}
  /\ main \in {"release", "freed"} => \A c \in Camera : stat[c] # "RCrunning"

(* initOutputs, freeOutputs: the program knows every broadcast it has left *)
(* open, across StartStrm, the capture and StopStrm, unless a failed call  *)
(* or the end of the process cut it off.                                   *)
OpenBroadcastIsKnown ==
  \A b \in Broadcast :
    broadcasts[b] = "open" => b \in orphans \cup {strmID, inHand}

(* main, initOutputs, freeOutputs: a broadcast is opened before a camera   *)
(* runs, completed once, by the process that opened it and only when all   *)
(* its cameras have stopped, and no process touches one of another.        *)
BroadcastLifecycle ==
  [][\A b \in Broadcast :
       broadcasts'[b] # broadcasts[b] =>
         /\ \A c \in Camera : stat[c] # "RCrunning"
         /\ \/ broadcasts[b] = "none" /\ broadcasts'[b] = "open" /\ main = "starting"
            \/ /\ broadcasts[b] = "open" /\ broadcasts'[b] = "complete"
               /\ main = "completing" /\ b = strmID
    ]_vars
=============================================================================
