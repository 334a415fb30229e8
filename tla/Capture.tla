------------------------------ MODULE Capture ------------------------------
(***************************************************************************)
(* The life of the libcamera requests of class RCam (core/rcam.cpp): how   *)
(* they circulate between the cameras, requestComplete, msg_queue_, the    *)
(* video thread and queueRequest, and how stopCams, running in the main    *)
(* thread, takes them out of circulation and destroys them.                *)
(*                                                                         *)
(* Three threads: main (startCams, then FreeCapture), video (videoThread)  *)
(* and libcamera's own thread, which runs requestComplete and inside which *)
(* Camera::stop cancels the requests while main waits for it.  The two     *)
(* mutexes are explicit: camera_stop_mutex_ is the variable stopMutex;     *)
(* the mutex of msg_queue_ outlives a step only during Clear.              *)
(***************************************************************************)
EXTENDS Naturals, Sequences

CONSTANTS NumCameras,  \* how many cameras the configuration names
          NumRequests  \* per camera, how many requests, that is buffers, it has

Camera == 1..NumCameras

ASSUME SizeAssumption ==
  /\ NumCameras \in Nat \ {0}
  /\ NumRequests \in [Camera -> Nat \ {0}]

Request == UNION {{c} \X (1..NumRequests[c]) : c \in Camera}
CameraOf(r) == r[1]    \* the cookie of the request

VARIABLES stat,         \* rcams_[c].stat
          connected,    \* the cameras whose requestCompleted signal is connected
          live,         \* the Request objects rcams_[c].req owns
          place,        \* where each request is
          status,       \* Request::status()
          msgs,         \* msg_queue_
          stopMutex,    \* who holds camera_stop_mutex_
          main,         \* where the main thread is
          cam,          \* the camera its loop is at
          video,        \* where the video thread is
          stopThreads,  \* stop_threads_
          misread,      \* history: a destroyed Request was read
          outcome       \* "ok", or how the process died

vars == <<stat, connected, live, place, status, msgs, stopMutex, main, cam,
          video, stopThreads, misread, outcome>>

Thread == {"main", "video"}
(* "fresh": made, not yet queued; "requeueing": inside queueRequest, past  *)
(* its test of stat; "idle": owned by rcams_ only.                         *)
Place == {"fresh", "camera", "completing", "queue", "video", "requeueing",
          "idle"}
Msg == [type : {"RequestComplete"}, request : Request]
       \cup [type : {"Timeout", "Quit"}]
MainStage == {"starting", "queueing", "capturing", "stop", "draining",
              "disconnect", "clear", "clearing", "release", "ending", "join",
              "done"}

TypeOK ==
  /\ stat \in [Camera -> {"RCconfigured", "RCrunning", "RCstopping", "RCunknown"}]
  /\ connected \in SUBSET Camera
  /\ live \in SUBSET Request
  /\ place \in [Request -> Place]
  /\ status \in [Request -> {"Pending", "Complete", "Cancelled"}]
  /\ msgs \in Seq(Msg)
  /\ stopMutex \in Thread \cup {"None"}
  /\ main \in MainStage
  /\ cam \in Camera
  /\ video \in {"loop", "get", "process", "delete", "ended"}
  /\ stopThreads \in BOOLEAN
  /\ misread \in BOOLEAN
  /\ outcome \in {"ok", "crashed", "terminated"}

(* initCams has configured every camera, initOutputs has started the video *)
(* thread.                                                                 *)
Init ==
  /\ stat = [c \in Camera |-> "RCconfigured"]
  /\ connected = {}
  /\ live = {}
  /\ place = [r \in Request |-> "idle"]
  /\ status = [r \in Request |-> "Pending"]
  /\ msgs = <<>>
  /\ stopMutex = "None"
  /\ main = "starting"
  /\ cam = 1
  /\ video = "loop"
  /\ stopThreads = FALSE
  /\ misread = FALSE
  /\ outcome = "ok"

MsgMutexFree == main # "clearing"

Post(m) ==
  /\ MsgMutexFree
  /\ msgs' = Append(msgs, m)

-----------------------------------------------------------------------------
(* queueRequest, the deleter of a CompletedRequest: run by the video thread*)
(* when it lets go of a message, and by main inside MessageQueue::Clear.   *)

(* Undefined behaviour: request->cookie() of a destroyed Request.  The read*)
(* may return the old cookie, or kill the process.                         *)
ReadsCookie(r) ==
  IF r \in live
    THEN UNCHANGED <<misread, outcome>>
    ELSE misread' = TRUE /\ outcome' \in {"ok", "crashed"}

CanLockStop_Unlocked(t) == TRUE
CanLockStop(t) == stopMutex = "None"

(* Lock camera_stop_mutex_ and test stat: a request of a camera that is    *)
(* not running is let go, another is taken on with the mutex held.         *)
QueueRequestBegins(t, r) ==
  /\ CanLockStop(t)
  /\ ReadsCookie(r)
  /\ IF stat[CameraOf(r)] = "RCrunning"
       THEN place' = [place EXCEPT ![r] = "requeueing"] /\ stopMutex' = t
       ELSE place' = [place EXCEPT ![r] = "idle"] /\ UNCHANGED stopMutex

QueueRequestEnds(t, r) ==
  /\ stopMutex = t
  /\ place[r] = "requeueing"
  /\ place' = [place EXCEPT ![r] = "camera"]
  /\ stopMutex' = "None"

-----------------------------------------------------------------------------
(* libcamera's thread. *)

(* A frame is ready, or the device has timed out. *)
CameraFinishes(r) ==
  /\ place[r] = "camera"
  /\ \A q \in Request : place[q] # "completing"
  /\ place' = [place EXCEPT ![r] = "completing"]
  /\ status' \in {[status EXCEPT ![r] = s] : s \in {"Complete", "Cancelled"}}
  /\ UNCHANGED <<stat, connected, live, msgs, stopMutex, main, cam, video,
                 stopThreads, misread, outcome>>

(* stat is read without a lock; CompletedRequest's constructor calls       *)
(* reuse(), which makes the request Pending.                               *)
requestComplete(r) ==
  /\ place[r] = "completing"
  /\ \/ /\ status[r] = "Cancelled"
        /\ IF stat[CameraOf(r)] = "RCrunning"
             THEN Post([type |-> "Timeout"])
             ELSE UNCHANGED msgs
        /\ place' = [place EXCEPT ![r] = "idle"]
        /\ UNCHANGED status
     \/ /\ status[r] = "Complete"
        /\ Post([type |-> "RequestComplete", request |-> r])
        /\ place' = [place EXCEPT ![r] = "queue"]
        /\ status' = [status EXCEPT ![r] = "Pending"]
  /\ UNCHANGED <<stat, connected, live, stopMutex, main, cam, video,
                 stopThreads, misread, outcome>>

-----------------------------------------------------------------------------
(* The video thread. *)

VideoLoop ==
  /\ video = "loop"
  /\ video' = IF stopThreads THEN "ended" ELSE "get"
  /\ UNCHANGED <<stat, connected, live, place, status, msgs, stopMutex, main,
                 cam, stopThreads, misread, outcome>>

(* What the loop does with a message that carries no request. *)
NextStage_TimeoutEnds(m) == IF m.type = "Timeout" THEN "ended" ELSE "loop"
NextStage(m) == "loop"

VideoGets ==
  /\ video = "get"
  /\ msgs # <<>>
  /\ MsgMutexFree
  /\ msgs' = Tail(msgs)
  /\ LET m == Head(msgs) IN
       IF m.type = "RequestComplete"
         THEN /\ place' = [place EXCEPT ![m.request] = "video"]
              /\ video' = "process"
              /\ UNCHANGED stopThreads
         ELSE /\ stopThreads' = (stopThreads \/ m.type = "Quit")
              /\ video' = NextStage(m)
              /\ UNCHANGED place
  /\ UNCHANGED <<stat, connected, live, status, stopMutex, main, cam, misread,
                 outcome>>

(* The frame goes through the filters and encoders, found by the cookie.   *)
VideoProcesses(r) ==
  /\ video = "process"
  /\ place[r] = "video"
  /\ ReadsCookie(r)
  /\ video' = "delete"
  /\ UNCHANGED <<stat, connected, live, place, status, msgs, stopMutex, main,
                 cam, stopThreads>>

(* The message goes out of scope. *)
VideoDeletes(r) ==
  /\ video = "delete"
  /\ \/ /\ place[r] = "video"
        /\ QueueRequestBegins("video", r)
        /\ video' = IF place'[r] = "requeueing" THEN "delete" ELSE "loop"
     \/ /\ QueueRequestEnds("video", r)
        /\ video' = "loop"
        /\ UNCHANGED <<misread, outcome>>
  /\ UNCHANGED <<stat, connected, live, status, msgs, main, cam, stopThreads>>

-----------------------------------------------------------------------------
(* The main thread: startCams. *)

OfCam == {r \in Request : CameraOf(r) = cam}
Advance_PastEnd(stage, end) ==
  IF cam <= NumCameras
    THEN cam' = cam + 1 /\ main' = stage
    ELSE cam' = 1 /\ main' = end
Advance(stage, end) ==
  IF cam < NumCameras
    THEN cam' = cam + 1 /\ main' = stage
    ELSE cam' = 1 /\ main' = end

(* makeRequests, Camera::start, stat, and the connection of the signal. *)
StartCamera ==
  /\ main = "starting"
  /\ live' = live \cup OfCam
  /\ place' = [r \in Request |-> IF r \in OfCam THEN "fresh" ELSE place[r]]
  /\ stat' = [stat EXCEPT ![cam] = "RCrunning"]
  /\ connected' = connected \cup {cam}
  /\ main' = "queueing"
  /\ UNCHANGED <<status, msgs, stopMutex, cam, video, stopThreads, misread,
                 outcome>>

QueueFresh(r) ==
  /\ main = "queueing"
  /\ r \in OfCam
  /\ place[r] = "fresh"
  /\ place' = [place EXCEPT ![r] = "camera"]
  /\ UNCHANGED <<stat, connected, live, status, msgs, stopMutex, main, cam,
                 video, stopThreads, misread, outcome>>

CameraStarted ==
  /\ main = "queueing"
  /\ \A r \in OfCam : place[r] # "fresh"
  /\ Advance("starting", "capturing")
  /\ UNCHANGED <<stat, connected, live, place, status, msgs, stopMutex, video,
                 stopThreads, misread, outcome>>

-----------------------------------------------------------------------------
(* The main thread: FreeCapture. *)

(* The button is released: FreeCapture calls stopCams. *)
FreeCapture ==
  /\ main = "capturing"
  /\ main' = "stop"
  /\ UNCHANGED <<stat, connected, live, place, status, msgs, stopMutex, cam,
                 video, stopThreads, misread, outcome>>

(* Every camera is running here.  Camera::stop is called with the mutex    *)
(* held and returns when libcamera's thread has cancelled all requests.    *)
StopCamera ==
  /\ main = "stop"
  /\ CanLockStop("main")
  /\ stopMutex' = "main"
  /\ stat' = [stat EXCEPT ![cam] = "RCstopping"]
  /\ main' = "draining"
  /\ UNCHANGED <<connected, live, place, status, msgs, cam, video,
                 stopThreads, misread, outcome>>

CameraStopped_KeepsLock ==
  /\ main = "draining"
  /\ \A r \in OfCam : place[r] \notin {"camera", "completing"}
  /\ main' = "disconnect"
  /\ UNCHANGED <<stat, connected, live, place, status, msgs, stopMutex, cam,
                 video, stopThreads, misread, outcome>>

CameraStopped ==
  /\ main = "draining"
  /\ \A r \in OfCam : place[r] \notin {"camera", "completing"}
  /\ stopMutex' = "None"
  /\ main' = "disconnect"
  /\ UNCHANGED <<stat, connected, live, place, status, msgs, cam, video,
                 stopThreads, misread, outcome>>

Disconnect ==
  /\ main = "disconnect"
  /\ connected' = connected \ {cam}
  /\ stat' = IF \A r \in OfCam : status[r] = "Cancelled"
               THEN [stat EXCEPT ![cam] = "RCconfigured"] ELSE stat
  /\ main' = "clear"
  /\ UNCHANGED <<live, place, status, msgs, stopMutex, cam, video,
                 stopThreads, misread, outcome>>

(* msg_queue_.Clear(): the deleters of all messages run under its mutex.   *)
ClearBegins_Skipped ==
  /\ main = "clear"
  /\ main' = "release"
  /\ UNCHANGED <<stat, connected, live, place, status, msgs, stopMutex, cam,
                 video, stopThreads, misread, outcome>>

ClearBegins ==
  /\ main = "clear"
  /\ main' = "clearing"
  /\ UNCHANGED <<stat, connected, live, place, status, msgs, stopMutex, cam,
                 video, stopThreads, misread, outcome>>

ClearDropsEmpty ==
  /\ main = "clearing"
  /\ msgs # <<>>
  /\ Head(msgs).type # "RequestComplete"
  /\ msgs' = Tail(msgs)
  /\ UNCHANGED <<stat, connected, live, place, status, stopMutex, main, cam,
                 video, stopThreads, misread, outcome>>

ClearDeletes_WithoutDeleter ==
  /\ main = "clearing"
  /\ msgs # <<>>
  /\ Head(msgs).type = "RequestComplete"
  /\ place' = [place EXCEPT ![Head(msgs).request] = "idle"]
  /\ msgs' = Tail(msgs)
  /\ UNCHANGED <<stat, connected, live, status, stopMutex, main, cam, video,
                 stopThreads, misread, outcome>>

ClearDeletes ==
  /\ main = "clearing"
  /\ \/ /\ msgs # <<>>
        /\ stopMutex # "main"
        /\ Head(msgs).type = "RequestComplete"
        /\ QueueRequestBegins("main", Head(msgs).request)
        /\ msgs' = Tail(msgs)
     \/ /\ \E r \in Request : QueueRequestEnds("main", r)
        /\ UNCHANGED <<msgs, misread, outcome>>
  /\ UNCHANGED <<stat, connected, live, status, main, cam, video, stopThreads>>

ClearEnds ==
  /\ main = "clearing"
  /\ msgs = <<>>
  /\ stopMutex # "main"
  /\ main' = "release"
  /\ UNCHANGED <<stat, connected, live, place, status, msgs, stopMutex, cam,
                 video, stopThreads, misread, outcome>>

(* rcams_[i].req.clear(): the Request objects are destroyed. *)
ReleaseRequests ==
  /\ main = "release"
  /\ live' = live \ OfCam
  /\ Advance("stop", "ending")
  /\ UNCHANGED <<stat, connected, place, status, msgs, stopMutex, video,
                 stopThreads, misread, outcome>>

(* stop_threads_ is set, then freeOutputs posts Quit. *)
StopThreads ==
  /\ main = "ending"
  /\ ~stopThreads
  /\ stopThreads' = TRUE
  /\ UNCHANGED <<stat, connected, live, place, status, msgs, stopMutex, main,
                 cam, video, misread, outcome>>

PostQuit_Forgotten ==
  /\ main = "ending"
  /\ stopThreads
  /\ main' = "join"
  /\ UNCHANGED <<stat, connected, live, place, status, msgs, stopMutex, cam,
                 video, stopThreads, misread, outcome>>

PostQuit ==
  /\ main = "ending"
  /\ stopThreads
  /\ Post([type |-> "Quit"])
  /\ main' = "join"
  /\ UNCHANGED <<stat, connected, live, place, status, stopMutex, cam, video,
                 stopThreads, misread, outcome>>

(* The video thread is joined; freeCams releases the cameras. *)
JoinVideo ==
  /\ main = "join"
  /\ video = "ended"
  /\ stat' = [c \in Camera |-> "RCunknown"]
  /\ main' = "done"
  /\ UNCHANGED <<connected, live, place, status, msgs, stopMutex, cam, video,
                 stopThreads, misread, outcome>>

-----------------------------------------------------------------------------
(* Exceptions.  The code of the video thread and of requestComplete has no *)
(* handler around it; one thrown by startCams or stopCams unwinds through  *)
(* ~RCam, whose video_thread_ is still joinable.  Each ends in terminate.  *)
Throws ==
  /\ \/ main \in {"starting", "queueing", "draining"}
     \/ video \in {"process", "delete"}
     \/ \E r \in Request : place[r] = "completing"
  /\ outcome' = "terminated"
  /\ UNCHANGED <<stat, connected, live, place, status, msgs, stopMutex, main,
                 cam, video, stopThreads, misread>>

-----------------------------------------------------------------------------

VideoStep == \/ VideoLoop
             \/ VideoGets
             \/ \E r \in Request : VideoProcesses(r) \/ VideoDeletes(r)
StartStep == StartCamera \/ (\E r \in Request : QueueFresh(r)) \/ CameraStarted
StopStep == \/ StopCamera \/ CameraStopped \/ Disconnect
            \/ ClearBegins \/ ClearDropsEmpty \/ ClearDeletes \/ ClearEnds
            \/ ReleaseRequests \/ StopThreads \/ PostQuit \/ JoinVideo
Ended == main = "done" \/ outcome # "ok"

Next ==
  \/ /\ outcome = "ok"
     /\ \/ \E r \in Request : CameraFinishes(r) \/ requestComplete(r)
        \/ VideoStep
        \/ StartStep
        \/ FreeCapture
        \/ StopStep
        \/ Throws
  \/ Ended /\ UNCHANGED vars

(* Threads are scheduled, a mutex is granted to a waiting thread in time,  *)
(* and Camera::stop cancels what is queued.  No button need be pressed.    *)
Fairness ==
  /\ WF_vars(outcome = "ok" /\ StartStep)
  /\ SF_vars(outcome = "ok" /\ StopStep)
  /\ SF_vars(outcome = "ok" /\ VideoStep)
  /\ \A r \in Request : SF_vars(outcome = "ok" /\ requestComplete(r))
  /\ \A r \in Request :
       WF_vars(outcome = "ok" /\ main = "draining" /\ CameraFinishes(r))

Spec == Init /\ [][Next]_vars
FairSpec == Spec /\ Fairness

-----------------------------------------------------------------------------
(* Properties that hold. *)

(* queueRequest never races Camera::stop: a request is queued in a camera  *)
(* only while the camera runs and is heard, or while its stop() is still   *)
(* cancelling.                                                             *)
QueuedOnlyWhileRunning ==
  \A r \in Request :
    place[r] = "camera" =>
      /\ r \in live
      /\ CameraOf(r) \in connected
      /\ \/ stat[CameraOf(r)] = "RCrunning"
         \/ main = "draining" /\ cam = CameraOf(r)

(* msg_queue_.Clear() comes late enough and covers enough: no message      *)
(* refers to a destroyed request, and none is in the queue twice.          *)
MessagesAreLive ==
  \A i \in 1..Len(msgs) :
    msgs[i].type = "RequestComplete" =>
      /\ msgs[i].request \in live
      /\ place[msgs[i].request] = "queue"
      /\ \A j \in 1..Len(msgs) :
           msgs[j].type = "RequestComplete" /\ msgs[j].request = msgs[i].request
             => i = j

(* A running camera never loses a request but to a device timeout, also    *)
(* when stopping another camera clears the message queue they share.       *)
OnlyTimeoutsIdle ==
  \A r \in Request :
    place[r] = "idle" /\ r \in live /\ stat[CameraOf(r)] = "RCrunning"
      => status[r] = "Cancelled"

(* The video thread may hold a request that FreeCapture has destroyed: the *)
(* one of the frame it is working on.  No other place refers to one: no    *)
(* camera, no request on its way into a camera, and no message, for each   *)
(* is of a request of its own that exists.                                 *)
OnlyVideoHoldsDestroyed ==
  /\ \A r \in Request \ live : place[r] \in {"idle", "video"}
  /\ MessagesAreLive

(* What the next step of each thread waits for. *)
MainCanStep ==
  \/ main \in {"disconnect", "clear", "release", "ending"}
  \/ main = "stop" /\ stopMutex = "None"
  \/ main = "draining" /\ \A r \in OfCam : place[r] \notin {"camera", "completing"}
  \/ main = "clearing" /\ \/ msgs = <<>> /\ stopMutex # "main"
                          \/ msgs # <<>> /\ Head(msgs).type # "RequestComplete"
                          \/ msgs # <<>> /\ stopMutex = "None"
                          \/ stopMutex = "main" /\ \E r \in Request : place[r] = "requeueing"
  \/ main = "join" /\ video = "ended"
VideoCanStep ==
  \/ video = "loop"
  \/ video = "get" /\ msgs # <<>> /\ MsgMutexFree
  \/ video = "process" /\ \E r \in Request : place[r] = "video"
  \/ video = "delete" /\ \/ stopMutex = "None" /\ \E r \in Request : place[r] = "video"
                         \/ stopMutex = "video" /\ \E r \in Request : place[r] = "requeueing"
CamerasCanStep ==
  \/ MsgMutexFree /\ \E r \in Request :
       place[r] = "completing" /\ status[r] \in {"Cancelled", "Complete"}
  \/ \E r \in Request : place[r] = "camera" /\ \A q \in Request : place[q] # "completing"

(* stopCams, queueRequest, requestComplete, Clear: main, stopping cameras  *)
(* under one mutex and clearing messages under another that it takes in    *)
(* the opposite order, never waits for a thread that waits in turn.        *)
NeverStuck ==
  outcome = "ok" /\ main \notin {"starting", "queueing", "capturing", "done"} =>
    \/ MainCanStep
    \/ main \in {"stop", "clearing", "join"} /\ VideoCanStep
    \/ main = "draining" /\ CamerasCanStep

(* Through all of it RCam keeps to what libcamera asks of its users.       *)
CameraState ==
  [c \in Camera |-> IF stat[c] = "RCrunning" THEN "running"
                    ELSE IF main = "draining" /\ cam = c THEN "stopping"
                    ELSE "stopped"]
CamerasHave == {r \in Request : place[r] \in {"camera", "completing"}}

Contract == INSTANCE CameraContract WITH
  Cameras <- Camera,
  RequestsOf <- [c \in Camera |-> {r \in Request : CameraOf(r) = c}],
  state <- CameraState,
  listening <- connected,
  made <- live,
  queued <- CamerasHave

ObeysContract == Contract!ContractSpec

(* FreeCapture ends: the locks, the join and the blocking stop() never     *)
(* wait on each other for ever.                                            *)
FreeCaptureEnds == (main = "stop") ~> Ended

(* A completed request comes back to its camera, or is let go.             *)
CompletedComesBack ==
  \A r \in Request :
    (place[r] = "queue") ~> (place[r] \in {"camera", "idle"} \/ Ended)

-----------------------------------------------------------------------------
(* Properties the documentation states and the code does not have. *)

(* core/rcam.cpp:594, "queueRequest will get called to delete it later,    *)
(* but we need to know not to try and re-queue it": the late queueRequest  *)
(* can still tell, that is, it never reads a destroyed request.            *)
LateDeleteIsSafe == ~misread

(* core/rcam.cpp:692, "Device timeout detected, attempting a restart!!!":  *)
(* a request that timed out in a running camera is queued in it again.  No *)
(* restart is attempted: the video thread logs the line and goes on, and   *)
(* requestComplete has kept no reference to the request.                   *)
TimeoutRestarts ==
  \A r \in Request :
    (place[r] = "idle" /\ r \in live /\ stat[CameraOf(r)] = "RCrunning")
      ~> (place[r] = "camera" \/ stat[CameraOf(r)] # "RCrunning" \/ outcome # "ok")
=============================================================================
