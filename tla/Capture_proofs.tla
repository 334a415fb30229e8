--------------------------- MODULE Capture_proofs ---------------------------
(***************************************************************************)
(* Proofs about Capture: its type invariant, its safety properties, that a *)
(* thread can always go on, and that it implements CameraContract, for any *)
(* number of cameras and of requests.                                      *)
(***************************************************************************)
EXTENDS Capture, SequenceTheorems, TLAPS

(* A request belongs to a camera of the configuration. *)
LEMMA RequestOfCamera == \A r \in Request : CameraOf(r) \in Camera
BY DEF Request, CameraOf

(* What a message may be, and what it carries. *)
LEMMA MessageTypes ==
  /\ \A m \in Msg : m.type = "RequestComplete" => m.request \in Request
  /\ \A r \in Request : [type |-> "RequestComplete", request |-> r] \in Msg
  /\ [type |-> "Timeout"] \in Msg
  /\ [type |-> "Quit"] \in Msg
BY DEF Msg

-----------------------------------------------------------------------------
(* Type correctness. *)

(* TypeOK, one part of the state at a time. *)
CamerasTyped ==
  /\ stat \in [Camera -> {"RCconfigured", "RCrunning", "RCstopping", "RCunknown"}]
  /\ connected \in SUBSET Camera
  /\ live \in SUBSET Request
RequestsTyped ==
  /\ place \in [Request -> Place]
  /\ status \in [Request -> {"Pending", "Complete", "Cancelled"}]
  /\ msgs \in Seq(Msg)
ThreadsTyped ==
  /\ stopMutex \in Thread \cup {"None"}
  /\ main \in MainStage
  /\ cam \in Camera
  /\ video \in {"loop", "get", "process", "delete", "ended"}
FlagsTyped ==
  /\ stopThreads \in BOOLEAN
  /\ misread \in BOOLEAN
  /\ outcome \in {"ok", "crashed", "terminated"}

(* The type invariant, one part of the state at a time. *)
LEMMA TypesByParts ==
  ASSUME CamerasTyped', RequestsTyped', ThreadsTyped', FlagsTyped'
  PROVE  TypeOK'
BY DEF TypeOK, CamerasTyped, RequestsTyped, ThreadsTyped, FlagsTyped

(* Every step keeps the type invariant. *)
LEMMA CaptureTypeStep == TypeOK /\ [Next]_vars => TypeOK'
<1> SUFFICES ASSUME TypeOK, [Next]_vars
             PROVE  TypeOK'
  OBVIOUS
<1>0. \A m \in Msg : Append(msgs, m) \in Seq(Msg)
  BY AppendProperties DEF TypeOK
<1> USE SizeAssumption DEF TypeOK, Camera, MainStage, Thread, Place
<1>1. ASSUME NEW r \in Request, CameraFinishes(r)
      PROVE  TypeOK'
  <2>1. CamerasTyped'
    BY <1>1 DEF CameraFinishes, CamerasTyped
  <2>2. RequestsTyped'
    BY <1>1 DEF CameraFinishes, RequestsTyped
  <2>3. ThreadsTyped'
    BY <1>1 DEF CameraFinishes, ThreadsTyped
  <2>4. FlagsTyped'
    BY <1>1 DEF CameraFinishes, FlagsTyped
  <2>5. QED
    BY <2>1, <2>2, <2>3, <2>4, TypesByParts
<1>2. ASSUME NEW r \in Request, requestComplete(r)
      PROVE  TypeOK'
  <2>1. msgs' \in Seq(Msg)
    <3>1. CASE status[r] = "Cancelled"
      BY <1>0, <1>2, <3>1, MessageTypes DEF requestComplete, Post
    <3>2. CASE status[r] = "Complete"
      <4>1. [type |-> "RequestComplete", request |-> r] \in Msg
        BY MessageTypes
      <4>2. msgs' = Append(msgs, [type |-> "RequestComplete", request |-> r])
        BY <1>2, <3>2 DEF requestComplete, Post
      <4>3. QED
        BY <1>0, <4>1, <4>2
    <3>3. status[r] \in {"Cancelled", "Complete"}
      BY <1>2 DEF requestComplete, Post
    <3>4. QED
      BY <3>1, <3>2, <3>3
  <2>2. place' \in [Request -> Place]
    BY <1>2 DEF requestComplete
  <2>3. status' \in [Request -> {"Pending", "Complete", "Cancelled"}]
    BY <1>2 DEF requestComplete
  <2>4. QED
    BY <1>2, <2>1, <2>2, <2>3 DEF requestComplete
<1>3. CASE VideoLoop
  BY <1>3 DEF VideoLoop
<1>4. CASE VideoGets
  <2>1. Head(msgs) \in Msg /\ msgs' \in Seq(Msg)
    BY <1>4, HeadTailProperties DEF VideoGets
  <2>2. Head(msgs).type = "RequestComplete" => Head(msgs).request \in Request
    BY <2>1, MessageTypes
  <2>3. place' \in [Request -> Place]
    BY <1>4, <2>2 DEF VideoGets
  <2>4. QED
    BY <1>4, <2>1, <2>3 DEF VideoGets, NextStage
<1>5. ASSUME NEW r \in Request, VideoProcesses(r)
      PROVE  TypeOK'
  BY <1>5 DEF VideoProcesses, ReadsCookie
<1>6. ASSUME NEW r \in Request, VideoDeletes(r)
      PROVE  TypeOK'
  <2>1. CamerasTyped'
    BY <1>6 DEF VideoDeletes, QueueRequestBegins, QueueRequestEnds, ReadsCookie, CamerasTyped
  <2>2. RequestsTyped'
    BY <1>6 DEF VideoDeletes, QueueRequestBegins, QueueRequestEnds, ReadsCookie, RequestsTyped
  <2>3. ThreadsTyped'
    BY <1>6 DEF VideoDeletes, QueueRequestBegins, QueueRequestEnds, ReadsCookie, ThreadsTyped
  <2>4. FlagsTyped'
    BY <1>6 DEF VideoDeletes, QueueRequestBegins, QueueRequestEnds, ReadsCookie, FlagsTyped
  <2>5. QED
    BY <2>1, <2>2, <2>3, <2>4, TypesByParts
<1>7. CASE StartCamera
  BY <1>7 DEF StartCamera, OfCam
<1>8. CASE \E r \in Request : QueueFresh(r)
  BY <1>8 DEF QueueFresh
<1>9. CASE CameraStarted \/ ReleaseRequests
  <2>1. cam' \in Camera /\ main' \in MainStage
    BY <1>9 DEF CameraStarted, ReleaseRequests, Advance
  <2>2. live' \in SUBSET Request
    BY <1>9 DEF CameraStarted, ReleaseRequests
  <2>3. QED
    BY <1>9, <2>1, <2>2 DEF CameraStarted, ReleaseRequests
<1>10. CASE FreeCapture \/ StopCamera \/ CameraStopped \/ Disconnect
  <2>1. CamerasTyped'
    BY <1>10 DEF FreeCapture, StopCamera, CameraStopped, Disconnect, CamerasTyped
  <2>2. RequestsTyped'
    BY <1>10 DEF FreeCapture, StopCamera, CameraStopped, Disconnect, RequestsTyped
  <2>3. ThreadsTyped'
    BY <1>10 DEF FreeCapture, StopCamera, CameraStopped, Disconnect, ThreadsTyped
  <2>4. FlagsTyped'
    BY <1>10 DEF FreeCapture, StopCamera, CameraStopped, Disconnect, FlagsTyped
  <2>5. QED
    BY <2>1, <2>2, <2>3, <2>4, TypesByParts
<1>11. CASE ClearBegins \/ ClearDropsEmpty \/ ClearEnds
  <2>0. msgs # <<>> => Tail(msgs) \in Seq(Msg)
    BY HeadTailProperties
  <2>1. CamerasTyped'
    BY <1>11, <2>0 DEF ClearBegins, ClearDropsEmpty, ClearEnds, CamerasTyped
  <2>2. RequestsTyped'
    BY <1>11, <2>0 DEF ClearBegins, ClearDropsEmpty, ClearEnds, RequestsTyped
  <2>3. ThreadsTyped'
    BY <1>11, <2>0 DEF ClearBegins, ClearDropsEmpty, ClearEnds, ThreadsTyped
  <2>4. FlagsTyped'
    BY <1>11, <2>0 DEF ClearBegins, ClearDropsEmpty, ClearEnds, FlagsTyped
  <2>5. QED
    BY <2>1, <2>2, <2>3, <2>4, TypesByParts
<1>12. CASE ClearDeletes
  <2>1. msgs # <<>> => Tail(msgs) \in Seq(Msg)
    BY HeadTailProperties
  <2>2. QED
    BY <1>12, <2>1 DEF ClearDeletes, QueueRequestBegins, QueueRequestEnds,
                       ReadsCookie
<1>13. CASE StopThreads \/ PostQuit
  <2>1. msgs' \in Seq(Msg)
    BY <1>0, <1>13, MessageTypes DEF StopThreads, PostQuit, Post
  <2>2. QED
    BY <1>13, <2>1 DEF StopThreads, PostQuit
<1>14. CASE JoinVideo
  BY <1>14 DEF JoinVideo
<1>15. CASE Throws
  BY <1>15 DEF Throws
<1>16. CASE UNCHANGED vars
  BY <1>16 DEF vars
<1>17. QED
  BY <1>1, <1>2, <1>3, <1>4, <1>5, <1>6, <1>7, <1>8, <1>9, <1>10, <1>11, <1>12,
     <1>13, <1>14, <1>15, <1>16 DEF Next, VideoStep, StartStep, StopStep

(* The variables of the three threads keep their types. *)
THEOREM CaptureTypeCorrect == Spec => []TypeOK
<1>1. Init => TypeOK
  <2>1. 1 \in Camera
    BY SizeAssumption DEF Camera
  <2>2. <<>> \in Seq(Msg)
    BY EmptySeq
  <2>3. QED
    BY <2>1, <2>2 DEF Init, TypeOK, MainStage, Thread, Place
<1>2. QED
  BY <1>1, CaptureTypeStep, PTL DEF Spec

-----------------------------------------------------------------------------
(* What the safety properties rest on. *)

(* The life of a camera.  Its requests are with it only while it is heard  *)
(* and runs, or is being stopped; and behind the loop of stopCams, and in  *)
(* its second half, no camera runs.                                        *)
AtWork(c) ==
  \/ stat[c] = "RCrunning"
  \/ main = "draining" /\ cam = c

HeldByCamera ==
  \A r \in Request :
    place[r] \in {"camera", "completing"} => AtWork(CameraOf(r))

Working ==
  \A r \in Request :
    AtWork(CameraOf(r)) => r \in live /\ CameraOf(r) \in connected

(* startCams has started the cameras behind its loop, stopCams has not yet *)
(* stopped those ahead of its own.                                         *)
RunningAhead ==
  \A c \in Camera :
    /\ main = "starting" /\ c < cam => stat[c] = "RCrunning"
    /\ main = "queueing" /\ c <= cam => stat[c] = "RCrunning"
    /\ main = "capturing" => stat[c] = "RCrunning"
    /\ main = "stop" /\ c >= cam => stat[c] = "RCrunning"
    /\ main \in {"draining", "disconnect", "clear", "clearing", "release"}
         /\ c > cam => stat[c] = "RCrunning"

StoppedBehind ==
  /\ main = "capturing" => cam = 1
  /\ \A c \in Camera :
       /\ main \in {"stop", "draining"} /\ c < cam => stat[c] # "RCrunning"
       /\ main \in {"draining", "disconnect", "clear", "clearing", "release"}
            /\ c <= cam => stat[c] # "RCrunning"
       /\ main \in {"ending", "join", "done"} => stat[c] # "RCrunning"

(* camera_stop_mutex_: whoever is past the test of stat in queueRequest    *)
(* holds it alone, and the camera still runs.                              *)
MutexHeld ==
  /\ \A r \in Request :
       place[r] = "requeueing" =>
         /\ stopMutex # "None"
         /\ stat[CameraOf(r)] = "RCrunning"
         /\ \A q \in Request : place[q] = "requeueing" => q = r
  /\ main = "draining" =>
       /\ stopMutex = "main"
       /\ \A r \in Request : place[r] # "requeueing"

(* startCams: a request whose camera has not been reached is untouched.    *)
NotYetMade ==
  \A r \in Request :
    /\ main = "starting" /\ CameraOf(r) >= cam => place[r] = "idle"
    /\ main = "queueing" /\ CameraOf(r) > cam => place[r] = "idle"

(* Between Clear and the destruction of the requests of a camera no        *)
(* message of this camera can be posted any more.                          *)
ReleasedHaveNoMessage ==
  main = "release" =>
    \A i \in 1..Len(msgs) :
      msgs[i].type = "RequestComplete" => CameraOf(msgs[i].request) # cam

CamerasInv ==
  /\ HeldByCamera
  /\ Working
  /\ RunningAhead
  /\ StoppedBehind
  /\ MutexHeld
  /\ NotYetMade

MessagesInv == MessagesAreLive /\ ReleasedHaveNoMessage

-----------------------------------------------------------------------------
(* The message at the head of the queue, and those that stay behind it.    *)
LEMMA FirstMessage ==
  ASSUME TypeOK, MessagesAreLive, msgs # <<>>
  PROVE  /\ Head(msgs).type = "RequestComplete" =>
              /\ Head(msgs).request \in Request
              /\ Head(msgs).request \in live
              /\ place[Head(msgs).request] = "queue"
              /\ \A i \in 1..Len(Tail(msgs)) :
                   Tail(msgs)[i].type = "RequestComplete"
                     => Tail(msgs)[i].request # Head(msgs).request
         /\ \A i \in 1..Len(Tail(msgs)) :
              i + 1 \in 1..Len(msgs) /\ Tail(msgs)[i] = msgs[i + 1]
<1>1. /\ Len(msgs) \in Nat \ {0}
      /\ Head(msgs) = msgs[1] /\ Head(msgs) \in Msg
      /\ Len(Tail(msgs)) = Len(msgs) - 1
      /\ \A i \in 1..Len(Tail(msgs)) : Tail(msgs)[i] = msgs[i + 1]
  BY EmptySeq, HeadTailProperties, LenProperties DEF TypeOK
<1>2. Head(msgs).type = "RequestComplete" => Head(msgs).request \in Request
  BY <1>1, MessageTypes
<1>3. QED
  BY <1>1, <1>2 DEF MessagesAreLive

(* queueRequest, whichever thread runs it. *)
LEMMA QueueRequestStep ==
  ASSUME TypeOK, CamerasInv,
         NEW t \in Thread, NEW r \in Request,
         \/ place[r] \in {"video", "queue"} /\ QueueRequestBegins(t, r)
         \/ QueueRequestEnds(t, r) /\ main # "draining",
         UNCHANGED <<stat, connected, live, main, cam>>
  PROVE  CamerasInv'
<1> USE RequestOfCamera DEF CamerasInv, TypeOK, AtWork, Thread, Place
<1>1. HeldByCamera'
  BY DEF HeldByCamera, MutexHeld, QueueRequestBegins, QueueRequestEnds
<1>2. Working'
  BY DEF Working
<1>a. RunningAhead'
  BY DEF RunningAhead
<1>3. StoppedBehind'
  BY DEF StoppedBehind
<1>4. MutexHeld'
  BY DEF MutexHeld, QueueRequestBegins, QueueRequestEnds, CanLockStop
<1>5. NotYetMade'
  BY DEF NotYetMade, QueueRequestBegins, QueueRequestEnds
<1>6. QED
  BY <1>1, <1>2, <1>3, <1>4, <1>5, <1>a

(* Every step keeps what is known of the cameras, their requests and       *)
(* mutexes.                                                                *)
LEMMA CamerasStep == TypeOK /\ CamerasInv /\ MessagesInv /\ [Next]_vars => CamerasInv'
<1> SUFFICES ASSUME TypeOK, CamerasInv, MessagesInv, [Next]_vars
             PROVE  CamerasInv'
  OBVIOUS
<1> USE RequestOfCamera, SizeAssumption
    DEF CamerasInv, HeldByCamera, Working, RunningAhead, StoppedBehind,
        MutexHeld, NotYetMade,
        AtWork, TypeOK, Camera, MainStage, Thread, Place
<1>1. ASSUME NEW r \in Request, CameraFinishes(r)
      PROVE  CamerasInv'
  BY <1>1 DEF CameraFinishes
<1>2. ASSUME NEW r \in Request, requestComplete(r)
      PROVE  CamerasInv'
  <2>1. /\ place[r] = "completing"
        /\ place' \in {[place EXCEPT ![r] = p] : p \in {"idle", "queue"}}
        /\ UNCHANGED <<stat, connected, live, stopMutex, main, cam>>
    BY <1>2 DEF requestComplete, Post
  <2>2. PICK p \in {"idle", "queue"} : place' = [place EXCEPT ![r] = p]
    BY <2>1
  <2>3. /\ place'[r] = p /\ \A q \in Request \ {r} : place'[q] = place[q]
        /\ p \notin {"camera", "completing", "requeueing", "fresh"}
    BY <2>2
  <2>4. HeldByCamera' /\ Working' /\ RunningAhead' /\ StoppedBehind'
    BY <2>1, <2>3
  <2>5. MutexHeld'
    BY <2>1, <2>3
  <2>6. NotYetMade'
    BY <2>1, <2>3
  <2>7. QED
    BY <2>4, <2>5, <2>6
<1>3. CASE VideoLoop
  BY <1>3 DEF VideoLoop
<1>4. CASE VideoGets
  <2>1. Head(msgs).type = "RequestComplete" =>
          Head(msgs).request \in Request /\ place[Head(msgs).request] = "queue"
    BY <1>4, FirstMessage DEF MessagesInv, VideoGets
  <2>2. UNCHANGED <<stat, connected, live, stopMutex, main, cam>>
    BY <1>4 DEF VideoGets
  <2>3. CASE Head(msgs).type = "RequestComplete"
    <3> DEFINE r == Head(msgs).request
    <3>1. r \in Request /\ place[r] = "queue"
      BY <2>1, <2>3
    <3>2. place'[r] = "video" /\ \A q \in Request \ {r} : place'[q] = place[q]
      BY <1>4, <2>3, <3>1 DEF VideoGets
    <3> HIDE DEF r
    <3>3. HeldByCamera' /\ Working' /\ RunningAhead' /\ StoppedBehind'
      BY <2>2, <3>1, <3>2
    <3>4. MutexHeld' /\ NotYetMade'
      BY <2>2, <3>1, <3>2
    <3>5. QED
      BY <3>3, <3>4
  <2>4. CASE Head(msgs).type # "RequestComplete"
    <3>1. UNCHANGED place
      BY <1>4, <2>4 DEF VideoGets
    <3>2. QED
      BY <2>2, <3>1
  <2>5. QED
    BY <2>3, <2>4
<1>5. ASSUME NEW r \in Request, VideoProcesses(r)
      PROVE  CamerasInv'
  BY <1>5 DEF VideoProcesses
<1>6. ASSUME NEW r \in Request, VideoDeletes(r)
      PROVE  CamerasInv'
  <2>1. main = "draining" => ~QueueRequestEnds("video", r)
    BY DEF QueueRequestEnds
  <2>2. QED
    BY <1>6, <2>1, QueueRequestStep DEF VideoDeletes
<1>7. CASE StartCamera
  BY <1>7 DEF StartCamera, OfCam
<1>8. CASE \E r \in Request : QueueFresh(r)
  BY <1>8 DEF QueueFresh, OfCam
<1>9. CASE CameraStarted
  BY <1>9 DEF CameraStarted, Advance
<1>10. CASE FreeCapture
  BY <1>10 DEF FreeCapture
<1>11. CASE StopCamera
  <2>0. main' = "draining" /\ cam' = cam /\ main = "stop"
    BY <1>11 DEF StopCamera
  <2>a. \A c \in Camera : stat'[c] = "RCrunning" => stat[c] = "RCrunning"
    BY <1>11 DEF StopCamera
  <2>b. \A c \in Camera : stat[c] = "RCrunning" => AtWork(c)'
    BY <1>11 DEF StopCamera
  <2>c. \A c \in Camera : AtWork(c)' => stat[c] = "RCrunning" \/ c = cam
    BY <2>0, <2>a
  <2>1. HeldByCamera'
    BY <1>11, <2>b DEF StopCamera
  <2>d. Working'
    BY <1>11, <2>c DEF StopCamera
  <2>f. RunningAhead'
    BY <1>11 DEF StopCamera
  <2>e. NotYetMade'
    BY <1>11 DEF StopCamera
  <2>2. StoppedBehind'
    BY <1>11 DEF StopCamera
  <2>3. MutexHeld'
    BY <1>11 DEF StopCamera, CanLockStop
  <2>4. QED
    BY <2>1, <2>2, <2>3, <2>d, <2>e, <2>f
<1>12. CASE CameraStopped
  BY <1>12 DEF CameraStopped, OfCam
<1>13. CASE Disconnect
  <2>0. main' = "clear" /\ cam' = cam /\ stat[cam] # "RCrunning"
    BY <1>13 DEF Disconnect
  <2>1. \A c \in Camera : stat'[c] = "RCrunning" <=> stat[c] = "RCrunning"
    BY <1>13, <2>0 DEF Disconnect
  <2>2. \A r \in Request : AtWork(CameraOf(r))' => stat[CameraOf(r)] = "RCrunning"
    BY <1>13, <2>1 DEF Disconnect
  <2>3. HeldByCamera' /\ NotYetMade' /\ MutexHeld'
    BY <1>13, <2>1 DEF Disconnect
  <2>4. Working'
    BY <1>13, <2>0, <2>2 DEF Disconnect
  <2>5. RunningAhead' /\ StoppedBehind'
    BY <1>13, <2>1 DEF Disconnect
  <2>6. QED
    BY <2>3, <2>4, <2>5
<1>14. CASE ClearBegins \/ ClearDropsEmpty \/ ClearEnds
  <2>1. /\ main \in {"clear", "clearing"} /\ main' \in {"clearing", "release"}
        /\ UNCHANGED <<stat, connected, live, place, stopMutex, cam>>
    BY <1>14 DEF ClearBegins, ClearDropsEmpty, ClearEnds
  <2>2. QED
    BY <2>1
<1>15. CASE ClearDeletes
  <2>1. msgs # <<>> /\ Head(msgs).type = "RequestComplete" =>
          Head(msgs).request \in Request /\ place[Head(msgs).request] = "queue"
    BY FirstMessage DEF MessagesInv
  <2>2. QED
    BY <1>15, <2>1, QueueRequestStep DEF ClearDeletes
<1>16. CASE ReleaseRequests
  BY <1>16 DEF ReleaseRequests, Advance, OfCam
<1>17. CASE StopThreads \/ PostQuit
  BY <1>17 DEF StopThreads, PostQuit
<1>18. CASE JoinVideo
  BY <1>18 DEF JoinVideo
<1>19. CASE Throws
  BY <1>19 DEF Throws
<1>20. CASE UNCHANGED vars
  BY <1>20 DEF vars
<1>21. QED
  BY <1>1, <1>2, <1>3, <1>4, <1>5, <1>6, <1>7, <1>8, <1>9, <1>10, <1>11, <1>12,
     <1>13, <1>14, <1>15, <1>16, <1>17, <1>18, <1>19, <1>20
     DEF Next, VideoStep, StartStep, StopStep

(* The messages.  A request whose message is posted comes from a camera    *)
(* that runs or is being stopped, and so is alive, and of no camera whose  *)
(* requests are being destroyed.                                           *)
LEMMA MessagesStep == TypeOK /\ CamerasInv /\ MessagesInv /\ [Next]_vars => MessagesInv'
<1> SUFFICES ASSUME TypeOK, CamerasInv, MessagesInv, [Next]_vars
             PROVE  MessagesInv'
  OBVIOUS
<1> USE DEF MessagesInv, MessagesAreLive, ReleasedHaveNoMessage
(* Steps that leave the messages, and what they say, alone. *)
<1>a. ASSUME UNCHANGED <<msgs, live, cam>>, main' = "release" => main = "release",
             \A r \in Request : place[r] = "queue" => place'[r] = "queue"
      PROVE  MessagesInv'
  <2>1. \A i \in 1..Len(msgs) : msgs[i].type = "RequestComplete" => msgs[i].request \in Request
    BY MessageTypes DEF TypeOK
  <2>2. QED
    BY <1>a, <2>1
(* Steps that take the first message. *)
<1>b. ASSUME msgs # <<>>, msgs' = Tail(msgs), UNCHANGED <<live, cam, main>>,
             \A r \in Request :
               place[r] = "queue" => \/ place'[r] = "queue"
                                    \/ /\ Head(msgs).type = "RequestComplete"
                                       /\ r = Head(msgs).request
      PROVE  MessagesInv'
  <2>1. /\ \A i \in 1..Len(msgs') :
              i + 1 \in 1..Len(msgs) /\ msgs'[i] = msgs[i + 1]
        /\ Head(msgs).type = "RequestComplete" =>
             \A i \in 1..Len(msgs') :
               msgs'[i].type = "RequestComplete"
                 => msgs'[i].request # Head(msgs).request
    BY <1>b, FirstMessage
  <2>2. \A i \in 1..Len(msgs) : msgs[i].type = "RequestComplete" => msgs[i].request \in Request
    BY MessageTypes DEF TypeOK
  <2>3. MessagesAreLive'
    <3> SUFFICES ASSUME NEW i \in 1..Len(msgs'), msgs'[i].type = "RequestComplete"
                 PROVE  /\ msgs'[i].request \in live'
                        /\ place'[msgs'[i].request] = "queue"
                        /\ \A j \in 1..Len(msgs') :
                             msgs'[j].type = "RequestComplete"
                               /\ msgs'[j].request = msgs'[i].request => i = j
      BY DEF MessagesAreLive
    <3>1. i \in Nat /\ i + 1 \in 1..Len(msgs) /\ msgs'[i] = msgs[i + 1]
      BY <2>1
    <3>2. /\ msgs[i + 1].request \in live
          /\ place[msgs[i + 1].request] = "queue"
          /\ msgs[i + 1].request \in Request
      BY <2>2, <3>1
    <3>3. place'[msgs'[i].request] = "queue"
      BY <1>b, <2>1, <3>1, <3>2
    <3>4. ASSUME NEW j \in 1..Len(msgs'), msgs'[j].type = "RequestComplete",
                 msgs'[j].request = msgs'[i].request
          PROVE  i = j
      <4>1. j \in Nat /\ j + 1 \in 1..Len(msgs) /\ msgs'[j] = msgs[j + 1]
        BY <2>1
      <4>2. i + 1 = j + 1
        BY <3>1, <3>4, <4>1
      <4>3. QED
        BY <3>1, <4>1, <4>2
    <3>5. QED
      BY <1>b, <3>1, <3>2, <3>3, <3>4
  <2>4. ReleasedHaveNoMessage'
    BY <1>b, <2>1
  <2>5. QED
    BY <2>3, <2>4
(* Steps that add a message. *)
<1>c. ASSUME NEW m \in Msg, msgs' = Append(msgs, m), UNCHANGED <<live, cam>>,
             main' = "release" => main = "release",
             \A r \in Request : place[r] = "queue" => place'[r] = "queue",
             m.type = "RequestComplete" =>
               /\ m.request \in live
               /\ place[m.request] # "queue" /\ place'[m.request] = "queue"
               /\ main = "release" => CameraOf(m.request) # cam
      PROVE  MessagesInv'
  <2>1. /\ Len(msgs) \in Nat /\ Len(msgs') = Len(msgs) + 1
        /\ msgs'[Len(msgs) + 1] = m
        /\ \A i \in 1..Len(msgs) : msgs'[i] = msgs[i]
    BY <1>c, AppendProperties, LenProperties DEF TypeOK
  <2>2. \A i \in 1..Len(msgs) : msgs[i].type = "RequestComplete" => msgs[i].request \in Request
    BY MessageTypes DEF TypeOK
  <2>3. \A i \in 1..Len(msgs') : i \in 1..Len(msgs) \/ i = Len(msgs) + 1
    BY <2>1
  <2>4. QED
    BY <1>c, <2>1, <2>2, <2>3
<1> HIDE DEF MessagesInv, MessagesAreLive, ReleasedHaveNoMessage
<1>1. ASSUME NEW r \in Request, CameraFinishes(r)
      PROVE  MessagesInv'
  BY <1>1, <1>a DEF CameraFinishes, TypeOK
<1>2. ASSUME NEW r \in Request, requestComplete(r)
      PROVE  MessagesInv'
  <2>1. CASE status[r] = "Cancelled"
    <3>1. CASE stat[CameraOf(r)] = "RCrunning"
      <4>1. msgs' = Append(msgs, [type |-> "Timeout"])
        BY <1>2, <2>1, <3>1 DEF requestComplete, Post
      <4>2. QED
        BY <1>2, <1>c, <2>1, <4>1, MessageTypes DEF requestComplete, TypeOK
    <3>2. CASE stat[CameraOf(r)] # "RCrunning"
      <4>1. UNCHANGED msgs
        BY <1>2, <2>1, <3>2 DEF requestComplete
      <4>2. QED
        BY <1>2, <1>a, <2>1, <4>1 DEF requestComplete, TypeOK
    <3>3. QED
      BY <3>1, <3>2
  <2>2. CASE status[r] = "Complete"
    <3> DEFINE m == [type |-> "RequestComplete", request |-> r]
    <3>1. m \in Msg /\ m.request = r
      BY MessageTypes
    <3>2. msgs' = Append(msgs, m)
      BY <1>2, <2>2 DEF requestComplete, Post
    <3>3. /\ place[r] = "completing"
          /\ place' = [place EXCEPT ![r] = "queue"]
          /\ UNCHANGED <<live, main, cam>>
      BY <1>2, <2>2 DEF requestComplete, Post
    <3>4. AtWork(CameraOf(r)) /\ r \in live
      BY <3>3 DEF CamerasInv, HeldByCamera, Working
    <3>5. main = "release" => CameraOf(r) # cam
      BY <3>4, RequestOfCamera, SizeAssumption
         DEF CamerasInv, StoppedBehind, AtWork, TypeOK, Camera
    <3> HIDE DEF m
    <3>6. QED
      BY <1>c, <3>1, <3>2, <3>3, <3>4, <3>5 DEF TypeOK
  <2>3. status[r] \in {"Cancelled", "Complete"}
    BY <1>2 DEF requestComplete, Post
  <2>4. QED
    BY <2>1, <2>2, <2>3
<1>3. CASE VideoLoop
  BY <1>3, <1>a DEF VideoLoop
<1>4. CASE VideoGets
  BY <1>4, <1>b DEF VideoGets, TypeOK
<1>5. ASSUME NEW r \in Request, VideoProcesses(r)
      PROVE  MessagesInv'
  BY <1>5, <1>a DEF VideoProcesses
<1>6. ASSUME NEW r \in Request, VideoDeletes(r)
      PROVE  MessagesInv'
  BY <1>6, <1>a DEF VideoDeletes, QueueRequestBegins, QueueRequestEnds, TypeOK
<1>7. CASE StartCamera
  <2>1. \A i \in 1..Len(msgs) : msgs[i].type = "RequestComplete" =>
          msgs[i].request \in Request /\ msgs[i].request \notin OfCam
    <3>1. cam >= cam
      BY SizeAssumption DEF TypeOK, Camera
    <3>2. \A r \in Request : CameraOf(r) = cam => place[r] = "idle"
      BY <1>7, <3>1 DEF StartCamera, CamerasInv, NotYetMade
    <3>3. QED
      BY <3>2, MessageTypes DEF OfCam, MessagesInv, MessagesAreLive, TypeOK
  <2>2. QED
    BY <1>7, <2>1 DEF StartCamera, MessagesInv, MessagesAreLive, ReleasedHaveNoMessage
<1>8. CASE \E r \in Request : QueueFresh(r)
  BY <1>8, <1>a DEF QueueFresh, TypeOK
<1>9. CASE CameraStarted
  BY <1>9 DEF CameraStarted, Advance, MessagesInv, MessagesAreLive, ReleasedHaveNoMessage
<1>10. CASE FreeCapture \/ StopCamera \/ CameraStopped \/ Disconnect \/ ClearBegins
  BY <1>10, <1>a DEF FreeCapture, StopCamera, CameraStopped, Disconnect, ClearBegins
<1>11. CASE ClearDropsEmpty
  BY <1>11, <1>b DEF ClearDropsEmpty
<1>12. CASE ClearDeletes
  <2>1. CASE UNCHANGED msgs
    BY <1>12, <1>a, <2>1 DEF ClearDeletes, QueueRequestEnds, TypeOK
  <2>2. CASE /\ msgs # <<>>
             /\ Head(msgs).type = "RequestComplete"
             /\ QueueRequestBegins("main", Head(msgs).request)
             /\ msgs' = Tail(msgs)
    BY <1>12, <1>b, <2>2 DEF ClearDeletes, QueueRequestBegins, TypeOK
  <2>3. QED
    BY <1>12, <2>1, <2>2 DEF ClearDeletes
<1>13. CASE ClearEnds
  BY <1>13 DEF ClearEnds, MessagesInv, MessagesAreLive, ReleasedHaveNoMessage
<1>14. CASE ReleaseRequests
  BY <1>14 DEF ReleaseRequests, Advance, OfCam, MessagesInv, MessagesAreLive,
               ReleasedHaveNoMessage
<1>15. CASE StopThreads
  BY <1>15, <1>a DEF StopThreads
<1>16. CASE PostQuit
  BY <1>16, <1>c, MessageTypes DEF PostQuit, Post
<1>17. CASE JoinVideo
  BY <1>17, <1>a DEF JoinVideo
<1>18. CASE Throws
  BY <1>18, <1>a DEF Throws
<1>19. CASE UNCHANGED vars
  BY <1>19, <1>a DEF vars
<1>20. QED
  BY <1>1, <1>2, <1>3, <1>4, <1>5, <1>6, <1>7, <1>8, <1>9, <1>10, <1>11, <1>12,
     <1>13, <1>14, <1>15, <1>16, <1>17, <1>18, <1>19
     DEF Next, VideoStep, StartStep, StopStep

(* The cameras and the messages agree in every reachable state. *)
LEMMA RequestsInvHolds == Spec => [](CamerasInv /\ MessagesInv)
<1>1. Init => CamerasInv /\ MessagesInv
  BY RequestOfCamera, SizeAssumption
     DEF Init, CamerasInv, HeldByCamera, Working, RunningAhead, StoppedBehind,
         MutexHeld, NotYetMade, AtWork, Camera, MessagesInv, MessagesAreLive,
         ReleasedHaveNoMessage
<1>2. TypeOK /\ CamerasInv /\ MessagesInv /\ [Next]_vars => (CamerasInv /\ MessagesInv)'
  BY CamerasStep, MessagesStep
<1>3. QED
  BY <1>1, <1>2, CaptureTypeCorrect, PTL DEF Spec

(* queueRequest and Camera::stop never meet: a request is in a camera only *)
(* while the camera runs or is cancelling, and is heard.                   *)
THEOREM QueuedOnlyWhileRunningHolds == Spec => []QueuedOnlyWhileRunning
<1>1. CamerasInv => QueuedOnlyWhileRunning
  BY DEF CamerasInv, HeldByCamera, Working, AtWork, QueuedOnlyWhileRunning
<1>2. QED
  BY <1>1, RequestsInvHolds, PTL

(* msg_queue_ never names a destroyed request, nor one request twice.      *)
THEOREM MessagesAreLiveHolds == Spec => []MessagesAreLive
<1>1. MessagesInv => MessagesAreLive
  BY DEF MessagesInv
<1>2. QED
  BY <1>1, RequestsInvHolds, PTL

-----------------------------------------------------------------------------
(* Only a cancelled request leaves the circulation of a running camera:    *)
(* queueRequest lets go of a request only if its camera does not run, and  *)
(* a camera that has been stopped is not started again.                    *)

(* Once the cameras idle a step leaves no message but timeouts. *)
LEMMA OnlyTimeoutsStep ==
  TypeOK /\ CamerasInv /\ MessagesInv /\ OnlyTimeoutsIdle /\ [Next]_vars
    => OnlyTimeoutsIdle'
<1> SUFFICES ASSUME TypeOK, CamerasInv, MessagesInv, OnlyTimeoutsIdle, [Next]_vars
             PROVE  OnlyTimeoutsIdle'
  OBVIOUS
<1> USE RequestOfCamera DEF OnlyTimeoutsIdle, TypeOK, Camera, Place
<1>1. ASSUME NEW r \in Request, CameraFinishes(r)
      PROVE  OnlyTimeoutsIdle'
  BY <1>1 DEF CameraFinishes
<1>2. ASSUME NEW r \in Request, requestComplete(r)
      PROVE  OnlyTimeoutsIdle'
  <2>1. /\ UNCHANGED <<live, stat>>
        /\ \/ /\ status[r] = "Cancelled"
              /\ place' = [place EXCEPT ![r] = "idle"]
              /\ UNCHANGED status
           \/ /\ place' = [place EXCEPT ![r] = "queue"]
              /\ status' = [status EXCEPT ![r] = "Pending"]
    BY <1>2 DEF requestComplete, Post
  <2>2. QED
    BY <2>1
<1>3. CASE VideoGets
  <2>1. Head(msgs).type = "RequestComplete" => Head(msgs).request \in Request
    BY <1>3, FirstMessage DEF MessagesInv, VideoGets
  <2>2. QED
    BY <1>3, <2>1 DEF VideoGets
<1>4. ASSUME NEW r \in Request, VideoDeletes(r)
      PROVE  OnlyTimeoutsIdle'
  BY <1>4 DEF VideoDeletes, QueueRequestBegins, QueueRequestEnds
<1>5. CASE ClearDeletes
  <2>1. msgs # <<>> /\ Head(msgs).type = "RequestComplete" =>
          Head(msgs).request \in Request
    BY FirstMessage DEF MessagesInv
  <2>2. QED
    BY <1>5, <2>1 DEF ClearDeletes, QueueRequestBegins, QueueRequestEnds
<1>6. CASE StartCamera
  BY <1>6 DEF StartCamera, OfCam
<1>7. CASE \E r \in Request : QueueFresh(r)
  BY <1>7 DEF QueueFresh
<1>8. CASE CameraStarted \/ FreeCapture \/ StopCamera \/ CameraStopped \/ Disconnect
  BY <1>8 DEF CameraStarted, FreeCapture, StopCamera, CameraStopped, Disconnect
<1>9. CASE ClearBegins \/ ClearDropsEmpty \/ ClearEnds \/ ReleaseRequests
  BY <1>9 DEF ClearBegins, ClearDropsEmpty, ClearEnds, ReleaseRequests
<1>10. CASE StopThreads \/ PostQuit \/ JoinVideo
  BY <1>10 DEF StopThreads, PostQuit, JoinVideo
<1>11. CASE VideoLoop \/ (\E r \in Request : VideoProcesses(r)) \/ Throws
  BY <1>11 DEF VideoLoop, VideoProcesses, Throws
<1>12. CASE UNCHANGED vars
  BY <1>12 DEF vars
<1>13. QED
  BY <1>1, <1>2, <1>3, <1>4, <1>5, <1>6, <1>7, <1>8, <1>9, <1>10, <1>11, <1>12
     DEF Next, VideoStep, StartStep, StopStep

(* A running camera loses a request to a device timeout only.              *)
THEOREM OnlyTimeoutsIdleHolds == Spec => []OnlyTimeoutsIdle
<1>1. Init => OnlyTimeoutsIdle
  BY DEF Init, OnlyTimeoutsIdle
<1>2. QED
  BY <1>1, OnlyTimeoutsStep, CaptureTypeCorrect, RequestsInvHolds, PTL DEF Spec

-----------------------------------------------------------------------------
(* Where the requests are, and who is to take them on from there.          *)

(* A request has the place "queue" if, and because, a message names it.    *)
QueuedHaveMessage ==
  \A r \in Request :
    place[r] = "queue" =>
      \E i \in 1..Len(msgs) :
        msgs[i].type = "RequestComplete" /\ msgs[i].request = r

(* startCams: what it has not reached is not there yet, and what is fresh  *)
(* is of the camera it is at.                                              *)
NotYetStarted ==
  \A r \in Request :
    (main = "starting" /\ CameraOf(r) >= cam) \/ (main = "queueing" /\ CameraOf(r) > cam)
      => stat[CameraOf(r)] # "RCrunning" /\ r \notin live

FreshAreMade ==
  \A r \in Request :
    place[r] = "fresh" => r \in live /\ main = "queueing" /\ CameraOf(r) = cam

ReturnedHaveStatus ==
  \A r \in Request :
    place[r] = "completing" => status[r] \in {"Cancelled", "Complete"}

Requeueing == \E r \in Request : place[r] = "requeueing"

(* The video thread has the request it works on, and who has the mutex is  *)
(* about to give it back.                                                  *)
VideoHasRequest ==
  /\ (video = "process") \/ (video = "delete" /\ stopMutex # "video") =>
       \E r \in Request : place[r] = "video"
  /\ stopMutex = "video" => video = "delete" /\ Requeueing
  /\ stopMutex = "main" => main = "draining" \/ (main = "clearing" /\ Requeueing)

(* Quit is posted after stop_threads_ is set: a thread that was already    *)
(* waiting for a message gets one.                                         *)
QuitComes ==
  /\ main \in {"join", "done"} => stopThreads
  /\ main = "join" /\ video = "get" => msgs # <<>>

PlacesInv ==
  /\ QueuedHaveMessage
  /\ NotYetStarted
  /\ FreshAreMade
  /\ ReturnedHaveStatus
  /\ VideoHasRequest
  /\ QuitComes


(* Taking a message that is not about a request leaves the message of that *)
(* request in the queue.                                                   *)
LEMMA FirstFreed ==
  ASSUME TypeOK, QueuedHaveMessage, msgs # <<>>,
         NEW r \in Request, place[r] = "queue",
         ~(Head(msgs).type = "RequestComplete" /\ Head(msgs).request = r)
  PROVE  \E i \in 1..Len(Tail(msgs)) :
           Tail(msgs)[i].type = "RequestComplete" /\ Tail(msgs)[i].request = r
<1>1. PICK k \in 1..Len(msgs) : msgs[k].type = "RequestComplete" /\ msgs[k].request = r
  BY DEF QueuedHaveMessage
<1>2. /\ Len(msgs) \in Nat \ {0} /\ Head(msgs) = msgs[1]
      /\ Len(Tail(msgs)) = Len(msgs) - 1
      /\ \A i \in 1..Len(Tail(msgs)) : Tail(msgs)[i] = msgs[i + 1]
  BY EmptySeq, HeadTailProperties, LenProperties DEF TypeOK
<1>3. k # 1
  BY <1>1, <1>2
<1>4. k - 1 \in 1..Len(Tail(msgs)) /\ Tail(msgs)[k - 1] = msgs[k]
  BY <1>2, <1>3
<1>5. QED
  BY <1>1, <1>4

(* Every step keeps a message for each queued request. *)
LEMMA QueuedStep ==
  TypeOK /\ CamerasInv /\ MessagesInv /\ QueuedHaveMessage /\ [Next]_vars
    => QueuedHaveMessage'
<1> SUFFICES ASSUME TypeOK, CamerasInv, MessagesInv, QueuedHaveMessage, [Next]_vars
             PROVE  QueuedHaveMessage'
  OBVIOUS
(* Steps that put no request in the queue, nor touch the messages. *)
<1>a. ASSUME UNCHANGED msgs, \A r \in Request : place'[r] = "queue" => place[r] = "queue"
      PROVE  QueuedHaveMessage'
  BY <1>a DEF QueuedHaveMessage
(* Steps that take the first message, and the request it names. *)
<1>b. ASSUME msgs # <<>>, msgs' = Tail(msgs),
             \A r \in Request : place'[r] = "queue" => place[r] = "queue",
             Head(msgs).type = "RequestComplete" => place'[Head(msgs).request] # "queue"
      PROVE  QueuedHaveMessage'
  BY <1>b, FirstFreed DEF QueuedHaveMessage
(* Steps that add a message. *)
<1>c. ASSUME NEW m \in Msg, msgs' = Append(msgs, m),
             \A r \in Request :
               place'[r] = "queue" => \/ place[r] = "queue"
                                      \/ m.type = "RequestComplete" /\ m.request = r
      PROVE  QueuedHaveMessage'
  <2>1. /\ Len(msgs) \in Nat /\ Len(msgs') = Len(msgs) + 1
        /\ msgs'[Len(msgs) + 1] = m
        /\ \A i \in 1..Len(msgs) : msgs'[i] = msgs[i]
    BY <1>c, AppendProperties, LenProperties DEF TypeOK
  <2>2. Len(msgs) + 1 \in 1..Len(msgs') /\ \A i \in 1..Len(msgs) : i \in 1..Len(msgs')
    BY <2>1
  <2>3. QED
    BY <1>c, <2>1, <2>2 DEF QueuedHaveMessage
<1>1. ASSUME NEW r \in Request, CameraFinishes(r)
      PROVE  QueuedHaveMessage'
  BY <1>1, <1>a DEF CameraFinishes, TypeOK
<1>2. ASSUME NEW r \in Request, requestComplete(r)
      PROVE  QueuedHaveMessage'
  <2>1. CASE status[r] = "Cancelled"
    <3>1. place' = [place EXCEPT ![r] = "idle"]
      BY <1>2, <2>1 DEF requestComplete
    <3>2. msgs' = Append(msgs, [type |-> "Timeout"]) \/ UNCHANGED msgs
      BY <1>2, <2>1 DEF requestComplete, Post
    <3>3. QED
      BY <1>a, <1>c, <3>1, <3>2, MessageTypes DEF TypeOK
  <2>2. CASE status[r] = "Complete"
    <3> DEFINE m == [type |-> "RequestComplete", request |-> r]
    <3>1. m \in Msg /\ m.type = "RequestComplete" /\ m.request = r
      BY MessageTypes
    <3>2. msgs' = Append(msgs, m)
      BY <1>2, <2>2 DEF requestComplete, Post
    <3>3. place' = [place EXCEPT ![r] = "queue"]
      BY <1>2, <2>2 DEF requestComplete
    <3> HIDE DEF m
    <3>4. QED
      BY <1>c, <3>1, <3>2, <3>3 DEF TypeOK
  <2>3. QED
    BY <1>2, <2>1, <2>2 DEF requestComplete, Post
<1>3. CASE VideoGets
  <2>1. Head(msgs).type = "RequestComplete" => Head(msgs).request \in Request
    BY <1>3, FirstMessage DEF MessagesInv, VideoGets
  <2>2. msgs # <<>> /\ msgs' = Tail(msgs)
    BY <1>3 DEF VideoGets
  <2>3. \/ /\ Head(msgs).type = "RequestComplete"
           /\ place' = [place EXCEPT ![Head(msgs).request] = "video"]
        \/ Head(msgs).type # "RequestComplete" /\ UNCHANGED place
    BY <1>3 DEF VideoGets
  <2>4. QED
    BY <1>b, <2>1, <2>2, <2>3 DEF TypeOK
<1>4. ASSUME NEW r \in Request, VideoDeletes(r)
      PROVE  QueuedHaveMessage'
  BY <1>4, <1>a DEF VideoDeletes, QueueRequestBegins, QueueRequestEnds, TypeOK
<1>5. CASE StartCamera
  BY <1>5, <1>a DEF StartCamera
<1>6. CASE \E r \in Request : QueueFresh(r)
  BY <1>6, <1>a DEF QueueFresh, TypeOK
<1>7. CASE ClearDropsEmpty
  BY <1>7, <1>b DEF ClearDropsEmpty
<1>8. CASE ClearDeletes
  <2>1. CASE UNCHANGED msgs
    BY <1>8, <1>a, <2>1 DEF ClearDeletes, QueueRequestBegins, QueueRequestEnds, TypeOK
  <2>2. CASE /\ msgs # <<>>
             /\ Head(msgs).type = "RequestComplete"
             /\ QueueRequestBegins("main", Head(msgs).request)
             /\ msgs' = Tail(msgs)
    <3>1. Head(msgs).request \in Request
      BY <2>2, FirstMessage DEF MessagesInv
    <3>2. QED
      BY <1>b, <2>2, <3>1 DEF QueueRequestBegins, TypeOK
  <2>3. QED
    BY <1>8, <2>1, <2>2 DEF ClearDeletes
<1>9. CASE PostQuit
  BY <1>9, <1>c, MessageTypes DEF PostQuit, Post
<1>10. CASE UNCHANGED <<msgs, place>>
  BY <1>10, <1>a
<1>11. QED
  BY <1>1, <1>2, <1>3, <1>4, <1>5, <1>6, <1>7, <1>8, <1>9, <1>10
     DEF Next, vars, VideoStep, VideoLoop, VideoProcesses, StartStep, CameraStarted,
         FreeCapture, StopStep, StopCamera, CameraStopped, Disconnect, ClearBegins,
         ClearEnds, ReleaseRequests, StopThreads, JoinVideo, Throws

(* Who takes a request out of which place: the steps that matter to the    *)
(* places, whatever else they do.                                          *)
LEMMA StartedStep ==
  TypeOK /\ CamerasInv /\ MessagesInv /\ NotYetStarted /\ FreshAreMade
    /\ ReturnedHaveStatus /\ [Next]_vars
    => (NotYetStarted /\ FreshAreMade /\ ReturnedHaveStatus)'
<1> SUFFICES ASSUME TypeOK, CamerasInv, MessagesInv, NotYetStarted, FreshAreMade,
                    ReturnedHaveStatus, [Next]_vars
             PROVE  NotYetStarted' /\ FreshAreMade' /\ ReturnedHaveStatus'
  OBVIOUS
<1> USE RequestOfCamera, SizeAssumption
    DEF NotYetStarted, FreshAreMade, ReturnedHaveStatus, TypeOK, Camera
<1>1. ASSUME NEW r \in Request, CameraFinishes(r)
      PROVE  NotYetStarted' /\ FreshAreMade' /\ ReturnedHaveStatus'
  BY <1>1 DEF CameraFinishes
<1>2. ASSUME NEW r \in Request, requestComplete(r)
      PROVE  NotYetStarted' /\ FreshAreMade' /\ ReturnedHaveStatus'
  <2>1. /\ UNCHANGED <<stat, live, main, cam>>
        /\ \A q \in Request : place'[q] \in {"fresh", "completing"} => place'[q] = place[q] /\ q # r
        /\ \A q \in Request \ {r} : status'[q] = status[q]
    BY <1>2 DEF requestComplete
  <2>2. QED
    BY <2>1
<1>3. CASE VideoGets
  <2>1. Head(msgs).type = "RequestComplete" => Head(msgs).request \in Request
    BY <1>3, FirstMessage DEF MessagesInv, VideoGets
  <2>2. /\ UNCHANGED <<stat, live, main, cam, status>>
        /\ \A q \in Request : place'[q] \in {"fresh", "completing"} => place'[q] = place[q]
    BY <1>3, <2>1 DEF VideoGets
  <2>3. QED
    BY <2>2
<1>4. ASSUME NEW r \in Request, VideoDeletes(r)
      PROVE  NotYetStarted' /\ FreshAreMade' /\ ReturnedHaveStatus'
  BY <1>4 DEF VideoDeletes, QueueRequestBegins, QueueRequestEnds
<1>5. CASE StartCamera
  BY <1>5 DEF StartCamera, OfCam
<1>6. CASE \E r \in Request : QueueFresh(r)
  BY <1>6 DEF QueueFresh
<1>7. CASE CameraStarted
  BY <1>7 DEF CameraStarted, Advance, OfCam, Place
<1>8. CASE FreeCapture \/ StopCamera \/ CameraStopped \/ Disconnect \/ ClearBegins
           \/ ClearDropsEmpty \/ ClearEnds
  BY <1>8 DEF FreeCapture, StopCamera, CameraStopped, Disconnect, ClearBegins,
              ClearDropsEmpty, ClearEnds
<1>9. CASE ClearDeletes
  <2>1. msgs # <<>> /\ Head(msgs).type = "RequestComplete" => Head(msgs).request \in Request
    BY FirstMessage DEF MessagesInv
  <2>2. QED
    BY <1>9, <2>1 DEF ClearDeletes, QueueRequestBegins, QueueRequestEnds
<1>10. CASE ReleaseRequests
  BY <1>10 DEF ReleaseRequests, Advance
<1>11. CASE StopThreads \/ PostQuit \/ JoinVideo
  BY <1>11 DEF StopThreads, PostQuit, JoinVideo
<1>12. CASE VideoLoop \/ (\E r \in Request : VideoProcesses(r)) \/ Throws
  BY <1>12 DEF VideoLoop, VideoProcesses, Throws
<1>13. CASE UNCHANGED vars
  BY <1>13 DEF vars
<1>14. QED
  BY <1>1, <1>2, <1>3, <1>4, <1>5, <1>6, <1>7, <1>8, <1>9, <1>10, <1>11, <1>12, <1>13
     DEF Next, VideoStep, StartStep, StopStep

(* A queue to which a message was just added is not empty. *)
LEMMA AddedNotEmpty ==
  ASSUME TypeOK, NEW m \in Msg
  PROVE  Append(msgs, m) # <<>>
<1>1. Len(Append(msgs, m)) = Len(msgs) + 1 /\ Len(msgs) \in Nat /\ Len(<<>>) = 0
  BY AppendProperties, LenProperties, EmptySeq DEF TypeOK
<1>2. QED
  BY <1>1

(* Every step keeps the request in the video thread's hand, and the quit   *)
(* that ends it.                                                           *)
LEMMA VideoHasStep ==
  TypeOK /\ CamerasInv /\ MessagesInv /\ VideoHasRequest /\ QuitComes /\ [Next]_vars
    => (VideoHasRequest /\ QuitComes)'
<1> SUFFICES ASSUME TypeOK, CamerasInv, MessagesInv, VideoHasRequest, QuitComes, [Next]_vars
             PROVE  VideoHasRequest' /\ QuitComes'
  OBVIOUS
<1> USE RequestOfCamera, SizeAssumption
    DEF VideoHasRequest, QuitComes, Requeueing, TypeOK, Camera, Thread
(* Steps that leave the threads alone, and the requests they hold.         *)
<1>a. ASSUME UNCHANGED <<video, stopMutex, main, stopThreads>>,
             \A r \in Request : place[r] \in {"video", "requeueing"} => place'[r] = place[r],
             msgs # <<>> => msgs' # <<>>
      PROVE  VideoHasRequest' /\ QuitComes'
  BY <1>a
<1>1. ASSUME NEW r \in Request, CameraFinishes(r)
      PROVE  VideoHasRequest' /\ QuitComes'
  BY <1>1, <1>a DEF CameraFinishes
<1>2. ASSUME NEW r \in Request, requestComplete(r)
      PROVE  VideoHasRequest' /\ QuitComes'
  <2>1. msgs # <<>> => msgs' # <<>>
    <3>1. \A m \in Msg : Append(msgs, m) # <<>>
      BY AddedNotEmpty
    <3>2. [type |-> "Timeout"] \in Msg /\ [type |-> "RequestComplete", request |-> r] \in Msg
      BY MessageTypes
    <3>3. QED
      BY <1>2, <3>1, <3>2 DEF requestComplete, Post
  <2>2. \A q \in Request : place[q] \in {"video", "requeueing"} => place'[q] = place[q]
    BY <1>2 DEF requestComplete
  <2>3. QED
    BY <1>2, <1>a, <2>1, <2>2 DEF requestComplete
<1>3. CASE VideoLoop
  BY <1>3 DEF VideoLoop
<1>4. CASE VideoGets
  <2>1. Head(msgs).type = "RequestComplete" => Head(msgs).request \in Request
    BY <1>4, FirstMessage DEF MessagesInv, VideoGets
  <2>2. Head(msgs).type = "RequestComplete" => place[Head(msgs).request] = "queue"
    BY <1>4, FirstMessage DEF MessagesInv, VideoGets
  <2>3. stopMutex # "video"
    BY <1>4 DEF VideoGets
  <2>4. QED
    BY <1>4, <2>1, <2>2, <2>3 DEF VideoGets, NextStage
<1>5. ASSUME NEW r \in Request, VideoProcesses(r)
      PROVE  VideoHasRequest' /\ QuitComes'
  BY <1>5 DEF VideoProcesses
<1>6. ASSUME NEW r \in Request, VideoDeletes(r)
      PROVE  VideoHasRequest' /\ QuitComes'
  BY <1>6 DEF VideoDeletes, QueueRequestBegins, QueueRequestEnds, CanLockStop
<1>7. CASE StartCamera
  BY <1>7, <1>a DEF StartCamera, OfCam, CamerasInv, NotYetMade, MutexHeld
<1>8. CASE \E r \in Request : QueueFresh(r)
  BY <1>8, <1>a DEF QueueFresh
<1>9. CASE CameraStarted \/ ReleaseRequests
  BY <1>9 DEF CameraStarted, ReleaseRequests, Advance
<1>10. CASE FreeCapture \/ StopCamera \/ CameraStopped \/ Disconnect
  BY <1>10 DEF FreeCapture, StopCamera, CameraStopped, Disconnect, CanLockStop,
               CamerasInv, MutexHeld
<1>11. CASE ClearBegins \/ ClearDropsEmpty \/ ClearEnds
  BY <1>11 DEF ClearBegins, ClearDropsEmpty, ClearEnds
<1>12. CASE ClearDeletes
  <2>1. msgs # <<>> /\ Head(msgs).type = "RequestComplete" =>
          Head(msgs).request \in Request /\ place[Head(msgs).request] = "queue"
    BY FirstMessage DEF MessagesInv
  <2>2. QED
    BY <1>12, <2>1 DEF ClearDeletes, QueueRequestBegins, QueueRequestEnds, CanLockStop
<1>13. CASE StopThreads
  BY <1>13 DEF StopThreads
<1>14. CASE PostQuit
  <2>1. [type |-> "Quit"] \in Msg
    BY MessageTypes
  <2>2. \A m \in Msg : Append(msgs, m) # <<>>
    BY AddedNotEmpty
  <2>3. msgs' # <<>>
    BY <1>14, <2>1, <2>2 DEF PostQuit, Post
  <2>4. QED
    BY <1>14, <2>3 DEF PostQuit
<1>15. CASE JoinVideo
  BY <1>15 DEF JoinVideo
<1>16. CASE Throws
  BY <1>16 DEF Throws
<1>17. CASE UNCHANGED vars
  BY <1>17 DEF vars
<1>18. QED
  BY <1>1, <1>2, <1>3, <1>4, <1>5, <1>6, <1>7, <1>8, <1>9, <1>10, <1>11, <1>12, <1>13,
     <1>14, <1>15, <1>16, <1>17 DEF Next, VideoStep, StartStep, StopStep

(* The places of the requests are as described in every reachable state.   *)
LEMMA PlacesInvHolds == Spec => [](CamerasInv /\ MessagesInv /\ PlacesInv)
<1>1. Init => PlacesInv
  BY RequestOfCamera DEF Init, PlacesInv, QueuedHaveMessage, NotYetStarted, FreshAreMade,
     ReturnedHaveStatus, VideoHasRequest, QuitComes
<1>2. TypeOK /\ CamerasInv /\ MessagesInv /\ PlacesInv /\ [Next]_vars => PlacesInv'
  BY QueuedStep, StartedStep, VideoHasStep DEF PlacesInv
<1>3. QED
  BY <1>1, <1>2, CaptureTypeCorrect, RequestsInvHolds, PTL DEF Spec

(* A request FreeCapture has destroyed is referred to by nobody but the    *)
(* video thread, for the frame in its hand.                                *)
THEOREM OnlyVideoHoldsDestroyedHolds == Spec => []OnlyVideoHoldsDestroyed
<1>1. TypeOK /\ CamerasInv /\ MessagesInv /\ PlacesInv => OnlyVideoHoldsDestroyed
  <2> SUFFICES ASSUME TypeOK, CamerasInv, MessagesInv, PlacesInv,
                      NEW r \in Request, r \notin live
               PROVE  place[r] \in {"idle", "video"}
    BY DEF OnlyVideoHoldsDestroyed, MessagesInv
  <2>1. ~AtWork(CameraOf(r))
    BY DEF CamerasInv, Working
  <2>2. place[r] \notin {"camera", "completing", "requeueing"}
    BY <2>1 DEF CamerasInv, HeldByCamera, MutexHeld, AtWork
  <2>3. place[r] # "queue"
    BY DEF PlacesInv, QueuedHaveMessage, MessagesInv, MessagesAreLive
  <2>4. place[r] # "fresh"
    BY DEF PlacesInv, FreshAreMade
  <2>5. QED
    BY <2>2, <2>3, <2>4 DEF TypeOK, Place
<1>2. QED
  BY <1>1, CaptureTypeCorrect, PlacesInvHolds, PTL

(* FreeCapture never waits for a thread that waits in turn. *)
THEOREM NeverStuckHolds == Spec => []NeverStuck
<1>1. TypeOK /\ CamerasInv /\ PlacesInv => NeverStuck
  <2> SUFFICES ASSUME TypeOK, CamerasInv, PlacesInv, outcome = "ok",
                      main \notin {"starting", "queueing", "capturing", "done"},
                      ~MainCanStep
               PROVE  \/ main \in {"stop", "clearing", "join"} /\ VideoCanStep
                      \/ main = "draining" /\ CamerasCanStep
    BY DEF NeverStuck
  <2> USE DEF TypeOK, Thread, MainCanStep, PlacesInv
  <2>1. main \in {"stop", "draining", "clearing", "join"}
    BY DEF MainStage
  <2>2. CASE main = "stop"
    BY <2>2 DEF VideoHasRequest, Requeueing, VideoCanStep
  <2>3. CASE main = "draining"
    BY <2>3 DEF OfCam, ReturnedHaveStatus, CamerasCanStep, MsgMutexFree
  <2>4. CASE main = "clearing"
    <3>1. stopMutex # "main"
      BY <2>4 DEF VideoHasRequest, Requeueing
    <3>2. stopMutex # "None"
      BY <2>4, <3>1
    <3>3. QED
      BY <2>4, <3>1, <3>2 DEF VideoHasRequest, Requeueing, VideoCanStep
  <2>5. CASE main = "join"
    <3>1. stopMutex # "main"
      BY <2>5 DEF VideoHasRequest
    <3>2. video = "delete" /\ stopMutex = "video" => Requeueing
      BY DEF VideoHasRequest
    <3>3. QED
      BY <2>5, <3>1, <3>2 DEF VideoHasRequest, Requeueing, QuitComes, VideoCanStep, MsgMutexFree
  <2>6. QED
    BY <2>1, <2>2, <2>3, <2>4, <2>5
<1>2. QED
  BY <1>1, CaptureTypeCorrect, PlacesInvHolds, PTL

-----------------------------------------------------------------------------
(* Refinement: RCam keeps to libcamera's contract. *)

(* What the refinement mapping gives for one camera. *)
LEMMA ContractSets ==
  /\ \A c \in Camera :
       [d \in Camera |-> {r \in Request : CameraOf(r) = d}][c] = {r \in Request : CameraOf(r) = c}
  /\ \A c \in Camera :
       CameraState[c] = IF stat[c] = "RCrunning" THEN "running"
                        ELSE IF main = "draining" /\ cam = c THEN "stopping"
                        ELSE "stopped"
BY DEF CameraState

(* Every step of RCam is a step that libcamera permits, or none of its     *)
(* business.                                                               *)
LEMMA ContractStep ==
  TypeOK /\ CamerasInv /\ MessagesInv /\ PlacesInv /\ [Next]_vars
    => [Contract!ContractNext]_(Contract!contractVars)
<1> SUFFICES ASSUME TypeOK, CamerasInv, MessagesInv, PlacesInv, [Next]_vars
             PROVE  Contract!ContractNext \/ UNCHANGED Contract!contractVars
  OBVIOUS
<1> USE RequestOfCamera, SizeAssumption, ContractSets
    DEF TypeOK, CamerasInv, PlacesInv
<1>c. cam \in Camera
  OBVIOUS
(* Steps the contract does not see. *)
<1>a. ASSUME UNCHANGED <<connected, live>>, CameraState' = CameraState,
             CamerasHave' = CamerasHave
      PROVE  UNCHANGED Contract!contractVars
  BY <1>a DEF Contract!contractVars
<1>b. ASSUME UNCHANGED <<stat, cam>>, main' = "draining" <=> main = "draining"
      PROVE  CameraState' = CameraState
  BY <1>b DEF CameraState
<1>1. ASSUME NEW r \in Request, CameraFinishes(r)
      PROVE  UNCHANGED Contract!contractVars
  <2>1. CamerasHave' = CamerasHave
    BY <1>1 DEF CameraFinishes, CamerasHave
  <2>2. QED
    BY <1>1, <1>a, <1>b, <2>1 DEF CameraFinishes
<1>2. ASSUME NEW r \in Request, requestComplete(r)
      PROVE  Contract!ContractNext
  <2>1. place[r] = "completing" /\ CamerasHave' = CamerasHave \ {r}
    BY <1>2 DEF requestComplete, CamerasHave
  <2>2. /\ AtWork(CameraOf(r)) /\ r \in CamerasHave
        /\ r \in live /\ CameraOf(r) \in connected
    BY <2>1 DEF HeldByCamera, Working, CamerasHave
  <2>3. CameraState[CameraOf(r)] \in {"running", "stopping"}
    BY <2>2 DEF AtWork
  <2>4. UNCHANGED <<connected, live>> /\ CameraState' = CameraState
    BY <1>2, <1>b DEF requestComplete
  <2>5. Contract!ComesBack(CameraOf(r), r)
    BY <2>1, <2>2, <2>3, <2>4 DEF Contract!ComesBack
  <2>6. QED
    BY <2>5 DEF Contract!ContractNext
(* Into the camera, by startCams or by queueRequest. *)
<1>d. ASSUME NEW r \in Request, stat[CameraOf(r)] = "RCrunning", r \in live,
             place[r] \in {"fresh", "requeueing"}, place' = [place EXCEPT ![r] = "camera"],
             UNCHANGED <<stat, connected, live, main, cam>>
      PROVE  Contract!ContractNext
  <2>1. CamerasHave' = CamerasHave \cup {r} /\ r \notin CamerasHave
    BY <1>d DEF CamerasHave
  <2>2. CameraState[CameraOf(r)] = "running" /\ CameraState' = CameraState
    BY <1>b, <1>d
  <2>3. Contract!Queue(CameraOf(r), r)
    BY <1>d, <2>1, <2>2 DEF Contract!Queue
  <2>4. QED
    BY <2>3 DEF Contract!ContractNext
<1>3. ASSUME NEW t \in Thread, NEW r \in Request, QueueRequestEnds(t, r),
             UNCHANGED <<stat, connected, live, main, cam>>
      PROVE  Contract!ContractNext
  <2>1. stat[CameraOf(r)] = "RCrunning" /\ r \in live
    BY <1>3 DEF QueueRequestEnds, MutexHeld, Working, AtWork
  <2>2. QED
    BY <1>3, <1>d, <2>1 DEF QueueRequestEnds
<1>4. ASSUME NEW t \in Thread, NEW r \in Request, QueueRequestBegins(t, r),
             place[r] \in {"video", "queue"},
             UNCHANGED <<stat, connected, live, main, cam>>
      PROVE  UNCHANGED Contract!contractVars
  <2>1. CamerasHave' = CamerasHave
    BY <1>4 DEF QueueRequestBegins, CamerasHave
  <2>2. QED
    BY <1>4, <1>a, <1>b, <2>1
<1>5. CASE VideoLoop \/ (\E r \in Request : VideoProcesses(r)) \/ FreeCapture
           \/ ClearBegins \/ ClearDropsEmpty \/ ClearEnds \/ StopThreads \/ PostQuit \/ Throws
  <2>1. UNCHANGED <<stat, cam, place, connected, live>> /\ (main' = "draining" <=> main = "draining")
    BY <1>5 DEF VideoLoop, VideoProcesses, FreeCapture, ClearBegins, ClearDropsEmpty,
                ClearEnds, StopThreads, PostQuit, Throws
  <2>2. CamerasHave' = CamerasHave
    BY <2>1 DEF CamerasHave
  <2>3. QED
    BY <1>a, <1>b, <2>1, <2>2
<1>6. CASE VideoGets
  <2>1. Head(msgs).type = "RequestComplete" =>
          Head(msgs).request \in Request /\ place[Head(msgs).request] = "queue"
    BY <1>6, FirstMessage DEF MessagesInv, VideoGets
  <2>2. CamerasHave' = CamerasHave
    BY <1>6, <2>1 DEF VideoGets, CamerasHave
  <2>3. QED
    BY <1>6, <1>a, <1>b, <2>2 DEF VideoGets
<1>7. ASSUME NEW r \in Request, VideoDeletes(r)
      PROVE  Contract!ContractNext \/ UNCHANGED Contract!contractVars
  BY <1>3, <1>4, <1>7 DEF VideoDeletes, Thread
<1>8. CASE StartCamera
  <2>0. cam >= cam
    BY <1>c DEF Camera
  <2>1. /\ main = "starting" /\ main' = "queueing" /\ cam' = cam
        /\ stat' = [stat EXCEPT ![cam] = "RCrunning"]
        /\ live' = live \cup OfCam /\ connected' = connected \cup {cam}
        /\ place' = [r \in Request |-> IF r \in OfCam THEN "fresh" ELSE place[r]]
    BY <1>8 DEF StartCamera
  <2>2. \A r \in OfCam : r \notin live /\ place[r] = "idle"
    BY <2>0, <2>1 DEF OfCam, NotYetStarted, NotYetMade
  <2>3. stat[cam] # "RCrunning"
    <3>1. <<cam, 1>> \in Request /\ CameraOf(<<cam, 1>>) = cam
      BY <1>c DEF Request, CameraOf
    <3>2. QED
      BY <2>0, <2>1, <3>1 DEF NotYetStarted
  <2>4. CameraState[cam] = "stopped" /\ CameraState' = [CameraState EXCEPT ![cam] = "running"]
    BY <1>c, <2>1, <2>3 DEF CameraState
  <2>5. CamerasHave' = CamerasHave /\ OfCam \cap (live \cup CamerasHave) = {}
    BY <2>1, <2>2 DEF CamerasHave
  <2>6. OfCam = {r \in Request : CameraOf(r) = cam}
    BY DEF OfCam
  <2>7. Contract!Start(cam)
    BY <1>c, <2>1, <2>4, <2>5, <2>6 DEF Contract!Start, Contract!SetState
  <2>8. QED
    BY <1>c, <2>7 DEF Contract!ContractNext
<1>9. CASE \E r \in Request : QueueFresh(r)
  <2>1. PICK r \in Request : QueueFresh(r)
    BY <1>9
  <2>2. stat[CameraOf(r)] = "RCrunning" /\ r \in live
    BY <1>c, <2>1 DEF QueueFresh, OfCam, RunningAhead, FreshAreMade, Camera
  <2>3. QED
    BY <1>d, <2>1, <2>2 DEF QueueFresh
<1>10. CASE CameraStarted
  <2>1. UNCHANGED <<stat, connected, live, place>> /\ main # "draining" /\ main' # "draining"
    BY <1>10 DEF CameraStarted, Advance
  <2>2. CameraState' = CameraState /\ CamerasHave' = CamerasHave
    BY <2>1 DEF CameraState, CamerasHave
  <2>3. QED
    BY <1>a, <2>1, <2>2
<1>11. CASE StopCamera
  <2>0. cam >= cam
    BY <1>c DEF Camera
  <2>1. /\ main = "stop" /\ main' = "draining" /\ cam' = cam
        /\ stat' = [stat EXCEPT ![cam] = "RCstopping"]
        /\ UNCHANGED <<connected, live, place>>
    BY <1>11 DEF StopCamera
  <2>2. stat[cam] = "RCrunning"
    BY <1>c, <2>0, <2>1 DEF RunningAhead
  <2>3. CameraState[cam] = "running" /\ CameraState' = [CameraState EXCEPT ![cam] = "stopping"]
    BY <1>c, <2>1, <2>2 DEF CameraState
  <2>4. CamerasHave' = CamerasHave
    BY <2>1 DEF CamerasHave
  <2>5. Contract!StopBegins(cam)
    BY <2>1, <2>3, <2>4 DEF Contract!StopBegins, Contract!SetState
  <2>6. QED
    BY <1>c, <2>5 DEF Contract!ContractNext
<1>12. CASE CameraStopped
  <2>0. cam <= cam
    BY <1>c DEF Camera
  <2>1. /\ main = "draining" /\ main' = "disconnect" /\ UNCHANGED <<stat, connected, live, place, cam>>
        /\ \A r \in OfCam : place[r] \notin {"camera", "completing"}
    BY <1>12 DEF CameraStopped
  <2>2. stat[cam] # "RCrunning"
    BY <1>c, <2>0, <2>1 DEF StoppedBehind
  <2>3. CameraState[cam] = "stopping" /\ CameraState' = [CameraState EXCEPT ![cam] = "stopped"]
    BY <1>c, <2>1, <2>2 DEF CameraState
  <2>4. CamerasHave' = CamerasHave /\ {r \in Request : CameraOf(r) = cam} \cap CamerasHave = {}
    BY <2>1 DEF CamerasHave, OfCam
  <2>5. Contract!StopEnds(cam)
    BY <1>c, <2>1, <2>3, <2>4 DEF Contract!StopEnds, Contract!SetState
  <2>6. QED
    BY <1>c, <2>5 DEF Contract!ContractNext
<1>13. CASE Disconnect
  <2>0. cam <= cam
    BY <1>c DEF Camera
  <2>1. /\ main = "disconnect" /\ main' = "clear" /\ UNCHANGED <<live, place, cam>>
        /\ connected' = connected \ {cam}
        /\ stat' \in {stat, [stat EXCEPT ![cam] = "RCconfigured"]}
    BY <1>13 DEF Disconnect
  <2>2. stat[cam] # "RCrunning"
    BY <1>c, <2>0, <2>1 DEF StoppedBehind
  <2>3. CameraState[cam] = "stopped" /\ CameraState' = CameraState
    BY <1>c, <2>1, <2>2 DEF CameraState
  <2>4. CamerasHave' = CamerasHave
    BY <2>1 DEF CamerasHave
  <2>5. Contract!Disconnect(cam)
    BY <2>1, <2>3, <2>4 DEF Contract!Disconnect
  <2>6. QED
    BY <1>c, <2>5 DEF Contract!ContractNext
<1>14. CASE ClearDeletes
  <2>1. msgs # <<>> /\ Head(msgs).type = "RequestComplete" =>
          Head(msgs).request \in Request /\ place[Head(msgs).request] = "queue"
    BY FirstMessage DEF MessagesInv
  <2>2. "main" \in Thread /\ UNCHANGED <<stat, connected, live, main, cam>>
    BY <1>14 DEF ClearDeletes, Thread
  <2>3. QED
    BY <1>3, <1>4, <1>14, <2>1, <2>2 DEF ClearDeletes
<1>15. CASE ReleaseRequests
  <2>0. cam <= cam
    BY <1>c DEF Camera
  <2>1. /\ main = "release" /\ main' # "draining" /\ live' = live \ OfCam
        /\ UNCHANGED <<stat, connected, place>>
    BY <1>15 DEF ReleaseRequests, Advance
  <2>2. stat[cam] # "RCrunning"
    BY <1>c, <2>0, <2>1 DEF StoppedBehind
  <2>3. CameraState[cam] = "stopped" /\ CameraState' = CameraState
    BY <1>c, <2>1, <2>2 DEF CameraState
  <2>4. CamerasHave' = CamerasHave /\ OfCam \cap CamerasHave = {}
    BY <2>1, <2>2 DEF CamerasHave, OfCam, HeldByCamera, AtWork
  <2>5. OfCam = {r \in Request : CameraOf(r) = cam}
    BY DEF OfCam
  <2>6. Contract!Destroy(cam)
    BY <1>c, <2>1, <2>3, <2>4, <2>5 DEF Contract!Destroy
  <2>7. QED
    BY <1>c, <2>6 DEF Contract!ContractNext
<1>16. CASE JoinVideo
  <2>1. /\ main = "join" /\ main' = "done" /\ UNCHANGED <<connected, live, place, cam>>
        /\ stat' = [c \in Camera |-> "RCunknown"]
    BY <1>16 DEF JoinVideo
  <2>2. \A c \in Camera : stat[c] # "RCrunning"
    BY <2>1 DEF StoppedBehind
  <2>3. CameraState' = CameraState /\ CamerasHave' = CamerasHave
    BY <2>1, <2>2 DEF CameraState, CamerasHave
  <2>4. QED
    BY <1>a, <2>1, <2>3
<1>17. CASE UNCHANGED vars
  <2>1. CameraState' = CameraState /\ CamerasHave' = CamerasHave
    BY <1>17 DEF vars, CameraState, CamerasHave
  <2>2. QED
    BY <1>17, <1>a, <2>1 DEF vars
<1>18. QED
  BY <1>1, <1>2, <1>5, <1>6, <1>7, <1>8, <1>9, <1>10, <1>11, <1>12, <1>13, <1>14,
     <1>15, <1>16, <1>17 DEF Next, VideoStep, StartStep, StopStep

(* Every behaviour of RCam keeps to libcamera's contract: no request is    *)
(* queued that is destroyed, already queued or of a camera that is being   *)
(* stopped, and none is destroyed while its camera has it.                 *)
THEOREM RCamObeysContract == Spec => ObeysContract
<1>1. Init => Contract!ContractInit
  BY SizeAssumption DEF Init, CameraState, CamerasHave, Contract!ContractInit
<1>2. QED
  BY <1>1, ContractStep, CaptureTypeCorrect, PlacesInvHolds, PTL
     DEF Spec, ObeysContract, Contract!ContractSpec
=============================================================================
