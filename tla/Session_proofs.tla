--------------------------- MODULE Session_proofs ---------------------------
(***************************************************************************)
(* Proofs about Session with Logger and YouTube: its type invariant, its   *)
(* safety properties, what a step may do to the logs and to the            *)
(* broadcasts, for any number of generations, processes, cameras and       *)
(* broadcasts and for any times that satisfy TimeAssumption.               *)
(***************************************************************************)
EXTENDS Session, TLAPS

-----------------------------------------------------------------------------
(* What a step of the session is to the YouTube client and its server.     *)

AnswerTaken ==
  /\ answer = "ok"
  /\ answer' = "none"
  /\ inHand' = 0
  /\ UNCHANGED <<now, call, stage, waited, token, auth, dirs, codeAge, tries,
                 broadcasts, orphans, gaveUpEarly>>

ProcessGone ==
  /\ Forget
  /\ answer' = "none"
  /\ inHand' = 0
  /\ orphans' = orphans \cup ({inHand, strmID} \ {0})
  /\ UNCHANGED <<now, auth, dirs, broadcasts, gaveUpEarly>>

YouTubeMoves ==
  \/ YouTubeStep
  \/ Tick
  \/ Begin("StartStrm", 0)
  \/ Begin("StopStrm", strmID)
  \/ AnswerTaken
  \/ ProcessGone
  \/ UNCHANGED ytVars

-----------------------------------------------------------------------------
(* The parts of the inductive invariant. *)

(* The clock, the file of the token and the token. *)
TimesMatch ==
  /\ waited <= MaxDelay
  /\ waited <= now
  /\ codeAge <= now

FileKnowsAge ==
  \A p \in {"home", "etc"} :
    auth[p].state = "good" => auth[p].dies + MaxDelay >= auth[p].mtime + Life

TokenLasts ==
  /\ call = "none" => stage = "none"
  /\ stage \in {"write", "writing"} => token + waited = now + Life
  /\ stage \in {"insert", "stream", "bind", "complete"}
       => now + MaxDelay < token + waited

(* One sleep, at least an interval long, lies before every poll. *)
PollsInTime ==
  /\ stage = "sleep" => codeAge + tries >= Polls
  /\ stage = "poll" => codeAge + tries > Polls
  /\ ~gaveUpEarly

(* While a rotation is under way the number it renames to has been freed.  *)
RotationInv ==
  /\ LogsInOrder
  /\ logs[Generations + 1] = 0
  /\ rotating > 0 /\ rotating < Generations => logs[rotating] = 0
  /\ \A i \in LogIndex : logs[i] <= starts
  /\ main = "logging" => \A i \in LogIndex : logs[i] < starts

(* What the loops over the cameras have done so far. *)
Stopped(c) == stat[c] \in {"RCstopping", "RCconfigured"}

CamerasInv ==
  /\ main \in {"capturing", "outputsFree", "completing"} => cam = 1
  /\ \A c \in Camera :
       /\ main = "stopping" /\ c < cam => Stopped(c)
       /\ main \in {"outputsFree", "completing"} => Stopped(c)
       /\ main = "release" /\ c >= cam => Stopped(c)
       /\ main = "release" /\ c < cam => c \notin acquired /\ stat[c] = "RCavailable"
       /\ main = "freed" => c \notin acquired /\ stat[c] = "RCavailable"

(* Who holds the number of the broadcast. *)
CallMatches ==
  /\ call = "none" <=> stage = "none"
  /\ answer # "none" => call = "none"
  /\ call = "StartStrm" => main = "starting"
  /\ call = "StopStrm" => main = "completing"
  /\ answer # "none" => main \in {"starting", "completing"}
  /\ main \notin {"starting", "completing"} => inHand = 0
  /\ stage \in {"insert", "stream", "bind"} => call = "StartStrm"
  /\ stage = "complete" => call = "StopStrm"

BroadcastInv ==
  /\ CallMatches
  /\ OpenBroadcastIsKnown
  /\ call = "StartStrm" /\ stage \notin {"stream", "bind"} => inHand = 0
  /\ call = "StopStrm" => inHand = strmID
  /\ main = "completing" => strmID # 0
  /\ main = "completing" /\ call = "none" => inHand = 0
  /\ main = "completing" /\ answer = "ok" => broadcasts[strmID] # "open"
  /\ main \notin {"cams", "capturing", "stopping", "outputsFree", "completing"}
       => strmID = 0

-----------------------------------------------------------------------------
(* A step of the session is one of the few things YouTubeMoves lists. *)
LEMMA StepMovesYouTube == [Next]_vars => YouTubeMoves
<1> SUFFICES ASSUME [Next]_vars
             PROVE  YouTubeMoves
  OBVIOUS
<1>1. CASE Run \/ Log \/ CameraStep \/ CaptureEnds \/ Exit
  BY <1>1 DEF Run, Log, CameraStep, AcquireCamera, ConfigureCamera, StartCamera,
              StopCamera, ReleaseCamera, CaptureEnds, Exit, YouTubeMoves
<1>2. CASE StreamStep
  BY <1>2 DEF StreamStep, InitOutputs, StreamStarted, FreeOutputs, StreamStopped,
              YouTubeReturns, AnswerTaken, YouTubeMoves
<1>3. CASE Dies
  BY <1>3 DEF Dies, ProcessGone, YouTubeMoves
<1>4. CASE YouTubeStep \/ Tick
  BY <1>4 DEF YouTubeMoves
<1>5. CASE UNCHANGED vars
  BY <1>5 DEF vars, YouTubeMoves
<1>6. QED
  BY <1>1, <1>2, <1>3, <1>4, <1>5 DEF Next

(* Where the token is read and written. *)
LEMMA AuthPlaces ==
  /\ JsonReadPlace(HasAuth, FALSE) \in HasAuth \cup {"none"}
  /\ HasAuth \subseteq {"home", "etc"}
  /\ \A d \in SUBSET {"home", "etc"} : JsonWritePlace(d, FALSE) \in {"home", "etc", "none"}
  /\ \A d \in SUBSET {"home", "etc"} : DirsAfterWrite(d, FALSE) \in SUBSET {"home", "etc"}
<1>1. HasAuth \subseteq {"home", "etc"}
  BY DEF HasAuth
<1>2. JsonReadPlace(HasAuth, FALSE) \in HasAuth \cup {"none"}
  BY DEF JsonReadPlace
<1>3. \A d \in SUBSET {"home", "etc"} : JsonWritePlace(d, FALSE) \in {"home", "etc", "none"}
  BY DEF JsonWritePlace
<1>4. \A d \in SUBSET {"home", "etc"} : DirsAfterWrite(d, FALSE) \in SUBSET {"home", "etc"}
  BY DEF DirsAfterWrite
<1>5. QED
  BY <1>1, <1>2, <1>3, <1>4

-----------------------------------------------------------------------------
(* Types. *)

(* What TimeAssumption says of the numbers. *)
LEMMA Times ==
  /\ Life \in Nat /\ Margin \in Nat /\ MaxDelay \in Nat /\ Polls \in Nat
  /\ MaxTime \in Nat /\ MaxBroadcasts \in Nat
  /\ 2 * MaxDelay < Margin /\ Margin <= Life
BY TimeAssumption

(* YouTubeTypeOK, one variable at a time. *)
Numbers ==
  /\ now \in 0..MaxTime
  /\ waited \in 0..MaxTime /\ waited <= MaxDelay /\ waited <= now
  /\ codeAge \in 0..MaxTime /\ codeAge <= now
  /\ token \in 0..(MaxTime + Life)
  /\ tries \in 0..Polls
Places ==
  /\ auth \in [{"home", "etc"} -> AuthFile]
  /\ dirs \in SUBSET {"home", "etc"}
Flow ==
  /\ call \in {"none", "StartStrm", "StopStrm"}
  /\ stage \in {"none", "auth", "device", "sleep", "poll", "refresh", "write",
                "writing", "insert", "stream", "bind", "complete"}
  /\ answer \in {"none", "ok", "thrown"}
Server ==
  /\ broadcasts \in [Broadcast -> {"none", "open", "complete"}]
  /\ inHand \in 0..MaxBroadcasts
  /\ orphans \in SUBSET Broadcast
  /\ gaveUpEarly \in BOOLEAN

(* The type invariant of the client, one part of the state at a time. *)
LEMMA TypesByParts ==
  YouTubeTypeOK /\ TimesMatch <=> Numbers /\ Places /\ Flow /\ Server
BY DEF YouTubeTypeOK, TimesMatch, Numbers, Places, Flow, Server

(* Every move of the client and its server keeps their types. *)
LEMMA YouTubeTypeStep ==
  ASSUME YouTubeTypeOK, TimesMatch, strmID \in 0..MaxBroadcasts, YouTubeMoves
  PROVE  YouTubeTypeOK' /\ TimesMatch'
<1>1. Numbers /\ Places /\ Flow /\ Server
  BY TypesByParts
<1> USE Times DEF YouTubeMoves, YouTubeStep, Forget, GoOn, Throw, Returns, Issue
<1>2. Numbers'
  <2> USE <1>1 DEF Numbers
  <2>1. CASE ReadAuth
    <3>1. /\ \A p \in {"home", "etc"} : auth[p].dies \in 0..(MaxTime + Life)
          /\ JsonReadPlace(HasAuth, FALSE) # "none"
               => JsonReadPlace(HasAuth, FALSE) \in {"home", "etc"}
      BY AuthPlaces DEF Places, AuthFile
    <3>2. /\ UNCHANGED now
          /\ \/ UNCHANGED <<waited, codeAge, tries, token>>
             \/ waited' = 0 /\ codeAge' = 0 /\ tries' = 0 /\ token' = 0
             \/ /\ UNCHANGED <<waited, codeAge, tries>>
                /\ \E p \in {"home", "etc"} : token' = auth[p].dies
      BY <2>1, <3>1, Zenon DEF ReadAuth
    <3>3. QED
      BY <3>1, <3>2
  <2>2. CASE Sleep
    BY <2>2 DEF Sleep, SleepInterval
  <2>3. CASE Tick
    BY <2>3 DEF Tick
  <2>4. CASE AskDeviceCode \/ Authorised \/ Refresh
    BY <2>4 DEF AskDeviceCode, Authorised, Refresh
  <2>5. CASE Pending
    BY <2>5 DEF Pending
  <2>6. CASE WriteAuth \/ WriteAuthEnds
    <3>1. /\ UNCHANGED now
          /\ \/ UNCHANGED <<waited, codeAge, tries, token>>
             \/ waited' = 0 /\ codeAge' = 0 /\ tries' = 0 /\ token' = 0
      BY <2>6, Zenon DEF WriteAuth, WriteAuthEnds
    <3>2. QED
      BY <3>1
  <2>7. CASE InsertBroadcast \/ InsertStream \/ Bind \/ Complete \/ RequestFails
    BY <2>7 DEF InsertBroadcast, InsertStream, Bind, Complete, RequestFails
  <2>8. CASE Begin("StartStrm", 0) \/ Begin("StopStrm", strmID)
    BY <2>8 DEF Begin
  <2>9. CASE AnswerTaken \/ ProcessGone \/ UNCHANGED ytVars
    BY <2>9 DEF AnswerTaken, ProcessGone, ytVars
  <2>10. QED
    BY <2>1, <2>2, <2>3, <2>4, <2>5, <2>6, <2>7, <2>8, <2>9
<1>3. Places'
  <2> USE <1>1 DEF Places
  <2>1. CASE WriteAuth
    <3>1. Broken \in AuthFile
      BY DEF Broken, AuthFile
    <3>2. \/ UNCHANGED auth
          \/ \E p \in {"home", "etc"} : auth' = [auth EXCEPT ![p] = Broken]
      BY <2>1, AuthPlaces, Zenon DEF WriteAuth
    <3>3. dirs' \in SUBSET {"home", "etc"}
      BY <2>1, AuthPlaces DEF WriteAuth
    <3>4. QED
      BY <3>1, <3>2, <3>3
  <2>2. CASE WriteAuthEnds
    BY <2>2, AuthPlaces DEF WriteAuthEnds, AuthFile, Numbers
  <2>3. CASE ~(WriteAuth \/ WriteAuthEnds)
    BY <2>3 DEF ReadAuth, AskDeviceCode, Sleep, Authorised, Pending, Refresh,
                InsertBroadcast, InsertStream, Bind, Complete, RequestFails, Tick,
                Begin, AnswerTaken, ProcessGone, ytVars
  <2>4. QED
    BY <2>1, <2>2, <2>3
<1>4. Flow'
  <2> USE <1>1 DEF Flow
  <2>1. CASE ReadAuth \/ WriteAuth \/ WriteAuthEnds
    BY <2>1 DEF ReadAuth, WriteAuth, WriteAuthEnds, Request
  <2>2. CASE AskDeviceCode \/ Sleep \/ Authorised \/ Pending \/ Refresh \/ Tick
    BY <2>2 DEF AskDeviceCode, Sleep, Authorised, Pending, Refresh, Tick
  <2>3. CASE InsertBroadcast \/ InsertStream \/ Bind \/ Complete \/ RequestFails
    BY <2>3 DEF InsertBroadcast, InsertStream, Bind, Complete, RequestFails
  <2>4. CASE Begin("StartStrm", 0) \/ Begin("StopStrm", strmID) \/ AnswerTaken
    BY <2>4 DEF Begin, AnswerTaken
  <2>5. CASE ProcessGone \/ UNCHANGED ytVars
    BY <2>5 DEF ProcessGone, ytVars
  <2>6. QED
    BY <2>1, <2>2, <2>3, <2>4, <2>5
<1>5. Server'
  <2>1. Server
    BY <1>1
  <2>2. {inHand} \ {0} \subseteq Broadcast /\ {inHand, strmID} \ {0} \subseteq Broadcast
    BY <2>1 DEF Server, Broadcast
  <2>3. broadcasts' \in [Broadcast -> {"none", "open", "complete"}]
    <3>1. \/ UNCHANGED broadcasts
          \/ \E b \in Broadcast : broadcasts' = [broadcasts EXCEPT ![b] = "open"]
          \/ broadcasts' = [broadcasts EXCEPT ![inHand] = "complete"]
      BY Zenon DEF ReadAuth, AskDeviceCode, Sleep, Authorised, Pending, Refresh,
           WriteAuth, WriteAuthEnds, InsertBroadcast, InsertStream, Bind, Complete,
           RequestFails, Tick, Begin, AnswerTaken, ProcessGone, ytVars
    <3>2. QED
      BY <2>1, <3>1 DEF Server
  <2>4. inHand' \in 0..MaxBroadcasts
    <3>1. inHand' \in {inHand, 0, strmID} \cup Broadcast
      BY Zenon DEF ReadAuth, AskDeviceCode, Sleep, Authorised, Pending, Refresh,
           WriteAuth, WriteAuthEnds, InsertBroadcast, InsertStream, Bind, Complete,
           RequestFails, Tick, Begin, AnswerTaken, ProcessGone, ytVars
    <3>2. QED
      BY <2>1, <3>1 DEF Server, Broadcast
  <2>5. orphans' \in SUBSET Broadcast
    <3>1. \/ orphans' = orphans
          \/ orphans' = orphans \cup ({inHand} \ {0})
          \/ orphans' = orphans \cup ({inHand, strmID} \ {0})
          \/ \E b \in Broadcast : orphans' = orphans \cup {b}
      BY Zenon DEF ReadAuth, AskDeviceCode, Sleep, Authorised, Pending, Refresh,
           WriteAuth, WriteAuthEnds, InsertBroadcast, InsertStream, Bind, Complete,
           RequestFails, Tick, Begin, AnswerTaken, ProcessGone, ytVars
    <3>2. QED
      BY <2>1, <2>2, <3>1 DEF Server
  <2>6. gaveUpEarly' \in BOOLEAN
    <3>1. gaveUpEarly' = gaveUpEarly \/ gaveUpEarly' = (gaveUpEarly \/ codeAge <= Polls)
      BY Zenon DEF ReadAuth, AskDeviceCode, Sleep, Authorised, Pending, Refresh,
           WriteAuth, WriteAuthEnds, InsertBroadcast, InsertStream, Bind, Complete,
           RequestFails, Tick, Begin, AnswerTaken, ProcessGone, ytVars
    <3>2. QED
      BY <2>1, <3>1 DEF Server
  <2>7. QED
    BY <2>3, <2>4, <2>5, <2>6 DEF Server
<1>6. QED
  BY <1>2, <1>3, <1>4, <1>5
     DEF YouTubeTypeOK, TimesMatch, Numbers, Places, Flow, Server

ProcTypeOK ==
  /\ main \in {"down", "logging", "opening", "outputs", "starting", "cams",
               "capturing", "stopping", "outputsFree", "completing",
               "release", "freed"}
  /\ streams \in BOOLEAN
  /\ cam \in Camera
  /\ stat \in [Camera -> {"RCunknown", "RCavailable", "RCaquired",
                          "RCconfigured", "RCrunning", "RCstopping"}]
  /\ acquired \subseteq Camera
  /\ strmID \in 0..MaxBroadcasts

(* Every step keeps the type invariant of the logs. *)
LEMMA LogTypeStep == LogTypeOK /\ [Next]_vars => LogTypeOK'
<1> SUFFICES ASSUME LogTypeOK, [Next]_vars
             PROVE  LogTypeOK'
  OBVIOUS
<1> USE GenerationsAssumption DEF LogTypeOK, LogIndex
<1>1. CASE Run
  BY <1>1 DEF Run, StartLogging
<1>2. CASE Log
  <2>1. CASE RotateOne
    <3>1. logs' \in [LogIndex -> 0..MaxStarts]
      BY <2>1, SMTT(30) DEF RotateOne, Source
    <3>2. \/ UNCHANGED lost
          \/ lost' = lost \cup {j \in {rotating} : logs[j] # 0}
      BY <2>1 DEF RotateOne, Source
    <3>3. rotating' \in 0..(Generations + 1) /\ UNCHANGED starts
      BY <2>1 DEF RotateOne
    <3>4. lost' \subseteq LogIndex
      BY <3>2
    <3>5. QED
      BY <3>1, <3>3, <3>4
  <2>2. CASE OpenLog
    BY <2>2 DEF OpenLog
  <2>3. QED
    BY <1>2, <2>1, <2>2 DEF Log
<1>3. CASE Dies
  BY <1>3 DEF Dies
<1>4. CASE UNCHANGED logVars
  BY <1>4 DEF logVars
<1>5. QED
  BY <1>1, <1>2, <1>3, <1>4
     DEF Next, CameraStep, AcquireCamera, ConfigureCamera, StartCamera, StopCamera,
         ReleaseCamera, StreamStep, InitOutputs, StreamStarted, FreeOutputs,
         StreamStopped, YouTubeReturns, CaptureEnds, Exit, vars

(* Every step keeps the type invariant of the process. *)
LEMMA ProcTypeStep ==
  ProcTypeOK /\ YouTubeTypeOK /\ [Next]_vars => ProcTypeOK'
<1> SUFFICES ASSUME ProcTypeOK, YouTubeTypeOK, [Next]_vars
             PROVE  ProcTypeOK'
  OBVIOUS
<1>0. inHand \in 0..MaxBroadcasts /\ 0 \in 0..MaxBroadcasts /\ 1 \in Camera
  BY Times, CameraAssumption DEF YouTubeTypeOK, Camera
<1>a. cam < NumCameras => cam + 1 \in Camera
  BY CameraAssumption DEF ProcTypeOK, Camera
<1> USE DEF ProcTypeOK
<1>1. CASE Run \/ Log
  BY <1>1 DEF Run, Log
<1>2. CASE AcquireCamera
  BY <1>2 DEF AcquireCamera, SetStat
<1>3. CASE ConfigureCamera \/ StartCamera \/ StopCamera \/ ReleaseCamera
  BY <1>0, <1>3, <1>a DEF ConfigureCamera, StartCamera, StopCamera, ReleaseCamera,
                          SetStat, Advance
<1>4. CASE StreamStep
  BY <1>0, <1>4 DEF StreamStep, InitOutputs, StreamStarted, FreeOutputs,
                    StreamStopped, YouTubeReturns
<1>5. CASE CaptureEnds
  BY <1>5 DEF CaptureEnds
<1>6. CASE Exit \/ Dies
  BY <1>0, <1>6 DEF Exit, Dies, Ends
<1>7. CASE UNCHANGED procVars
  BY <1>7 DEF procVars
<1>8. QED
  BY <1>1, <1>2, <1>3, <1>4, <1>5, <1>6, <1>7 DEF Next, CameraStep, vars

SessionTypes == LogTypeOK /\ YouTubeTypeOK /\ TimesMatch /\ ProcTypeOK

(* All parts are typed in every reachable state. *)
LEMMA SessionTypesHold == Spec => []SessionTypes
<1>1. Init => SessionTypes
  <2> SUFFICES ASSUME Init
               PROVE  SessionTypes
    OBVIOUS
  <2>1. LogTypeOK
    BY GenerationsAssumption DEF Init, LogInit, LogTypeOK, LogIndex
  <2>2. YouTubeTypeOK /\ TimesMatch
    <3>1. Absent \in AuthFile
      BY Times DEF Absent, AuthFile
    <3>2. Numbers /\ Flow
      BY Times DEF Init, YouTubeInit, Numbers, Flow
    <3>3. Places
      BY <3>1 DEF Init, YouTubeInit, Places
    <3>a. Server
      <4>1. inHand \in 0..MaxBroadcasts
        BY Times DEF Init, YouTubeInit
      <4>2. QED
        BY <4>1 DEF Init, YouTubeInit, Server
    <3>4. QED
      BY <3>2, <3>3, <3>a, TypesByParts
  <2>3. ProcTypeOK
    BY Times, CameraAssumption DEF Init, ProcTypeOK, Camera
  <2>4. QED
    BY <2>1, <2>2, <2>3 DEF SessionTypes
<1>2. SessionTypes /\ [Next]_vars => SessionTypes'
  BY StepMovesYouTube, LogTypeStep, YouTubeTypeStep, ProcTypeStep
     DEF SessionTypes, ProcTypeOK
<1>3. QED
  BY <1>1, <1>2, PTL DEF Spec

(* Every variable of the process, the logs, the client and the server      *)
(* keeps its type; time in a call stays within the assumed delay.          *)
THEOREM SessionTypeCorrect == Spec => []TypeOK
<1>1. SessionTypes => TypeOK
  BY DEF SessionTypes, ProcTypeOK, TypeOK
<1>2. QED
  BY <1>1, SessionTypesHold, PTL

-----------------------------------------------------------------------------
(* The token. *)

(* Every move keeps the token at hand as fresh as its file says. *)
LEMMA FreshStep ==
  YouTubeTypeOK /\ TimesMatch /\ FileKnowsAge /\ TokenLasts /\ YouTubeMoves
    => FileKnowsAge' /\ TokenLasts'
<1> SUFFICES ASSUME YouTubeTypeOK, TimesMatch, FileKnowsAge, TokenLasts, YouTubeMoves
             PROVE  FileKnowsAge' /\ TokenLasts'
  OBVIOUS
<1>1. Numbers /\ Places /\ Flow
  BY TypesByParts
<1>2. /\ now \in Nat /\ waited \in Nat /\ token \in Nat
      /\ waited <= MaxDelay
      /\ \A p \in {"home", "etc"} :
           auth[p] \in AuthFile /\ auth[p].dies \in Nat /\ auth[p].mtime \in Nat
  BY <1>1, Times DEF Numbers, Places, AuthFile
<1> USE Times DEF FileKnowsAge, TokenLasts, Forget, GoOn, Throw, Returns, Issue
<1>3. CASE ReadAuth
  <2>1. UNCHANGED <<auth, now>>
    BY <1>3 DEF ReadAuth
  <2>a. call' = "none" => stage' = "none"
    BY <1>3 DEF ReadAuth
  <2>2. \/ stage' \in {"none", "device", "refresh"}
        \/ /\ UNCHANGED waited
           /\ \E p \in {"home", "etc"} :
                /\ auth[p].state = "good"
                /\ ~(now > RefreshTime(auth[p].mtime))
                /\ token' = auth[p].dies
    BY <1>3, AuthPlaces, Zenon DEF ReadAuth
  <2>3. FileKnowsAge'
    BY <2>1
  <2>4. TokenLasts'
    <3>1. CASE stage' \in {"none", "device", "refresh"}
      BY <2>a, <3>1
    <3>2. ASSUME NEW p \in {"home", "etc"}, UNCHANGED waited,
                 auth[p].state = "good", ~(now > RefreshTime(auth[p].mtime)),
                 token' = auth[p].dies
          PROVE  now + MaxDelay < token' + waited'
      <4>1. auth[p].dies + MaxDelay >= auth[p].mtime + Life
        BY <3>2
      <4>2. now <= auth[p].mtime + Life - Margin
        BY <1>2, <3>2 DEF RefreshTime
      <4>3. QED
        BY <1>2, <3>2, <4>1, <4>2
    <3>3. stage' \notin {"write", "writing"}
      BY <1>3 DEF ReadAuth, Request
    <3>4. QED
      BY <2>a, <2>1, <2>2, <3>1, <3>2, <3>3
  <2>5. QED
    BY <2>3, <2>4
<1>4. CASE WriteAuthEnds
  <2>1. UNCHANGED <<now, call, waited, token>> /\ stage = "writing"
    BY <1>4 DEF WriteAuthEnds
  <2>2. stage' \in {"insert", "complete"}
    BY <1>4 DEF WriteAuthEnds, Request
  <2>3. \E p \in {"home", "etc"} :
          auth' = [auth EXCEPT ![p] = [state |-> "good", mtime |-> now, dies |-> token]]
    BY <1>4, AuthPlaces DEF WriteAuthEnds
  <2>4. FileKnowsAge'
    BY <1>1, <1>2, <2>1, <2>3 DEF Places
  <2>5. TokenLasts'
    <3>1. now + MaxDelay < token + waited
      BY <1>2, <2>1
    <3>2. QED
      BY <2>1, <2>2, <3>1
  <2>6. QED
    BY <2>4, <2>5
<1>5. CASE WriteAuth
  <2>1. /\ UNCHANGED now /\ stage = "write"
        /\ \/ stage' = "none" /\ call' = "none"
           \/ stage' = "writing" /\ UNCHANGED <<call, waited, token>>
    BY <1>5 DEF WriteAuth
  <2>2. \/ UNCHANGED auth
        \/ \E p \in {"home", "etc"} : auth' = [auth EXCEPT ![p] = Broken]
    <3>1. dirs \in SUBSET {"home", "etc"}
      BY <1>1 DEF Places
    <3>2. JsonWritePlace(dirs, FALSE) \in {"home", "etc", "none"}
      BY <3>1, AuthPlaces
    <3>3. QED
      BY <1>5, <3>2, Zenon DEF WriteAuth
  <2>3. FileKnowsAge'
    BY <1>1, <2>2 DEF Places, Broken
  <2>4. TokenLasts'
    BY <2>1
  <2>5. QED
    BY <2>3, <2>4
<1>6. CASE AskDeviceCode \/ Sleep \/ Pending
  BY <1>6 DEF AskDeviceCode, Sleep, Pending
<1>7. CASE Authorised \/ Refresh
  BY <1>2, <1>7 DEF Authorised, Refresh
<1>8. CASE InsertBroadcast \/ InsertStream \/ Bind \/ Complete \/ RequestFails
  BY <1>8 DEF InsertBroadcast, InsertStream, Bind, Complete, RequestFails
<1>9. CASE Tick
  <2>1. /\ UNCHANGED <<stage, token, auth>> /\ now' = now + 1
        /\ \/ call = "none" /\ UNCHANGED waited
           \/ waited' = waited + 1
    BY <1>9 DEF Tick
  <2>2. UNCHANGED call
    BY <1>9 DEF Tick
  <2>3. QED
    BY <1>2, <2>1, <2>2
<1>10. CASE Begin("StartStrm", 0) \/ Begin("StopStrm", strmID)
  BY <1>10 DEF Begin
<1>11. CASE AnswerTaken \/ ProcessGone \/ UNCHANGED ytVars
  BY <1>11 DEF AnswerTaken, ProcessGone, ytVars
<1>12. QED
  BY <1>3, <1>4, <1>5, <1>6, <1>7, <1>8, <1>9, <1>10, <1>11
     DEF YouTubeMoves, YouTubeStep

(* Every request carries a token the server still accepts.  The file is at *)
(* most MaxDelay older than the token says, the call at most MaxDelay      *)
(* longer than its first look at the file, and the margin covers both.     *)
THEOREM TokenIsFreshHolds == Spec => []TokenIsFresh
<1>1. Init => FileKnowsAge /\ TokenLasts
  BY DEF Init, YouTubeInit, FileKnowsAge, TokenLasts, Absent
<1>2. SessionTypes /\ FileKnowsAge /\ TokenLasts /\ [Next]_vars
        => (FileKnowsAge /\ TokenLasts)'
  BY FreshStep, StepMovesYouTube DEF SessionTypes
<1>3. SessionTypes /\ TokenLasts => TokenIsFresh
  BY TypesByParts, Times DEF SessionTypes, Numbers, TokenLasts, TokenIsFresh
<1>4. QED
  BY <1>1, <1>2, <1>3, SessionTypesHold, PTL DEF Spec

-----------------------------------------------------------------------------
(* The device code. *)

(* Every move keeps the polls within the life of the code. *)
LEMMA PollsStep == YouTubeTypeOK /\ TimesMatch /\ PollsInTime /\ YouTubeMoves => PollsInTime'
<1> SUFFICES ASSUME YouTubeTypeOK, TimesMatch, PollsInTime, YouTubeMoves
             PROVE  PollsInTime'
  OBVIOUS
<1>1. codeAge \in Nat /\ tries \in Nat
  BY TypesByParts, Times DEF Numbers
<1> USE <1>1, Times DEF PollsInTime, Forget, GoOn, Throw, Returns, Issue
<1>2. CASE AskDeviceCode \/ Sleep
  BY <1>2 DEF AskDeviceCode, Sleep, SleepInterval
<1>p. CASE Pending
  <2>1. codeAge + tries > Polls
    BY <1>p DEF Pending
  <2>2. CASE tries = 0
    <3>1. ~(codeAge <= Polls)
      BY <2>1, <2>2
    <3>2. stage' = "none" /\ gaveUpEarly' = (gaveUpEarly \/ codeAge <= Polls)
      BY <1>p, <2>2 DEF Pending
    <3>3. ~gaveUpEarly'
      BY <3>1, <3>2, Zenon
    <3>4. QED
      BY <3>2, <3>3
  <2>3. CASE tries # 0
    BY <1>p, <2>1, <2>3 DEF Pending
  <2>4. QED
    BY <2>2, <2>3
<1>3. CASE Tick
  BY <1>3 DEF Tick
<1>4. CASE Begin("StartStrm", 0) \/ Begin("StopStrm", strmID)
  BY <1>4 DEF Begin
<1>5. CASE AnswerTaken \/ ProcessGone \/ UNCHANGED ytVars
  BY <1>5 DEF AnswerTaken, ProcessGone, ytVars
<1>6. CASE ReadAuth \/ Authorised \/ Refresh \/ WriteAuth \/ WriteAuthEnds
  <2>1. UNCHANGED gaveUpEarly /\ stage' \notin {"sleep", "poll"}
    BY <1>6 DEF ReadAuth, Authorised, Refresh, WriteAuth, WriteAuthEnds, Request
  <2>2. QED
    BY <2>1
<1>7. CASE InsertBroadcast \/ InsertStream \/ Bind \/ Complete \/ RequestFails
  <2>1. UNCHANGED gaveUpEarly /\ stage' \notin {"sleep", "poll"}
    BY <1>7 DEF InsertBroadcast, InsertStream, Bind, Complete, RequestFails
  <2>2. QED
    BY <2>1
<1>8. QED
  BY <1>2, <1>p, <1>3, <1>4, <1>5, <1>6, <1>7 DEF YouTubeMoves, YouTubeStep

(* The count of polls never ends before the code does. *)
THEOREM PollingOutlastsCodeHolds == Spec => []PollingOutlastsCode
<1>1. Init => PollsInTime
  BY DEF Init, YouTubeInit, PollsInTime
<1>2. SessionTypes /\ PollsInTime /\ [Next]_vars => PollsInTime'
  BY PollsStep, StepMovesYouTube DEF SessionTypes
<1>3. PollsInTime => PollingOutlastsCode
  BY DEF PollsInTime, PollingOutlastsCode
<1>4. QED
  BY <1>1, <1>2, <1>3, SessionTypesHold, PTL DEF Spec

-----------------------------------------------------------------------------
(* The logs. *)

(* Every step keeps the logs in order. *)
LEMMA RotationStep == SessionTypes /\ RotationInv /\ [Next]_vars => RotationInv'
<1> SUFFICES ASSUME SessionTypes, RotationInv, [Next]_vars
             PROVE  RotationInv'
  OBVIOUS
<1>0. LogTypeOK
  BY DEF SessionTypes
<1> USE <1>0, GenerationsAssumption DEF LogTypeOK, LogIndex, RotationInv, LogsInOrder
<1>1. CASE Run
  BY <1>1 DEF Run, StartLogging
<1>2. CASE Log /\ RotateOne
  <2> DEFINE i == rotating - 1
  <2>1. i \in LogIndex /\ i <= Generations /\ rotating = i + 1 /\ rotating' = i
        /\ UNCHANGED <<starts, main>>
    BY <1>2 DEF Log, RotateOne, OpenLog
  <2>2. CASE logs[i] = 0
    <3>1. UNCHANGED <<logs, lost>>
      BY <1>2, <2>2 DEF RotateOne, Source
    <3>2. QED
      BY <2>1, <2>2, <3>1
  <2>3. CASE logs[i] # 0 /\ i = Generations
    <3>1. logs' = [logs EXCEPT ![i + 1] = 0] /\ lost' = lost \cup {j \in {i + 1} : logs[j] # 0}
      BY <1>2, <2>3 DEF RotateOne, Source
    <3>2. logs' = logs /\ lost' = lost
      BY <2>1, <2>3, <3>1
    <3>3. QED
      BY <2>1, <2>3, <3>2
  <2>4. CASE logs[i] # 0 /\ i # Generations
    <3>1. /\ logs' = [logs EXCEPT ![i + 1] = logs[i], ![i] = 0]
          /\ lost' = lost \cup {j \in {i + 1} : logs[j] # 0}
      BY <1>2, <2>4 DEF RotateOne, Source
    <3>2. i + 1 # Generations => logs[i + 1] = 0
      BY <2>1, <2>4
    <3>3. lost' \subseteq {Generations}
      BY <3>1, <3>2
    <3>4. /\ logs'[i] = 0 /\ logs'[i + 1] = logs[i] /\ i + 1 \in LogIndex
          /\ \A k \in LogIndex \ {i, i + 1} : logs'[k] = logs[k]
      BY <2>1, <2>4, <3>1
    <3>5. /\ rotating' = i /\ logs'[Generations + 1] = 0
          /\ i > 0 /\ i < Generations => logs'[i] = 0
      BY <2>1, <2>4, <3>4
    <3>6. \A k \in LogIndex : logs'[k] \in {0, logs[i]} \/ logs'[k] = logs[k]
      BY <3>4
    <3>7. /\ \A k \in LogIndex : logs'[k] <= starts'
          /\ main' = "logging" => \A k \in LogIndex : logs'[k] < starts'
      <4>1. /\ \A k \in LogIndex : logs[k] \in Nat /\ logs[k] <= starts
            /\ starts \in Nat /\ starts' = starts /\ main' = main
            /\ main = "logging" => \A k \in LogIndex : logs[k] < starts
        BY <2>1
      <4>2. i \in LogIndex
        BY <2>1
      <4> HIDE DEF i, LogIndex
      <4>3. QED
        BY <3>6, <4>1, <4>2
    <3>8. LogsInOrder'
      <4> DEFINE Decreasing(f) ==
                   \A j, k \in LogIndex : f[j] # 0 /\ f[k] # 0 /\ j < k => f[j] > f[k]
      <4>1. Decreasing(logs)
        OBVIOUS
      <4>2. \A j, k \in LogIndex \ {i, i + 1} :
              logs'[j] # 0 /\ logs'[k] # 0 /\ j < k => logs'[j] > logs'[k]
        BY <3>4, <4>1
      <4>3. \A k \in LogIndex \ {i, i + 1} :
              /\ k < i + 1 /\ logs'[k] # 0 => logs'[k] > logs'[i + 1]
              /\ i + 1 < k /\ logs'[k] # 0 => logs'[i + 1] > logs'[k]
        BY <2>1, <2>4, <3>4, <4>1
      <4>4. Decreasing(logs')
        BY <2>1, <3>4, <4>2, <4>3
      <4>5. QED
        BY <3>3, <4>4
    <3>9. QED
      BY <2>1, <3>5, <3>7, <3>8
  <2>5. QED
    BY <2>2, <2>3, <2>4
<1>3. CASE Log /\ OpenLog
  BY <1>3 DEF Log, OpenLog, RotateOne
<1>4. CASE Dies
  BY <1>4 DEF Dies, Ends
<1>5. CASE UNCHANGED logVars /\ main' # "logging"
  BY <1>5 DEF logVars
<1>6. CASE UNCHANGED <<logVars, main>>
  BY <1>6 DEF logVars
<1>7. QED
  <2>1. CASE CameraStep
    BY <1>5, <1>6, <2>1 DEF CameraStep, AcquireCamera, ConfigureCamera, StartCamera,
       StopCamera, ReleaseCamera, Advance
  <2>2. CASE StreamStep \/ CaptureEnds \/ Exit
    BY <1>5, <1>6, <2>2 DEF StreamStep, InitOutputs, StreamStarted, FreeOutputs,
       StreamStopped, YouTubeReturns, CaptureEnds, Exit, Ends
  <2>3. QED
    BY <1>1, <1>2, <1>3, <1>4, <1>6, <2>1, <2>2 DEF Next, Log, procVars, vars

(* The logs stay ordered by age, whatever a process that died amid its     *)
(* renames has left, and only the last one is ever overwritten.            *)
THEOREM LogsInOrderHolds == Spec => []LogsInOrder
<1>1. Init => RotationInv
  BY GenerationsAssumption DEF Init, LogInit, RotationInv, LogsInOrder, LogIndex
<1>2. RotationInv => LogsInOrder
  BY DEF RotationInv
<1>3. QED
  BY <1>1, <1>2, RotationStep, SessionTypesHold, PTL DEF Spec

-----------------------------------------------------------------------------
(* The cameras. *)

(* Every step keeps the states of the cameras and the stage in agreement.  *)
LEMMA CamerasStep == SessionTypes /\ CamerasInv /\ [Next]_vars => CamerasInv'
<1> SUFFICES ASSUME SessionTypes, CamerasInv, [Next]_vars
             PROVE  CamerasInv'
  OBVIOUS
<1>0. ProcTypeOK
  BY DEF SessionTypes
<1> USE <1>0, CameraAssumption DEF ProcTypeOK, CamerasInv, Stopped, Camera
<1>1. CASE Run \/ Log
  BY <1>1 DEF Run, Log
<1>2. CASE AcquireCamera
  BY <1>2 DEF AcquireCamera
<1>3. CASE ConfigureCamera
  BY <1>3 DEF ConfigureCamera, Advance
<1>4. CASE StartCamera
  BY <1>4 DEF StartCamera, Advance
<1>5. CASE StopCamera
  <2>1. /\ main = "stopping" /\ UNCHANGED acquired
        /\ stat'[cam] \in {"RCstopping", "RCconfigured"}
        /\ \A c \in Camera \ {cam} : stat'[c] = stat[c]
    BY <1>5 DEF StopCamera, SetStat, Advance
  <2>2. QED
    BY <1>5, <2>1 DEF StopCamera, Advance
<1>6. CASE ReleaseCamera
  <2>1. main = "release" /\ Releases(stat[cam])
    BY <1>6 DEF ReleaseCamera, Releases
  <2>2. /\ acquired' = acquired \ {cam} /\ stat'[cam] = "RCavailable"
        /\ \A c \in Camera \ {cam} : stat'[c] = stat[c]
    BY <1>6, <2>1 DEF ReleaseCamera, SetStat
  <2>3. QED
    BY <1>6, <2>1, <2>2 DEF ReleaseCamera, Advance
<1>7. CASE StreamStep
  BY <1>7 DEF StreamStep, InitOutputs, StreamStarted, FreeOutputs, StreamStopped,
              YouTubeReturns
<1>8. CASE CaptureEnds
  BY <1>8 DEF CaptureEnds
<1>9. CASE Exit \/ Dies
  BY <1>9 DEF Exit, Dies, Ends
<1>10. CASE UNCHANGED procVars
  BY <1>10 DEF procVars
<1>11. QED
  BY <1>1, <1>2, <1>3, <1>4, <1>5, <1>6, <1>7, <1>8, <1>9, <1>10
     DEF Next, CameraStep, vars

(* A process that gets to its end has stopped and released every camera.   *)
THEOREM CamerasReleasedHolds == Spec => []CamerasReleased
<1>1. Init => CamerasInv
  BY DEF Init, CamerasInv
<1>2. SessionTypes /\ CamerasInv => CamerasReleased
  BY CameraAssumption
     DEF SessionTypes, ProcTypeOK, CamerasInv, Stopped, CamerasReleased, Camera
<1>3. QED
  BY <1>1, <1>2, CamerasStep, SessionTypesHold, PTL DEF Spec

-----------------------------------------------------------------------------
(* The broadcasts. *)

(* What the calls of the client do to the broadcast in hand.               *)
LEMMA BroadcastYouTubeStep ==
  ASSUME SessionTypes, BroadcastInv, YouTubeStep \/ Tick, UNCHANGED procVars
  PROVE  BroadcastInv'
<1>1. Server /\ Flow
  BY TypesByParts DEF SessionTypes
<1>2. main = "completing" => strmID \in Broadcast
  BY Times DEF BroadcastInv, SessionTypes, ProcTypeOK, Broadcast
<1>3. 0 \notin Broadcast
  BY DEF Broadcast
<1> USE <1>1, <1>2, <1>3
        DEF BroadcastInv, CallMatches, OpenBroadcastIsKnown, procVars, Server, Flow,
            Forget, GoOn, Throw, Returns, Issue
<1>4. CASE ReadAuth
  BY <1>4 DEF ReadAuth, Request
<1>5. CASE AskDeviceCode \/ Sleep \/ Tick
  BY <1>5 DEF AskDeviceCode, Sleep, Tick
<1>6. CASE Authorised \/ Refresh
  BY <1>6 DEF Authorised, Refresh
<1>7. CASE Pending
  BY <1>7 DEF Pending
<1>8. CASE WriteAuth
  BY <1>8 DEF WriteAuth
<1>9. CASE WriteAuthEnds
  BY <1>9 DEF WriteAuthEnds, Request
<1>10. CASE InsertBroadcast
  BY <1>10 DEF InsertBroadcast
<1>11. CASE InsertStream
  BY <1>11 DEF InsertStream
<1>12. CASE Bind
  BY <1>12 DEF Bind
<1>13. CASE Complete
  BY <1>13 DEF Complete
<1>14. CASE RequestFails
  BY <1>14 DEF RequestFails
<1>15. QED
  BY <1>4, <1>5, <1>6, <1>7, <1>8, <1>9, <1>10, <1>11, <1>12, <1>13, <1>14
     DEF YouTubeStep

(* Every step keeps the broadcasts accounted for. *)
LEMMA BroadcastStep == SessionTypes /\ BroadcastInv /\ [Next]_vars => BroadcastInv'
<1> SUFFICES ASSUME SessionTypes, BroadcastInv, [Next]_vars
             PROVE  BroadcastInv'
  OBVIOUS
<1>1. Server /\ Flow
  BY TypesByParts DEF SessionTypes
<1>2. 0 \notin Broadcast
  BY DEF Broadcast
<1> USE <1>1, <1>2 DEF BroadcastInv, CallMatches, OpenBroadcastIsKnown, Server, Flow
<1>3. CASE Run \/ Log
  BY <1>3 DEF Run, Log, ytVars
<1>4. CASE CameraStep
  BY <1>4 DEF CameraStep, AcquireCamera, ConfigureCamera, StartCamera, StopCamera,
              ReleaseCamera, Advance, ytVars
<1>5. CASE InitOutputs
  BY <1>5 DEF InitOutputs, Begin, ytVars
<1>6. CASE StreamStarted
  BY <1>6 DEF StreamStarted, YouTubeReturns
<1>7. CASE FreeOutputs
  BY <1>7 DEF FreeOutputs, HasStream, Begin, ytVars
<1>8. CASE StreamStopped
  BY <1>8 DEF StreamStopped, YouTubeReturns
<1>9. CASE CaptureEnds
  BY <1>9 DEF CaptureEnds, ytVars
<1>10. CASE Exit
  BY <1>10 DEF Exit, Ends, ytVars
<1>11. CASE Dies
  BY <1>11 DEF Dies, Ends, Forget
<1>12. CASE (YouTubeStep \/ Tick) /\ UNCHANGED procVars
  BY <1>12, BroadcastYouTubeStep
<1>13. CASE UNCHANGED vars
  BY <1>13 DEF vars, ytVars, procVars
<1>14. QED
  BY <1>3, <1>4, <1>5, <1>6, <1>7, <1>8, <1>9, <1>10, <1>11, <1>12, <1>13
     DEF Next, StreamStep

(* A broadcast that is open is in the program's hand, unless a failed call *)
(* or the end of a process has cut it off.                                 *)
THEOREM OpenBroadcastIsKnownHolds == Spec => []OpenBroadcastIsKnown
<1>1. Init => BroadcastInv
  BY DEF Init, YouTubeInit, BroadcastInv, CallMatches, OpenBroadcastIsKnown
<1>2. BroadcastInv => OpenBroadcastIsKnown
  BY DEF BroadcastInv
<1>3. QED
  BY <1>1, <1>2, BroadcastStep, SessionTypesHold, PTL DEF Spec

-----------------------------------------------------------------------------
(* Action properties of the logs and the broadcasts.                       *)

(* What one step may do to the archive. *)
LEMMA ArchiveStep ==
  LogTypeOK /\ RotationInv /\ [Next]_vars =>
    [ \/ Archive' = Archive
      \/ Archive' = Archive \cup {starts} /\ \A n \in Archive : n < starts
      \/ \E n \in Archive : (\A m \in Archive : n <= m) /\ Archive' = Archive \ {n}
    ]_logVars
<1> SUFFICES ASSUME LogTypeOK, RotationInv, [Next]_vars
             PROVE  \/ Archive' = Archive
                    \/ Archive' = Archive \cup {starts} /\ \A n \in Archive : n < starts
                    \/ \E n \in Archive :
                         (\A m \in Archive : n <= m) /\ Archive' = Archive \ {n}
  OBVIOUS
<1> USE GenerationsAssumption DEF LogTypeOK, LogIndex, RotationInv
<1>1. CASE UNCHANGED logs
  BY <1>1 DEF Archive
<1>2. CASE Log /\ RotateOne
  <2> DEFINE i == rotating - 1
  <2>1. i \in LogIndex /\ i <= Generations /\ rotating = i + 1
    BY <1>2 DEF RotateOne
  <2>2. CASE logs[i] = 0 \/ i = Generations
    <3>1. logs' = logs
      BY <1>2, <2>1, <2>2 DEF RotateOne, Source
    <3>2. QED
      BY <1>1, <3>1
  <2>3. CASE logs[i] # 0 /\ i # Generations
    <3>1. /\ logs' = [logs EXCEPT ![i + 1] = logs[i], ![i] = 0]
          /\ i + 1 \in LogIndex
      BY <1>2, <2>1, <2>3 DEF RotateOne, Source
    <3>2. /\ logs'[i] = 0 /\ logs'[i + 1] = logs[i]
          /\ \A k \in LogIndex \ {i, i + 1} : logs'[k] = logs[k]
      BY <2>1, <3>1
    <3>3. CASE logs[i + 1] = 0
      <4>1. Archive = {logs[k] : k \in LogIndex} \ {0}
            /\ Archive' = {logs'[k] : k \in LogIndex} \ {0}
        BY DEF Archive
      <4>2. \A k \in LogIndex : logs'[k] # 0 => \E j \in LogIndex : logs[j] = logs'[k]
        BY <2>1, <3>2
      <4>3. \A k \in LogIndex : logs[k] # 0 => \E j \in LogIndex : logs'[j] = logs[k]
        BY <3>1, <3>2, <3>3
      <4>4. Archive' = Archive
        <5> HIDE DEF LogIndex
        <5>1. \A n : n \in Archive' <=> n \in Archive
          BY <4>1, <4>2, <4>3
        <5>2. QED
          BY <5>1
      <4>5. QED
        BY <4>4
    <3>4. CASE logs[i + 1] # 0
      <4>1. i + 1 = Generations
        BY <2>1, <2>3, <3>4
      <4>2. \A k \in LogIndex \ {i + 1} : logs[k] # 0 => logs[k] > logs[i + 1]
        BY <2>1, <3>1, <3>4, <4>1 DEF LogsInOrder
      <4>3. /\ logs[i + 1] \in Archive
            /\ \A m \in Archive : logs[i + 1] <= m
        <5>1. /\ Archive = {logs[k] : k \in LogIndex} \ {0}
              /\ \A k \in LogIndex : logs[k] \in Nat
          BY DEF Archive
        <5>2. logs[i + 1] \in Archive
          BY <3>1, <3>4, <5>1
        <5>3. \A k \in LogIndex : logs[k] # 0 => logs[i + 1] <= logs[k]
          BY <3>1, <4>2, <5>1
        <5>4. QED
          BY <5>1, <5>2, <5>3
      <4>a. \A k \in LogIndex : logs'[k] # 0 =>
              /\ logs'[k] # logs[i + 1]
              /\ \E j \in LogIndex : logs[j] = logs'[k]
        <5> SUFFICES ASSUME NEW k \in LogIndex, logs'[k] # 0
                     PROVE  /\ logs'[k] # logs[i + 1]
                            /\ \E j \in LogIndex : logs[j] = logs'[k]
          OBVIOUS
        <5>0. \A j \in LogIndex : logs[j] \in Nat
          BY DEF LogTypeOK
        <5>1. k # i
          BY <3>2
        <5>2. CASE k = i + 1
          <6>1. logs'[k] = logs[i] /\ i # i + 1 /\ logs[i] > logs[i + 1]
            BY <5>2, <3>2, <2>1, <2>3, <4>2
          <6>2. QED
            BY <6>1, <5>0, <2>1, <3>1
        <5>3. CASE k # i + 1
          <6>1. logs'[k] = logs[k] /\ logs[k] > logs[i + 1]
            BY <5>1, <5>3, <3>2, <4>2
          <6>2. QED
            BY <6>1, <5>0, <3>1
        <5>4. QED
          BY <5>2, <5>3
      <4>b. \A k \in LogIndex : logs[k] # 0 /\ logs[k] # logs[i + 1] =>
              \E j \in LogIndex : logs'[j] = logs[k]
        <5> SUFFICES ASSUME NEW k \in LogIndex, logs[k] # 0, logs[k] # logs[i + 1]
                     PROVE  \E j \in LogIndex : logs'[j] = logs[k]
          OBVIOUS
        <5>1. k # i + 1
          OBVIOUS
        <5>2. CASE k = i
          BY <5>2, <3>1, <3>2
        <5>3. CASE k # i
          BY <5>1, <5>3, <3>2
        <5>4. QED
          BY <5>2, <5>3
      <4>4. \A n : n \in Archive' <=> n \in Archive /\ n # logs[i + 1]
        <5>1. Archive = {logs[k] : k \in LogIndex} \ {0}
              /\ Archive' = {logs'[k] : k \in LogIndex} \ {0}
          BY DEF Archive
        <5>2. QED
          BY <5>1, <4>a, <4>b
      <4>5. Archive' = Archive \ {logs[i + 1]}
        BY <4>4
      <4>6. QED
        BY <4>3, <4>5
    <3>5. QED
      BY <3>3, <3>4
  <2>4. QED
    BY <2>2, <2>3
<1>3. CASE Log /\ OpenLog
  <2>1. /\ main = "logging" /\ 0 \in LogIndex
        /\ logs' = [logs EXCEPT ![0] = IF @ = 0 THEN starts ELSE @]
    BY <1>3 DEF Log, OpenLog
  <2>2. CASE logs[0] # 0
    <3>1. logs' = logs
      BY <2>1, <2>2
    <3>2. QED
      BY <1>1, <3>1
  <2>3. CASE logs[0] = 0
    <3>1. logs'[0] = starts /\ \A k \in LogIndex \ {0} : logs'[k] = logs[k]
      BY <2>1, <2>3
    <3>2. \A k \in LogIndex : logs[k] < starts
      BY <2>1
    <3>3. starts # 0
      BY <2>1, <3>2
    <3>4. \A n : n \in Archive' <=> n \in Archive \/ n = starts
      BY <2>1, <2>3, <3>1, <3>3 DEF Archive
    <3>5. (\A n \in Archive : n < starts) /\ Archive' = Archive \cup {starts}
      BY <3>2, <3>4 DEF Archive
    <3>6. QED
      BY <3>5
  <2>4. QED
    BY <2>2, <2>3
<1>4. QED
  BY <1>1, <1>2, <1>3 DEF Next, Log, Run, StartLogging, CameraStep, AcquireCamera,
     ConfigureCamera, StartCamera, StopCamera, ReleaseCamera, StreamStep, InitOutputs,
     StreamStarted, FreeOutputs, StreamStopped, YouTubeReturns, CaptureEnds, Exit, Dies,
     vars, logVars

(* Whatever the processes do and wherever they die, the archive of logs    *)
(* only ever gains the newest and forgets the oldest.                      *)
THEOREM OnlyOldestForgottenHolds == Spec => OnlyOldestForgotten
<1>1. Init => RotationInv
  BY GenerationsAssumption DEF Init, LogInit, RotationInv, LogsInOrder, LogIndex
<1>2. SessionTypes => LogTypeOK
  BY DEF SessionTypes
<1>3. QED
  BY <1>1, <1>2, ArchiveStep, RotationStep, SessionTypesHold, PTL
     DEF Spec, OnlyOldestForgotten

(* While a stream is known its broadcast is open, until StopStrm is done,  *)
(* and while a stream is started or stopped no camera runs.                *)
StreamIsOpen ==
  /\ strmID # 0 /\ ~(main = "completing" /\ call = "none") => broadcasts[strmID] = "open"
  /\ inHand # 0 => broadcasts[inHand] = "open" \/ answer = "ok"
  /\ main = "starting" /\ inHand # 0 => broadcasts[inHand] = "open"
  /\ \A c \in Camera :
       /\ main \in {"down", "logging", "outputs", "starting"} => stat[c] # "RCrunning"
       /\ main = "opening" => stat[c] # "RCrunning"

(* Every step keeps the known broadcast open, and changes a broadcast only *)
(* where the capture is stopped.                                           *)
LEMMA OpenStep ==
  SessionTypes /\ BroadcastInv /\ CamerasInv /\ StreamIsOpen /\ [Next]_vars
    => StreamIsOpen' /\ (\A b \in Broadcast :
         broadcasts'[b] # broadcasts[b] =>
           /\ \A c \in Camera : stat[c] # "RCrunning"
           /\ \/ broadcasts[b] = "none" /\ broadcasts'[b] = "open" /\ main = "starting"
              \/ /\ broadcasts[b] = "open" /\ broadcasts'[b] = "complete"
                 /\ main = "completing" /\ b = strmID)
<1> SUFFICES ASSUME SessionTypes, BroadcastInv, CamerasInv, StreamIsOpen, [Next]_vars
             PROVE  /\ StreamIsOpen'
                    /\ \A b \in Broadcast :
                         broadcasts'[b] # broadcasts[b] =>
                           /\ \A c \in Camera : stat[c] # "RCrunning"
                           /\ \/ broadcasts[b] = "none" /\ broadcasts'[b] = "open" /\ main = "starting"
                              \/ /\ broadcasts[b] = "open" /\ broadcasts'[b] = "complete"
                                 /\ main = "completing" /\ b = strmID
  OBVIOUS
<1>0. Server /\ Flow /\ ProcTypeOK
  BY TypesByParts DEF SessionTypes
<1>n. 0 \notin Broadcast /\ strmID \in Broadcast \cup {0} /\ inHand \in Broadcast \cup {0}
  BY <1>0, Times DEF Broadcast, Server, ProcTypeOK
<1> USE <1>0, <1>n DEF StreamIsOpen, Server, Flow, ProcTypeOK, BroadcastInv, CallMatches
(* Steps that leave the broadcasts alone. *)
<1>1. CASE Run \/ Log \/ CaptureEnds
  BY <1>1 DEF Run, Log, CaptureEnds, ytVars
<1>2. CASE CameraStep
  BY <1>2 DEF CameraStep, AcquireCamera, ConfigureCamera, StartCamera, StopCamera,
              ReleaseCamera, SetStat, Advance, ytVars
<1>3. CASE InitOutputs \/ FreeOutputs
  BY <1>3 DEF InitOutputs, FreeOutputs, HasStream, Begin, ytVars
<1>4. CASE StreamStarted \/ StreamStopped
  BY <1>4 DEF StreamStarted, StreamStopped, YouTubeReturns
<1>5. CASE Exit \/ Dies
  BY <1>5 DEF Exit, Dies, Ends, Forget, ytVars
<1>6. CASE UNCHANGED vars
  BY <1>6 DEF vars, ytVars, procVars
<1>7. CASE (YouTubeStep \/ Tick) /\ UNCHANGED procVars
  <2> USE <1>7 DEF procVars, Forget, GoOn, Throw, Returns, Issue
  <2>1. CASE ReadAuth \/ AskDeviceCode \/ Sleep \/ Tick
    BY <2>1 DEF ReadAuth, AskDeviceCode, Sleep, Tick
  <2>2. CASE Authorised \/ Refresh \/ Pending \/ WriteAuth \/ WriteAuthEnds
    BY <2>2 DEF Authorised, Refresh, Pending, WriteAuth, WriteAuthEnds
  <2>3. CASE InsertBroadcast
    BY <2>3 DEF InsertBroadcast
  <2>4. CASE InsertStream \/ Bind \/ RequestFails
    BY <2>4 DEF InsertStream, Bind, RequestFails
  <2>5. CASE Complete
    <3>1. main = "completing" /\ call = "StopStrm" /\ inHand = strmID /\ strmID # 0
      BY <2>5 DEF Complete
    <3>2. \A c \in Camera : stat[c] # "RCrunning"
      BY <3>1 DEF CamerasInv, Stopped
    <3>3. QED
      BY <2>5, <3>1, <3>2 DEF Complete
  <2>6. QED
    BY <2>1, <2>2, <2>3, <2>4, <2>5 DEF YouTubeStep
<1>8. QED
  BY <1>1, <1>2, <1>3, <1>4, <1>5, <1>6, <1>7 DEF Next, StreamStep

(* A broadcast is opened before any camera runs, and completed by the      *)
(* process that opened it after all its cameras have stopped.              *)
THEOREM BroadcastLifecycleHolds == Spec => BroadcastLifecycle
<1>1. Init => BroadcastInv /\ CamerasInv /\ StreamIsOpen
  BY DEF Init, YouTubeInit, BroadcastInv, CallMatches, OpenBroadcastIsKnown, CamerasInv,
         StreamIsOpen
<1>2. QED
  BY <1>1, OpenStep, BroadcastStep, CamerasStep, SessionTypesHold, PTL
     DEF Spec, BroadcastLifecycle
=============================================================================
