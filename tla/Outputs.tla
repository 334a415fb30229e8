------------------------------ MODULE Outputs ------------------------------
(***************************************************************************)
(* The encoders and muxers of class RCam (core/rcam.cpp): initOutputs,     *)
(* which makes them and starts the video and the audio thread, encodeFrame,*)
(* which both threads run, openFormat, which the first video packet of an  *)
(* output runs, the worker of a NetworkWriter, which writes in the         *)
(* encoders' place, and freeOutputs, which ends the threads, the files and *)
(* then the workers.                                                       *)
(*                                                                         *)
(* Frames and packets are counted, their contents left out.  A write into  *)
(* a muxer is two steps, so that two threads can be seen inside one; an    *)
(* encoder's is inside output_mutex_, a worker's is not.  Of a             *)
(* NetworkWriter this module keeps the length of its queue and the stage   *)
(* of its worker; its rate and its wakeups are the module NetworkWriter's. *)
(***************************************************************************)
EXTENDS Naturals, Sequences

CONSTANTS Configs,       \* the configurations' outputs, in the file's order
          EncoderDelay,  \* how many frames an encoder keeps before it gives a packet
          FifoSize,      \* samples the audio FIFO holds (2 seconds)
          ReadSizes,     \* how many samples av_read_frame may deliver at once
          FrameSize,     \* samples the audio encoder takes as one frame
          QueueCapacity  \* packets a NetworkWriter's queue holds (60 in the code)

ASSUME ConfigAssumption ==
  Configs \subseteq Seq([raw : BOOLEAN,
                         dest : {"file", "youtube", "none"},
                         streams : Nat \ {0}])

ASSUME FifoAssumption ==
  /\ EncoderDelay \in Nat
  /\ FrameSize \in Nat \ {0}
  /\ ReadSizes \subseteq Nat
  /\ FifoSize \in Nat
  /\ \A n \in ReadSizes : n + FrameSize <= FifoSize

ASSUME QueueAssumption == QueueCapacity \in Nat \ {0}

Thread == {"video", "audio"}

VARIABLES cfg,        \* the configuration's outputs
          audio,      \* audio_: the configuration has an /Audio
          youtube,    \* the local flag of initOutputs
          queue,      \* per output made so far, its NetworkWriter
          main,       \* where the main thread is
          cameras,    \* cameras_running_
          stop,       \* stop_threads_
          quit,       \* a Quit message is in msg_queue_
          ready,      \* output_ready_
          fmt,        \* per output, its format context
          held,       \* per encoder, the frames it holds
          drained,    \* the encoders that were sent the null frame
          at,         \* per thread, where it is
          todo,       \* per thread, the encoders it has yet to give this frame
          enc,        \* per thread, the encoder it is at
          flushing,   \* the threads that have left their loop
          fifo,       \* samples in the audio FIFO
          encoded,    \* audio_samples_ > 0
          recent,     \* the audio thread saw no camera run in the last 250 ms
          cut,        \* history: samples were dropped between two audio frames
          waiting,    \* per output, the packets in its writer's queue
          worker,     \* per output, where its writer's thread is
          shut,       \* the outputs whose queue was shut down
          turn,       \* the output freeOutputs is at
          lost        \* history: the outputs that lost a packet

netVars == <<waiting, worker, lost>>
mainVars == <<cfg, audio, youtube, queue, main, cameras, shut, turn>>
audioVars == <<fifo, encoded, recent, cut>>
encVars == <<fmt, ready, held, drained, todo, enc, flushing, netVars>>
vars == <<mainVars, stop, quit, at, encVars, audioVars>>

Outputs == 1..Len(cfg)
(* An encoder is an output and a stream in it; stream 0 is the audio.      *)
VideosOf(n) == UNION {{o} \X (1..cfg[o].streams) : o \in 1..n}
AudiosOf(n) == IF audio THEN (1..n) \X {0} ELSE {}
Videos == VideosOf(Len(queue))
Audios == AudiosOf(Len(queue))
Encoders == Videos \cup Audios
IsVideo(e) == e[2] # 0

TypeOK ==
  /\ cfg \in Configs
  /\ audio \in BOOLEAN
  /\ youtube \in BOOLEAN
  /\ queue \in Seq({"none", "idle", "started"})
  /\ Len(queue) <= Len(cfg)
  /\ main \in {"making", "starting", "capturing", "stopping", "joinAudio",
               "postQuit", "joinVideo", "closing", "stopQueues", "asleep",
               "joinWriter", "done", "failed", "dead"}
  /\ {cameras, stop, quit, ready, encoded, recent, cut} \subseteq BOOLEAN
  /\ fmt \in [1..Len(queue) -> {"new", "open", "closing", "ended"}]
  /\ held \in [Encoders -> 0..(EncoderDelay + 1)]
  /\ drained \subseteq Encoders
  /\ at \in [Thread -> {"off", "loop", "get", "read", "encode", "feed",
                        "receive", "opening", "lock", "writing", "ended"}]
  /\ todo \in [Thread -> SUBSET Encoders]
  /\ enc \in [Thread -> Encoders \cup {<<>>}]
  /\ flushing \subseteq Thread
  /\ fifo \in 0..FifoSize
  /\ waiting \in [1..Len(queue) -> 0..QueueCapacity]
  /\ worker \in [1..Len(queue) -> {"none", "pop", "writing", "ended"}]
  /\ turn \in 0..Len(cfg)
  /\ shut \cup lost \subseteq 1..Len(queue)

Init ==
  /\ cfg \in Configs
  /\ audio \in BOOLEAN
  /\ youtube = FALSE
  /\ queue = <<>>
  /\ main = "making"
  /\ cameras = FALSE
  /\ stop = FALSE
  /\ quit = FALSE
  /\ ready = FALSE
  /\ fmt = <<>>
  /\ held = <<>>
  /\ drained = {}
  /\ at = [t \in Thread |-> "off"]
  /\ todo = [t \in Thread |-> {}]
  /\ enc = [t \in Thread |-> <<>>]
  /\ flushing = {}
  /\ fifo = 0
  /\ encoded = FALSE
  /\ recent = FALSE
  /\ cut = FALSE
  /\ waiting = <<>>
  /\ worker = <<>>
  /\ shut = {}
  /\ turn = 0
  /\ lost = {}

-----------------------------------------------------------------------------
(* The main thread: initOutputs, startCams and FreeCapture. *)

(* The flag is set by a YouTube output and never reset; the writer of a    *)
(* composite output is started, that of a raw one is not.                  *)
MakeOutput ==
  /\ main = "making"
  /\ Len(queue) < Len(cfg)
  /\ LET o == Len(queue) + 1
         yt == youtube \/ cfg[o].dest = "youtube" IN
       /\ cfg[o].dest # "none"
       /\ youtube' = yt
       /\ queue' = Append(queue, CASE ~yt -> "none"
                                   [] yt /\ cfg[o].raw -> "idle"
                                   [] OTHER -> "started")
       /\ worker' = Append(worker, IF yt /\ ~cfg[o].raw THEN "pop" ELSE "none")
  /\ fmt' = Append(fmt, "new")
  /\ waiting' = Append(waiting, 0)
  /\ held' = [e \in VideosOf(Len(queue')) \cup AudiosOf(Len(queue')) |-> 0]
  /\ UNCHANGED <<cfg, audio, main, cameras, shut, turn, stop, quit, at, ready,
                 drained, todo, enc, flushing, lost, audioVars>>

(* An output without a destination, or a device, a codec, a filter graph   *)
(* or a broadcast that cannot be had: no thread of RCam runs yet, and the  *)
(* destructor of a writer that was started stops it with an empty queue.   *)
InitFails ==
  /\ main = "making"
  /\ main' = "failed"
  /\ UNCHANGED <<cfg, audio, youtube, queue, cameras, shut, turn, stop, quit,
                 at, encVars, audioVars>>

StartThreads ==
  /\ main = "making"
  /\ Len(queue) = Len(cfg)
  /\ main' = "starting"
  /\ at' = [t \in Thread |-> IF t = "audio" /\ ~audio THEN "off" ELSE "loop"]
  /\ UNCHANGED <<cfg, audio, youtube, queue, cameras, shut, turn, stop, quit,
                 encVars, audioVars>>

MainSteps(from, to) ==
  /\ main = from
  /\ main' = to
  /\ UNCHANGED <<cfg, audio, youtube, queue, at, held, drained, todo, enc,
                 flushing, netVars, audioVars>>

StartCams ==
  /\ MainSteps("starting", "capturing")
  /\ cameras' = TRUE
  /\ UNCHANGED <<stop, quit, ready, fmt, shut, turn>>

StopCams ==
  /\ MainSteps("capturing", "stopping")
  /\ cameras' = FALSE
  /\ UNCHANGED <<stop, quit, ready, fmt, shut, turn>>

StopThreads ==
  /\ MainSteps("stopping", IF audio THEN "joinAudio" ELSE "postQuit")
  /\ stop' = TRUE
  /\ UNCHANGED <<cameras, quit, ready, fmt, shut, turn>>

JoinAudio ==
  /\ at["audio"] = "ended"
  /\ MainSteps("joinAudio", "postQuit")
  /\ UNCHANGED <<cameras, stop, quit, ready, fmt, shut, turn>>

PostQuit ==
  /\ MainSteps("postQuit", "joinVideo")
  /\ quit' = TRUE
  /\ UNCHANGED <<cameras, stop, ready, fmt, shut, turn>>

JoinVideo ==
  /\ at["video"] = "ended"
  /\ MainSteps("joinVideo", "closing")
  /\ UNCHANGED <<cameras, stop, quit, ready, fmt, shut, turn>>

(* The formats are closed in their order, each with a trailer if it has a  *)
(* header; nothing waits for the worker, which may be inside.              *)
TrailerBegins ==
  /\ turn < Len(queue) /\ fmt[turn + 1] = "open"
  /\ MainSteps("closing", "closing")
  /\ fmt' = [fmt EXCEPT ![turn + 1] = "closing"]
  /\ UNCHANGED <<cameras, stop, quit, ready, shut, turn>>

FreeFormat ==
  /\ turn < Len(queue) /\ fmt[turn + 1] \in {"new", "closing"}
  /\ MainSteps("closing", "closing")
  /\ fmt' = [fmt EXCEPT ![turn + 1] = "ended"]
  /\ ready' = FALSE
  /\ turn' = turn + 1
  /\ UNCHANGED <<cameras, stop, quit, shut>>

FormatsFreed ==
  /\ turn = Len(queue)
  /\ MainSteps("closing", "stopQueues")
  /\ UNCHANGED <<cameras, stop, quit, ready, fmt, shut, turn>>

(* NetworkWriter::stop() of the writers that were started, in the order of *)
(* the addresses of their codecs: flush() sleeps unless it finds the queue *)
(* empty, and what empties it does not wake it, only chance does.          *)
StopQueue(o) ==
  /\ queue[o] = "started" /\ o \notin shut
  /\ MainSteps("stopQueues", IF waiting[o] = 0 THEN "joinWriter" ELSE "asleep")
  /\ shut' = shut \cup {o}
  /\ turn' = o
  /\ UNCHANGED <<cameras, stop, quit, ready, fmt>>

FlushWakes ==
  /\ main = "asleep" /\ waiting[turn] = 0
  /\ MainSteps("asleep", "joinWriter")
  /\ UNCHANGED <<cameras, stop, quit, ready, fmt, shut, turn>>

JoinWriter ==
  /\ main = "joinWriter" /\ worker[turn] = "ended"
  /\ MainSteps("joinWriter", "stopQueues")
  /\ UNCHANGED <<cameras, stop, quit, ready, fmt, shut, turn>>

QueuesStopped ==
  /\ \A o \in 1..Len(queue) : queue[o] = "started" => o \in shut
  /\ MainSteps("stopQueues", "done")
  /\ UNCHANGED <<cameras, stop, quit, ready, fmt, shut, turn>>

-----------------------------------------------------------------------------
(* encodeFrame, run by thread t. *)

Goto(t, place) == at' = [at EXCEPT ![t] = place]

(* The null frame at the end makes the encoder give up what it holds. *)
SendFrame(t, e) ==
  /\ at[t] = "feed"
  /\ e \in todo[t]
  /\ todo' = [todo EXCEPT ![t] = @ \ {e}]
  /\ enc' = [enc EXCEPT ![t] = e]
  /\ IF t \in flushing
       THEN drained' = drained \cup {e} /\ UNCHANGED held
       ELSE held' = [held EXCEPT ![e] = @ + 1] /\ UNCHANGED drained
  /\ Goto(t, "receive")
  /\ UNCHANGED <<mainVars, stop, quit, fmt, ready, flushing, netVars, audioVars>>

(* avcodec_receive_packet: a packet, or EAGAIN or EOF. *)
ReceivePacket(t) ==
  /\ at[t] = "receive"
  /\ LET e == enc[t] IN
       IF held[e] > (IF e \in drained THEN 0 ELSE EncoderDelay)
         THEN /\ held' = [held EXCEPT ![e] = @ - 1]
              /\ Goto(t, IF ~ready /\ IsVideo(e) /\ fmt[e[1]] = "new"
                           THEN "opening" ELSE "lock")
         ELSE Goto(t, "feed") /\ UNCHANGED held
  /\ UNCHANGED <<mainVars, stop, quit, fmt, ready, drained, todo, enc,
                 flushing, netVars, audioVars>>

AllFormatsOpen_Any(f) == \E o \in DOMAIN f : f[o] = "open"
AllFormatsOpen(f) == \A o \in DOMAIN f : f[o] = "open"

OpenFormat(t) ==
  /\ at[t] = "opening"
  /\ fmt' = [fmt EXCEPT ![enc[t][1]] = "open"]
  /\ ready' = AllFormatsOpen(fmt')
  /\ Goto(t, "lock")
  /\ UNCHANGED <<mainVars, stop, quit, held, drained, todo, enc, flushing,
                 netVars, audioVars>>

(* output_mutex_ is free: no encoder writes. *)
OutputMutexFree == \A u \in Thread : at[u] # "writing"

WriteBegins(t) ==
  /\ at[t] = "lock"
  /\ queue[enc[t][1]] = "none"
  /\ OutputMutexFree
  /\ Goto(t, "writing")
  /\ UNCHANGED <<mainVars, stop, quit, encVars, audioVars>>

WriteEnds(t) ==
  /\ at[t] = "writing"
  /\ Goto(t, "receive")
  /\ UNCHANGED <<mainVars, stop, quit, encVars, audioVars>>

(* enqueuePacket: push() takes a copy or refuses, and the encoder does not *)
(* look which.  What an idle writer takes nobody will read.                *)
Enqueue(t) ==
  /\ at[t] = "lock"
  /\ OutputMutexFree
  /\ Goto(t, "receive")
  /\ LET o == enc[t][1]
         refused == waiting[o] = QueueCapacity \/ o \in shut IN
       /\ queue[o] # "none"
       /\ waiting' = IF refused THEN waiting ELSE [waiting EXCEPT ![o] = @ + 1]
       /\ lost' = IF refused \/ queue[o] = "idle" THEN lost \cup {o} ELSE lost
  /\ UNCHANGED <<mainVars, stop, quit, fmt, ready, held, drained, todo, enc,
                 flushing, worker, audioVars>>

AfterFrame_OneFrame == "loop"
AfterFrame == "encode"

(* A frame has been given to all: back to the loop, which for the audio    *)
(* thread is the one over the FIFO, or the end of the thread.              *)
Fed(t) ==
  /\ at[t] = "feed"
  /\ todo[t] = {}
  /\ Goto(t, CASE t \in flushing -> "ended"
               [] t = "audio" /\ t \notin flushing -> AfterFrame
               [] OTHER -> "loop")
  /\ UNCHANGED <<mainVars, stop, quit, encVars, audioVars>>

-----------------------------------------------------------------------------
(* NetworkWriter::networkLoop, per output with a started writer.           *)

WorkerChanges(o, from, to) ==
  /\ worker[o] = from
  /\ worker' = [worker EXCEPT ![o] = to]
  /\ UNCHANGED <<mainVars, stop, quit, at, fmt, ready, held, drained, todo, enc,
                 flushing, audioVars>>

WorkerPops(o) ==
  /\ waiting[o] > 0
  /\ waiting' = [waiting EXCEPT ![o] = @ - 1]
  /\ WorkerChanges(o, "pop", "writing")
  /\ UNCHANGED lost

(* What it writes during or after the trailer is lost, at best.            *)
Late(o) == fmt[o] \in {"closing", "ended"}

WorkerWrites(o) ==
  /\ WorkerChanges(o, "writing", "pop")
  /\ lost' = IF Late(o) THEN lost \cup {o} ELSE lost
  /\ UNCHANGED waiting

WorkerEnds(o) ==
  /\ waiting[o] = 0 /\ o \in shut
  /\ WorkerChanges(o, "pop", "ended")
  /\ UNCHANGED <<waiting, lost>>

(* An exception in a thread, or in startCams while there are threads, is   *)
(* std::terminate; a late write may as well kill the process.              *)
Throws ==
  /\ \/ main = "starting"
     \/ \E t \in Thread : at[t] \in {"feed", "receive", "opening", "writing"}
     \/ at["audio"] = "read"
     \/ \E o \in 1..Len(queue) : worker[o] = "writing" /\ Late(o)
  /\ main' = "dead"
  /\ UNCHANGED <<cfg, audio, youtube, queue, cameras, shut, turn, stop, quit,
                 at, encVars, audioVars>>

-----------------------------------------------------------------------------
(* The video thread: a frame of a camera goes through the filter graphs to *)
(* some of the encoders.                                                   *)

FlushedByVideo_None == {}
FlushedByVideo == Videos

LeaveLoop(t, encoders) ==
  /\ flushing' = flushing \cup {t}
  /\ todo' = [todo EXCEPT ![t] = encoders]
  /\ Goto(t, "feed")

VideoLoop ==
  /\ at["video"] = "loop"
  /\ IF stop THEN LeaveLoop("video", FlushedByVideo)
             ELSE Goto("video", "get") /\ UNCHANGED <<flushing, todo>>
  /\ UNCHANGED <<mainVars, stop, quit, fmt, ready, held, drained, enc, netVars,
                 audioVars>>

(* stopCams empties the message queue before Quit is posted. *)
VideoGets ==
  /\ at["video"] = "get"
  /\ \/ /\ main \in {"starting", "capturing", "stopping"}
        /\ \E encoders \in SUBSET Videos :
             todo' = [todo EXCEPT !["video"] = encoders]
        /\ Goto("video", "feed")
        /\ UNCHANGED stop
     \/ /\ quit
        /\ stop' = TRUE
        /\ Goto("video", "loop")
        /\ UNCHANGED todo
  /\ UNCHANGED <<mainVars, quit, fmt, ready, held, drained, enc, flushing,
                 netVars, audioVars>>

-----------------------------------------------------------------------------
(* The audio thread. *)

AudioStops_WhenReady == stop /\ ready
AudioStops == stop

AudioLoop ==
  /\ at["audio"] = "loop"
  /\ IF AudioStops THEN LeaveLoop("audio", Audios)
                   ELSE Goto("audio", "read") /\ UNCHANGED <<flushing, todo>>
  /\ UNCHANGED <<mainVars, stop, quit, fmt, ready, held, drained, enc, netVars,
                 audioVars>>

(* av_audio_fifo_drain: while the muxers are not ready the oldest samples  *)
(* make room for new ones.                                                 *)
Overflows(before, n) == FifoSize - before < n
Kept_All(before, n) == before
Kept(before, n) ==
  CASE ~Overflows(before, n) -> before
    [] Overflows(before, n) /\ before > n -> before - n
    [] OTHER -> 0

(* The samples before the cameras run, and of the 250 ms after, are thrown *)
(* away.                                                                   *)
AudioReads(n) ==
  /\ at["audio"] = "read"
  /\ \/ recent' = TRUE /\ (recent \/ (~cameras /\ ~stop))
     \/ recent' = FALSE /\ (cameras \/ stop)
  /\ LET before == IF recent' THEN 0 ELSE fifo
     IN /\ fifo' = Kept(before, n) + n
        /\ cut' = (cut \/ (Overflows(before, n) /\ encoded))
  /\ Goto("audio", IF ready THEN "encode" ELSE "loop")
  /\ UNCHANGED <<mainVars, stop, quit, encVars, encoded>>

(* The loop over the FIFO gives every encoder the same frame. *)
AudioEncodes ==
  /\ at["audio"] = "encode"
  /\ IF fifo >= FrameSize
       THEN /\ fifo' = fifo - FrameSize
            /\ encoded' = TRUE
            /\ todo' = [todo EXCEPT !["audio"] = Audios]
            /\ Goto("audio", "feed")
       ELSE Goto("audio", "loop") /\ UNCHANGED <<fifo, encoded, todo>>
  /\ UNCHANGED <<mainVars, stop, quit, fmt, ready, held, drained, enc,
                 flushing, netVars, recent, cut>>

-----------------------------------------------------------------------------
EncodeStep(t) ==
  \/ \E e \in Encoders : SendFrame(t, e)
  \/ ReceivePacket(t)
  \/ OpenFormat(t)
  \/ WriteEnds(t)
  \/ Fed(t)

VideoStep == VideoLoop \/ VideoGets \/ EncodeStep("video")
AudioStep == \/ AudioLoop
             \/ \E n \in ReadSizes : AudioReads(n)
             \/ AudioEncodes
             \/ EncodeStep("audio")
FreeStep == \/ StopThreads \/ JoinAudio \/ PostQuit \/ JoinVideo
            \/ TrailerBegins \/ FreeFormat \/ FormatsFreed
            \/ \E o \in 1..Len(queue) : StopQueue(o)
            \/ JoinWriter \/ QueuesStopped
WorkerStep == \E o \in 1..Len(queue) :
                WorkerPops(o) \/ WorkerWrites(o) \/ WorkerEnds(o)

Next ==
  /\ main # "dead"
  /\ \/ MakeOutput \/ InitFails \/ StartThreads \/ StartCams \/ StopCams
     \/ FreeStep
     \/ FlushWakes
     \/ VideoStep
     \/ AudioStep
     \/ \E t \in Thread : WriteBegins(t) \/ Enqueue(t)
     \/ WorkerStep
     \/ Throws

(* The scheduler runs every thread that can run, the sound device delivers,*)
(* a write ends, and output_mutex_ does not starve a thread.  A spurious   *)
(* wakeup (FlushWakes) is owed by nobody.                                  *)
Fairness ==
  /\ WF_vars(main # "dead" /\ FreeStep)
  /\ WF_vars(main # "dead" /\ VideoStep)
  /\ WF_vars(main # "dead" /\ AudioStep)
  /\ WF_vars(main # "dead" /\ WorkerStep)
  /\ \A t \in Thread : SF_vars(main # "dead" /\ (WriteBegins(t) \/ Enqueue(t)))

Spec == Init /\ [][Next]_vars /\ Fairness

-----------------------------------------------------------------------------
(* The threads inside a muxer, each with the output it is inside of.       *)
Inside ==
  {p \in Thread \X (1..Len(queue)) :
     at[p[1]] \in {"opening", "writing"} /\ enc[p[1]][1] = p[2]}
  \cup {p \in {"worker"} \X (1..Len(queue)) : worker[p[2]] = "writing"}

(* encodeFrame, networkLoop, freeOutputs: no thread enters or opens a      *)
(* muxer another is inside of, although the header is written by one       *)
(* thread without the mutex, the other learns of it only through           *)
(* output_ready_ and a worker never takes the mutex; packets come after    *)
(* the header; and from the trailer on only a worker can be inside, which  *)
(* freeOutputs stops too late.                                             *)
MuxerProtocol ==
  \A p \in Inside :
    /\ \A q \in Inside : q[2] = p[2] => q = p
    /\ fmt[p[2]] = "new" => p[1] \in Thread /\ at[p[1]] = "opening"
    /\ fmt[p[2]] \in {"closing", "ended"} =>
         p[1] = "worker" /\ queue[p[2]] = "started"

(* audioThread: once the first audio frame is encoded the FIFO never       *)
(* overflows, so the time stamps, which only count encoded samples, do not *)
(* slip against the video, however long a write or a read takes.  (What    *)
(* the 250 ms window throws away is not counted here.)                     *)
AudioIsGapless == ~cut

(* freeOutputs: when the capture is over no encoder still holds a frame,   *)
(* no writer that was started a packet, and its thread has ended.  Packets *)
(* were lost only by a YouTube output and those after it, which have a     *)
(* NetworkWriter: to a full queue, to a writer that is never started, or   *)
(* to the worker's being behind when the formats were freed.               *)
EncodedIsWritten ==
  main = "done" =>
    /\ \A e \in Encoders : held[e] = 0
    /\ \A o \in 1..Len(queue) :
         queue[o] = "started" => waiting[o] = 0 /\ worker[o] = "ended"
    /\ \A o \in lost : \E p \in 1..o : cfg[p].dest = "youtube"

(* encodeFrame, openFormat, networkLoop, freeOutputs: the threads together *)
(* use FFmpeg as it wants to be used: a full encoder is emptied before it  *)
(* is fed, the null frame comes once and last, a muxer has its header      *)
(* before its packets and never two threads inside, and a trailer comes    *)
(* when every encoder has given up its last packet and nobody is inside.   *)
(* An output with a started writer is excepted from its trailer on: its    *)
(* worker may be inside during the trailer and after it.                   *)
Media == INSTANCE MediaContract WITH
  Threads <- Thread \cup {"worker"},
  Delay <- EncoderDelay,
  muxer <- fmt,
  inside <- Inside,
  frames <- held,
  flushed <- drained,
  streamed <- {o \in 1..Len(queue) : queue[o] = "started"}

ObeysFFmpeg == Media!MediaSpec

(* FreeCapture: whatever the threads are doing, even when no frame ever    *)
(* came and the muxers were never opened, it joins the threads and the     *)
(* workers and returns, with two exceptions: flush() sleeps for ever       *)
(* although the worker has emptied its queue and ended, and an exception   *)
(* (Throws) terminates the process with all its threads.                   *)
Hangs == main = "asleep" /\ waiting[turn] = 0 /\ worker[turn] = "ended"
FreeCaptureEnds ==
  main = "stopping" ~> (main = "done" \/ Hangs \/ main = "dead")
=============================================================================
