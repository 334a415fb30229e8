--------------------------- MODULE Outputs_proofs ---------------------------
(***************************************************************************)
(* Proofs about Outputs: its type invariant, its safety properties, and    *)
(* that it implements MediaContract, for any configurations, any delay of  *)
(* the encoders, any capacity of the writers' queues and any sizes of the  *)
(* audio FIFO that satisfy FifoAssumption.                                 *)
(***************************************************************************)
EXTENDS Outputs, SequenceTheorems, TLAPS

-----------------------------------------------------------------------------
(* The parts of the inductive invariant. *)

Owned(t) == IF t = "video" THEN Videos ELSE Audios
InFrame == {"receive", "opening", "lock", "writing"}

(* The stages of freeOutputs after the threads are joined. *)
Freeing == {"closing", "stopQueues", "asleep", "joinWriter", "done"}

(* How far each thread can be where the main thread is, and whose encoders *)
(* it is at.                                                               *)
Placed ==
  /\ main \in {"making", "failed"} =>
       /\ at = [t \in Thread |-> "off"]
       /\ todo = [t \in Thread |-> {}]
       /\ enc = [t \in Thread |-> <<>>]
       /\ held = [e \in Encoders |-> 0]
       /\ fmt = [o \in 1..Len(queue) |-> "new"]
       /\ waiting = [o \in 1..Len(queue) |-> 0]
       /\ drained = {} /\ flushing = {} /\ lost = {} /\ ~ready
       /\ fifo = 0 /\ ~encoded /\ ~cut
  /\ main \notin {"making", "failed"} =>
       /\ at["video"] # "off"
       /\ audio <=> at["audio"] # "off"
  /\ main \in {"postQuit", "joinVideo"} \cup Freeing => at["audio"] \in {"off", "ended"}
  /\ main \in Freeing => at["video"] = "ended"
  /\ at["video"] \notin {"read", "encode"}
  /\ at["audio"] \notin {"get", "opening"}
  /\ \A t \in Thread :
       /\ todo[t] \subseteq Owned(t)
       /\ at[t] \in InFrame => enc[t] \in Owned(t)

(* Only the video thread opens a muxer, and only one that is new; the      *)
(* audio thread has nothing to write until all are open.                   *)
FormatsInv ==
  /\ \A o \in 1..Len(queue) : fmt[o] \in {"closing", "ended"} => main \in Freeing \cup {"dead"}
  /\ at["video"] = "opening" => fmt[enc["video"][1]] = "new"
  /\ \A t \in Thread : at[t] \in {"lock", "writing"} => fmt[enc[t][1]] = "open"
  /\ main \notin Freeing \cup {"dead"} =>
       /\ ready => AllFormatsOpen(fmt)
       /\ \A e \in Audios : held[e] > 0 => ready
       /\ at["audio"] \in {"encode", "lock", "writing"} => ready
       /\ at["audio"] \in {"feed", "receive"} /\ "audio" \notin flushing => ready
       /\ encoded => ready

(* One encoder writes at a time, and only where there is no NetworkWriter. *)
OneWrites ==
  /\ \A t, u \in Thread : at[t] = "writing" /\ at[u] = "writing" => t = u
  /\ \A t \in Thread : at[t] = "writing" => queue[enc[t][1]] = "none"

(* An encoder holds more than its delay, or anything after the null frame, *)
(* only while a thread takes its packets.                                  *)
TakenBy(e) == \E t \in Thread : at[t] \in InFrame /\ enc[t] = e
HeldInv ==
  /\ \A e \in Encoders : held[e] <= EncoderDelay \/ (\E t \in Thread : at[t] = "receive" /\ enc[t] = e)
  /\ \A e \in drained : held[e] = 0 \/ TakenBy(e)

(* A thread that has left its loop sends the null frame to all it feeds.   *)
FlushInv ==
  \A t \in Thread :
    /\ at[t] = "ended" => t \in flushing /\ todo[t] = {}
    /\ t \in flushing => at[t] \in InFrame \cup {"feed", "ended"}
    /\ t \in flushing => Owned(t) \subseteq drained \cup todo[t]
    /\ t \notin flushing => Owned(t) \cap drained = {}

(* The outputs that have a NetworkWriter, and so may lose packets. *)
LostInv ==
  /\ youtube => \E p \in 1..Len(queue) : cfg[p].dest = "youtube"
  /\ \A o \in 1..Len(queue) : queue[o] # "none" =>
       \E p \in 1..o : cfg[p].dest = "youtube"
  /\ \A o \in lost : queue[o] # "none"

(* A writer's queue is used, and its worker writes, only after the header; *)
(* the worker ends only on an empty queue that was shut down.              *)
WriterInv ==
  \A o \in 1..Len(queue) :
    /\ worker[o] = "none" <=> queue[o] # "started"
    /\ waiting[o] > 0 => queue[o] # "none"
    /\ worker[o] = "writing" \/ waiting[o] > 0 => fmt[o] # "new"
    /\ worker[o] = "ended" => o \in shut /\ waiting[o] = 0

(* The queues that were shut down are empty and their workers joined, but  *)
(* for the one freeOutputs is stopping.                                    *)
StopInv ==
  /\ main \notin {"stopQueues", "asleep", "joinWriter", "done", "dead"} => shut = {}
  /\ main \in {"asleep", "joinWriter"} => turn \in shut
  /\ \A o \in shut :
       /\ queue[o] = "started"
       /\ worker[o] = "ended" \/ (turn = o /\ main \in {"asleep", "joinWriter", "dead"})
       /\ waiting[o] = 0 \/ (turn = o /\ main \in {"asleep", "dead"})
  /\ main = "done" => \A o \in 1..Len(queue) : queue[o] = "started" => o \in shut

(* Between two frames less than a frame is left in the FIFO. *)
FifoInv ==
  /\ ~cut
  /\ encoded /\ at["audio"] \in {"loop", "read"} => fifo < FrameSize

Inv ==
  /\ TypeOK /\ Placed /\ FormatsInv /\ OneWrites /\ HeldInv /\ FlushInv
  /\ LostInv /\ WriterInv /\ StopInv /\ FifoInv
-----------------------------------------------------------------------------
(* Facts. *)

(* What FifoAssumption says of the numbers. *)
LEMMA Sizes ==
  /\ QueueCapacity \in Nat /\ QueueCapacity > 0
  /\ EncoderDelay \in Nat /\ FifoSize \in Nat /\ FrameSize \in Nat /\ FrameSize > 0
  /\ \A n \in ReadSizes : n \in Nat /\ n + FrameSize <= FifoSize
BY FifoAssumption, QueueAssumption

(* An encoder is a video or an audio encoder of an output that has been    *)
(* made.                                                                   *)
LEMMA EncodersOfOutputs ==
  ASSUME TypeOK
  PROVE  /\ Encoders = Videos \cup Audios /\ Videos \cap Audios = {}
         /\ \A e \in Encoders : e[1] \in 1..Len(queue) /\ (IsVideo(e) <=> e \in Videos)
         /\ <<>> \notin Encoders
         /\ ~audio => Audios = {}
<1>1. \A e \in Videos : e[1] \in 1..Len(queue) /\ e[2] # 0 /\ e = <<e[1], e[2]>>
  BY DEF Videos, VideosOf
<1>2. \A e \in Audios : e[1] \in 1..Len(queue) /\ e[2] = 0 /\ e = <<e[1], e[2]>>
  BY DEF Audios, AudiosOf
<1>3. ~audio => Audios = {}
  BY DEF Audios, AudiosOf
<1>4. QED
  BY <1>1, <1>2, <1>3 DEF Encoders, IsVideo

(* av_audio_fifo_drain makes room enough for what was read.                *)
LEMMA KeptFits ==
  ASSUME NEW n \in ReadSizes, NEW before \in 0..FifoSize
  PROVE  Kept(before, n) + n \in 0..FifoSize
<1>1. n \in Nat /\ FifoSize \in Nat /\ n <= FifoSize
  BY Sizes
<1>2. CASE FifoSize - before < n
  BY <1>1, <1>2 DEF Kept, Overflows
<1>3. CASE ~(FifoSize - before < n)
  BY <1>1, <1>3 DEF Kept, Overflows
<1>4. QED
  BY <1>2, <1>3

(* Once the outputs are made the encoders stay what they are. *)
Settled == UNCHANGED <<cfg, audio, youtube, queue>>

(* While the outputs stay, so do the encoders. *)
LEMMA SettledEncoders ==
  ASSUME Settled
  PROVE  /\ Videos' = Videos /\ Audios' = Audios /\ Encoders' = Encoders
         /\ Owned("video")' = Videos /\ Owned("audio")' = Audios
         /\ Len(queue)' = Len(queue)
BY DEF Settled, Videos, VideosOf, Audios, AudiosOf, Encoders, Owned

(* Only what handles a packet of a NetworkWriter, or stops one, can        *)
(* disturb what is known of them.                                          *)
LEMMA WritersStay ==
  ASSUME Inv, Settled, UNCHANGED netVars, UNCHANGED shut
  PROVE  /\ LostInv'
         /\ (\A o \in 1..Len(queue) : fmt[o] # "new" => fmt'[o] # "new") => WriterInv'
         /\ UNCHANGED <<main, turn>> => StopInv'
<1> USE DEF Inv, Settled, netVars
<1>1. LostInv'
  BY DEF LostInv
<1>2. (\A o \in 1..Len(queue) : fmt[o] # "new" => fmt'[o] # "new") => WriterInv'
  BY DEF WriterInv
<1>3. UNCHANGED <<main, turn>> => StopInv'
  BY DEF StopInv
<1>4. QED
  BY <1>1, <1>2, <1>3

(* TypeOK, one part of the state at a time. *)
Flags == {cameras, stop, quit, ready, encoded, recent, cut} \subseteq BOOLEAN
Numbers == held \in [Encoders -> 0..(EncoderDelay + 1)] /\ fifo \in 0..FifoSize
Sets ==
  /\ fmt \in [1..Len(queue) -> {"new", "open", "closing", "ended"}]
  /\ drained \subseteq Encoders
  /\ flushing \subseteq Thread
Writers ==
  /\ waiting \in [1..Len(queue) -> 0..QueueCapacity]
  /\ worker \in [1..Len(queue) -> {"none", "pop", "writing", "ended"}]
  /\ turn \in 0..Len(cfg)
  /\ shut \cup lost \subseteq 1..Len(queue)
Positions ==
  /\ at \in [Thread -> {"off", "loop", "get", "read", "encode", "feed",
                        "receive", "opening", "lock", "writing", "ended"}]
  /\ todo \in [Thread -> SUBSET Encoders]
  /\ enc \in [Thread -> Encoders \cup {<<>>}]

(* The type invariant, one part of the state at a time. *)
LEMMA TypesByParts ==
  ASSUME TypeOK, Settled, main' \in Freeing \cup {main},
         Flags', Numbers', Sets', Writers', Positions'
  PROVE  TypeOK'
BY SettledEncoders DEF TypeOK, Settled, Flags, Numbers, Sets, Writers, Positions, Freeing

(* What freeOutputs does once the threads are joined keeps the invariant   *)
(* if it keeps what is known of the queues it has stopped.                 *)
LEMMA FreeingKeepsInv ==
  ASSUME Inv, Settled, main \in Freeing, main' \in Freeing,
         UNCHANGED <<cameras, stop, quit, at, held, drained, todo, enc, flushing>>,
         UNCHANGED <<netVars, audioVars>>,
         ready' \in {ready, FALSE},
         fmt' \in [1..Len(queue) -> {"new", "open", "closing", "ended"}],
         \A o \in 1..Len(queue) : fmt[o] # "new" => fmt'[o] # "new",
         turn' \in 0..Len(cfg), shut \subseteq shut', shut' \subseteq 1..Len(queue),
         StopInv'
  PROVE  Inv'
<1> USE DEF Inv
<1>1. TypeOK'
  <2>1. Flags'
    BY DEF Flags, TypeOK, audioVars
  <2>2. Numbers' /\ Positions'
    BY SettledEncoders DEF Numbers, Positions, TypeOK, audioVars
  <2>3. Sets' /\ Writers'
    BY SettledEncoders DEF Sets, Writers, TypeOK, netVars, Settled
  <2>4. QED
    BY <2>1, <2>2, <2>3, TypesByParts
<1>2. /\ at["video"] = "ended" /\ at["audio"] \in {"off", "ended"}
      /\ main \notin {"making", "failed", "dead"} /\ main' \notin {"making", "failed", "dead"}
  BY DEF Placed, Freeing
<1>3. Placed'
  BY <1>2, SettledEncoders DEF Placed, Settled, Owned, InFrame, Thread
<1>4. FormatsInv' /\ OneWrites'
  BY <1>2 DEF FormatsInv, OneWrites, Thread
<1>5. HeldInv' /\ FlushInv'
  BY <1>2, SettledEncoders DEF HeldInv, FlushInv, TakenBy, Owned, InFrame, Thread
<1>6. LostInv' /\ WriterInv'
  BY DEF LostInv, WriterInv, Settled, netVars
<1>7. FifoInv'
  BY DEF FifoInv, audioVars
<1>8. QED
  BY <1>1, <1>3, <1>4, <1>5, <1>6, <1>7

(* The main thread, once all outputs are made, keeps the invariant. *)
LEMMA MainKeepsInv ==
  ASSUME Inv, main # "dead",
         \/ InitFails \/ StartThreads \/ StartCams \/ StopCams \/ FreeStep
         \/ FlushWakes \/ Throws
  PROVE  Inv'
<1> USE EncodersOfOutputs DEF Inv, Placed, FormatsInv, OneWrites, HeldInv, FlushInv, FifoInv,
          TakenBy, AllFormatsOpen, Owned, InFrame, Thread, mainVars, audioVars, encVars, netVars,
          Freeing
<1>1. CASE InitFails
  <2> USE <1>1 DEF InitFails
  <2>1. Settled
    BY DEF Settled
  <2>2. TypeOK'
    BY <2>1, SettledEncoders DEF TypeOK
  <2>3. StopInv'
    BY <2>1 DEF StopInv, Settled
  <2>4. LostInv' /\ WriterInv'
    BY <2>1, WritersStay
  <2>5. QED
    BY <2>1, <2>2, <2>3, <2>4, SettledEncoders DEF TypeOK
<1>2. CASE StartThreads
  <2> USE <1>2 DEF StartThreads
  <2>1. Settled
    BY DEF Settled
  <2>2. TypeOK'
    BY <2>1, SettledEncoders DEF TypeOK
  <2>3. StopInv'
    BY <2>1 DEF StopInv, Settled
  <2>4. LostInv' /\ WriterInv'
    BY <2>1, WritersStay
  <2>5. QED
    BY <2>1, <2>2, <2>3, <2>4, SettledEncoders DEF TypeOK
<1>3. CASE StartCams
  <2> USE <1>3 DEF StartCams, MainSteps
  <2>1. Settled
    BY DEF Settled
  <2>2. TypeOK'
    BY <2>1, SettledEncoders DEF TypeOK
  <2>3. StopInv'
    BY <2>1 DEF StopInv, Settled
  <2>4. LostInv' /\ WriterInv'
    BY <2>1, WritersStay
  <2>5. QED
    BY <2>1, <2>2, <2>3, <2>4, SettledEncoders DEF TypeOK
<1>4. CASE StopCams
  <2> USE <1>4 DEF StopCams, MainSteps
  <2>1. Settled
    BY DEF Settled
  <2>2. TypeOK'
    BY <2>1, SettledEncoders DEF TypeOK
  <2>3. StopInv'
    BY <2>1 DEF StopInv, Settled
  <2>4. LostInv' /\ WriterInv'
    BY <2>1, WritersStay
  <2>5. QED
    BY <2>1, <2>2, <2>3, <2>4, SettledEncoders DEF TypeOK
<1>5. CASE StopThreads
  <2> USE <1>5 DEF StopThreads, MainSteps
  <2>1. Settled
    BY DEF Settled
  <2>2. TypeOK'
    BY <2>1, SettledEncoders DEF TypeOK
  <2>3. StopInv'
    BY <2>1 DEF StopInv, Settled
  <2>4. LostInv' /\ WriterInv'
    BY <2>1, WritersStay
  <2>5. QED
    BY <2>1, <2>2, <2>3, <2>4, SettledEncoders DEF TypeOK
<1>6. CASE JoinAudio
  <2> USE <1>6 DEF JoinAudio, MainSteps
  <2>1. Settled
    BY DEF Settled
  <2>2. TypeOK'
    BY <2>1, SettledEncoders DEF TypeOK
  <2>3. StopInv'
    BY <2>1 DEF StopInv, Settled
  <2>4. LostInv' /\ WriterInv'
    BY <2>1, WritersStay
  <2>5. QED
    BY <2>1, <2>2, <2>3, <2>4, SettledEncoders DEF TypeOK
<1>7. CASE PostQuit
  <2> USE <1>7 DEF PostQuit, MainSteps
  <2>1. Settled
    BY DEF Settled
  <2>2. TypeOK'
    BY <2>1, SettledEncoders DEF TypeOK
  <2>3. StopInv'
    BY <2>1 DEF StopInv, Settled
  <2>4. LostInv' /\ WriterInv'
    BY <2>1, WritersStay
  <2>5. QED
    BY <2>1, <2>2, <2>3, <2>4, SettledEncoders DEF TypeOK
<1>8. CASE JoinVideo
  <2> USE <1>8 DEF JoinVideo, MainSteps
  <2>1. Settled
    BY DEF Settled
  <2>2. TypeOK'
    BY <2>1, SettledEncoders DEF TypeOK
  <2>3. StopInv'
    BY <2>1 DEF StopInv, Settled
  <2>4. LostInv' /\ WriterInv'
    BY <2>1, WritersStay
  <2>5. QED
    BY <2>1, <2>2, <2>3, <2>4, SettledEncoders DEF TypeOK
<1>9. CASE Throws
  <2>0. /\ main' = "dead"
        /\ UNCHANGED <<cfg, audio, youtube, queue, cameras, shut, turn, stop, quit, at>>
        /\ UNCHANGED <<fmt, ready, held, drained, todo, enc, flushing, waiting, worker, lost>>
        /\ UNCHANGED <<fifo, encoded, recent, cut>>
        /\ main # "making" /\ main # "failed"
    <3>1. main \in {"making", "failed"} => \A t \in Thread : at[t] = "off"
      BY DEF Placed
    <3>2. main \in {"making", "failed"} =>
            \A o \in 1..Len(queue) : fmt[o] = "new"
      BY DEF Placed
    <3>3. QED
      BY <1>9, <3>1, <3>2 DEF Throws, Late, Thread
  <2>1. Settled
    BY <2>0 DEF Settled
  <2>2. TypeOK'
    BY <2>0, <2>1, SettledEncoders DEF TypeOK
  <2>3. StopInv'
    BY <2>0, <2>1 DEF StopInv, Settled
  <2>4. LostInv' /\ WriterInv'
    BY <2>0, <2>1, WritersStay
  <2>5. Placed'
    BY <2>0, <2>1, SettledEncoders DEF Placed, Freeing
  <2>6. FormatsInv'
    BY <2>0, <2>1, SettledEncoders DEF FormatsInv, Freeing
  <2>7. OneWrites' /\ FlushInv' /\ FifoInv'
    BY <2>0, <2>1, SettledEncoders DEF OneWrites, FlushInv, FifoInv, Owned
  <2>8. HeldInv'
    BY <2>0, <2>1, SettledEncoders DEF HeldInv, TakenBy
  <2>9. QED
    BY <2>2, <2>3, <2>4, <2>5, <2>6, <2>7, <2>8
<1> HIDE DEF Inv, Placed, FormatsInv, OneWrites, HeldInv, FlushInv, FifoInv, TakenBy,
         AllFormatsOpen, Owned, InFrame, mainVars, audioVars, encVars, netVars
<1> USE DEF Freeing, MainSteps
<1>t. /\ Len(queue) \in Nat /\ Len(cfg) \in Nat /\ Len(queue) <= Len(cfg)
      /\ fmt \in [1..Len(queue) -> {"new", "open", "closing", "ended"}]
      /\ turn \in 0..Len(cfg) /\ shut \subseteq 1..Len(queue)
  BY LenProperties, ConfigAssumption DEF Inv, TypeOK
<1>10. CASE TrailerBegins \/ FreeFormat
  <2> USE <1>10 DEF TrailerBegins, FreeFormat
  <2>1. Settled /\ main = "closing" /\ main' = "closing" /\ UNCHANGED shut /\ shut = {}
    BY DEF Settled, Inv, StopInv
  <2>2. StopInv'
    BY <2>1 DEF StopInv
  <2>3. /\ fmt' \in [1..Len(queue) -> {"new", "open", "closing", "ended"}]
        /\ \A o \in 1..Len(queue) : fmt[o] # "new" => fmt'[o] # "new"
        /\ turn' \in 0..Len(cfg)
    BY <1>t
  <2>4. QED
    BY <1>t, <2>1, <2>2, <2>3, FreeingKeepsInv DEF audioVars
<1>11. CASE FormatsFreed \/ FlushWakes \/ JoinWriter \/ QueuesStopped
  <2> USE <1>11 DEF FormatsFreed, FlushWakes, JoinWriter, QueuesStopped
  <2>1. Settled /\ UNCHANGED <<shut, turn, fmt, ready>> /\ main \in Freeing /\ main' \in Freeing
    BY DEF Settled
  <2>2. StopInv'
    BY <2>1 DEF StopInv, Settled, Inv, netVars
  <2>3. QED
    BY <1>t, <2>1, <2>2, FreeingKeepsInv DEF audioVars
<1>12. ASSUME NEW o \in 1..Len(queue), StopQueue(o)
       PROVE  Inv'
  <2> USE <1>12 DEF StopQueue
  <2>1. /\ Settled /\ UNCHANGED <<fmt, ready>> /\ main \in Freeing /\ main' \in Freeing
        /\ turn' = o /\ shut' = shut \cup {o}
    BY DEF Settled
  <2>2. StopInv'
    BY <2>1 DEF StopInv, Settled, Inv, netVars
  <2>3. QED
    BY <1>t, <2>1, <2>2, FreeingKeepsInv DEF audioVars
<1>13. QED
  BY <1>1, <1>2, <1>3, <1>4, <1>5, <1>6, <1>7, <1>8, <1>9, <1>10, <1>11, <1>12 DEF FreeStep

(* What the steps of the threads find at the encoder they are at. *)
LEMMA AtEncoder ==
  ASSUME Inv, NEW t \in Thread
  PROVE  /\ at[t] \in InFrame => enc[t] \in Encoders /\ enc[t][1] \in 1..Len(queue)
         /\ at[t] = "feed" => \A e \in todo[t] : e \in Encoders /\ held[e] <= EncoderDelay
<1>1. /\ todo[t] \subseteq Owned(t)
      /\ \A u \in Thread : at[u] \in InFrame => enc[u] \in Owned(u)
  BY DEF Inv, Placed
<1>2. Owned("video") \cap Owned("audio") = {} /\ Owned(t) \subseteq Encoders
  BY EncodersOfOutputs DEF Inv, Owned
<1>3. ASSUME at[t] = "feed", NEW e \in todo[t]
      PROVE  held[e] <= EncoderDelay
  <2>1. e \in Encoders /\ \A u \in Thread : at[u] = "receive" => enc[u] # e
    BY <1>1, <1>2, <1>3 DEF Thread, InFrame
  <2>2. QED
    BY <2>1 DEF Inv, HeldInv
<1>4. QED
  BY <1>1, <1>2, <1>3, EncodersOfOutputs DEF Inv

(* The steps of the encoding threads keep the type invariant. *)
LEMMA ThreadsKeepTypes ==
  ASSUME Inv, main # "dead",
         VideoStep \/ AudioStep \/ \E t \in Thread : WriteBegins(t) \/ Enqueue(t)
  PROVE  TypeOK'
<1> USE DEF mainVars, audioVars, encVars, Thread, Goto
<1>1. Settled /\ TypeOK
  BY DEF VideoStep, AudioStep, EncodeStep, VideoLoop, VideoGets, AudioLoop, AudioReads,
         AudioEncodes, SendFrame, ReceivePacket, OpenFormat, WriteBegins, WriteEnds,
         Enqueue, Fed, Settled, Inv
<1>2. /\ Encoders' = Encoders /\ Len(queue)' = Len(queue)
      /\ Videos \subseteq Encoders /\ Audios \subseteq Encoders
  BY <1>1, SettledEncoders, EncodersOfOutputs
<1>w. UNCHANGED netVars /\ UNCHANGED <<shut, turn>> => Writers'
  BY <1>1, <1>2 DEF TypeOK, Writers, netVars, Settled
<1> USE <1>1, <1>2 DEF Settled, TypeOK
<1>3. CASE VideoLoop
  <2>1. Flags'
    BY <1>3 DEF VideoLoop, LeaveLoop, FlushedByVideo, Flags
  <2>2. Numbers'
    BY <1>3 DEF VideoLoop, LeaveLoop, FlushedByVideo, Numbers
  <2>3. Sets'
    BY <1>3 DEF VideoLoop, LeaveLoop, FlushedByVideo, Sets
  <2>4. Positions'
    BY <1>3 DEF VideoLoop, LeaveLoop, FlushedByVideo, Positions
  <2>5. QED
    BY <1>3, <1>w, <2>1, <2>2, <2>3, <2>4, TypesByParts DEF VideoLoop
<1>4. CASE VideoGets
  <2>1. Flags'
    BY <1>4 DEF VideoGets, Flags
  <2>2. Numbers'
    BY <1>4 DEF VideoGets, Numbers
  <2>3. Sets'
    BY <1>4 DEF VideoGets, Sets
  <2>4. Positions'
    BY <1>4 DEF VideoGets, Positions
  <2>5. QED
    BY <1>4, <1>w, <2>1, <2>2, <2>3, <2>4, TypesByParts DEF VideoGets
<1>5. CASE AudioLoop
  <2>1. Flags'
    BY <1>5 DEF AudioLoop, LeaveLoop, AudioStops, Flags
  <2>2. Numbers'
    BY <1>5 DEF AudioLoop, LeaveLoop, AudioStops, Numbers
  <2>3. Sets'
    <3>1. flushing' \in {flushing, flushing \cup {"audio"}} /\ UNCHANGED <<fmt, drained>>
      BY <1>5 DEF AudioLoop, LeaveLoop, AudioStops
    <3>2. QED
      BY <3>1 DEF Sets
  <2>4. Positions'
    BY <1>5 DEF AudioLoop, LeaveLoop, AudioStops, Positions
  <2>5. QED
    BY <1>5, <1>w, <2>1, <2>2, <2>3, <2>4, TypesByParts DEF AudioLoop
<1>6. CASE AudioEncodes
  <2>1. Flags'
    BY <1>6, Sizes DEF AudioEncodes, Flags
  <2>2. Numbers'
    BY <1>6, Sizes DEF AudioEncodes, Numbers
  <2>3. Sets'
    BY <1>6, Sizes DEF AudioEncodes, Sets
  <2>4. Positions'
    BY <1>6, Sizes DEF AudioEncodes, Positions
  <2>5. QED
    BY <1>6, <1>w, <2>1, <2>2, <2>3, <2>4, TypesByParts DEF AudioEncodes
<1>7. ASSUME NEW n \in ReadSizes, AudioReads(n)
      PROVE  TypeOK'
  <2>1. Flags'
    BY <1>7, Sizes DEF AudioReads, Kept, Overflows, Flags
  <2>2. Numbers'
    <3>1. /\ held' = held
          /\ \E before \in {0, fifo} : fifo' = Kept(before, n) + n
      BY <1>7 DEF AudioReads
    <3>2. \A before \in 0..FifoSize : Kept(before, n) + n \in 0..FifoSize
      BY <1>7, KeptFits
    <3>3. 0 \in 0..FifoSize /\ fifo \in 0..FifoSize
      BY Sizes
    <3>4. QED
      BY <3>1, <3>2, <3>3, SMTT(30) DEF Numbers
  <2>3. Sets'
    BY <1>7, Sizes DEF AudioReads, Kept, Overflows, Sets
  <2>4. Positions'
    BY <1>7, Sizes DEF AudioReads, Kept, Overflows, Positions
  <2>5. QED
    BY <1>7, <1>w, <2>1, <2>2, <2>3, <2>4, TypesByParts DEF AudioReads
<1>8. ASSUME NEW t \in Thread, NEW e \in Encoders, SendFrame(t, e)
      PROVE  TypeOK'
  <2>1. held[e] <= EncoderDelay
    BY <1>8, AtEncoder DEF SendFrame
  <2>2. Flags'
    BY <1>8 DEF SendFrame, Flags
  <2>3. Numbers'
    <3>1. held' \in {held, [held EXCEPT ![e] = @ + 1]} /\ UNCHANGED fifo
      BY <1>8 DEF SendFrame
    <3>2. held[e] + 1 \in 0..(EncoderDelay + 1)
      BY <2>1, Sizes
    <3>3. QED
      BY <3>1, <3>2 DEF Numbers
  <2>4. Sets'
    BY <1>8 DEF SendFrame, Sets
  <2>5. Positions'
    BY <1>8 DEF SendFrame, Positions
  <2>6. QED
    BY <1>8, <1>w, <2>2, <2>3, <2>4, <2>5, TypesByParts DEF SendFrame
<1>9. ASSUME NEW t \in Thread,
             \/ ReceivePacket(t) \/ OpenFormat(t) \/ WriteBegins(t) \/ WriteEnds(t)
             \/ Enqueue(t) \/ Fed(t)
      PROVE  TypeOK'
  <2>1. at[t] \in InFrame => enc[t] \in Encoders /\ enc[t][1] \in 1..Len(queue)
    BY AtEncoder
  <2> USE <2>1 DEF InFrame
  <2>2. CASE ReceivePacket(t)
    <3>1. Flags' /\ Sets'
      BY <2>2 DEF ReceivePacket, Flags, Sets
    <3>2. Numbers'
      <4>1. held' \in {held, [held EXCEPT ![enc[t]] = @ - 1]} /\ UNCHANGED fifo
        BY <2>2 DEF ReceivePacket
      <4>2. held' # held => held[enc[t]] > 0
        BY <2>1, <2>2, Sizes DEF ReceivePacket
      <4>3. held[enc[t]] > 0 => held[enc[t]] - 1 \in 0..(EncoderDelay + 1)
        BY <2>1, <2>2, Sizes DEF ReceivePacket
      <4>4. QED
        BY <4>1, <4>2, <4>3 DEF Numbers
    <3>3. Positions'
      BY <2>2 DEF ReceivePacket, Positions
    <3>4. QED
      BY <2>2, <1>w, <3>1, <3>2, <3>3, TypesByParts DEF ReceivePacket
  <2>3. CASE OpenFormat(t)
    <3>1. Flags'
      BY <2>3 DEF OpenFormat, AllFormatsOpen, Flags
    <3>2. Numbers'
      BY <2>3 DEF OpenFormat, AllFormatsOpen, Numbers
    <3>3. Sets'
      BY <2>3 DEF OpenFormat, AllFormatsOpen, Sets
    <3>4. Positions'
      BY <2>3 DEF OpenFormat, AllFormatsOpen, Positions
    <3>5. QED
      BY <2>3, <1>w, <3>1, <3>2, <3>3, <3>4, TypesByParts DEF OpenFormat
  <2>4. CASE WriteBegins(t)
    <3>1. Flags' /\ Numbers' /\ Sets' /\ Positions'
      BY <2>4 DEF WriteBegins, Flags, Numbers, Sets, Positions
    <3>2. QED
      BY <2>4, <1>w, <3>1, TypesByParts DEF WriteBegins
  <2>5. CASE WriteEnds(t)
    <3>1. Flags' /\ Numbers' /\ Sets' /\ Positions'
      BY <2>5 DEF WriteEnds, Flags, Numbers, Sets, Positions
    <3>2. QED
      BY <2>5, <1>w, <3>1, TypesByParts DEF WriteEnds
  <2>6. CASE Fed(t)
    <3>1. Flags' /\ Numbers' /\ Sets' /\ Positions'
      BY <2>6 DEF Fed, AfterFrame, Flags, Numbers, Sets, Positions
    <3>2. QED
      BY <2>6, <1>w, <3>1, TypesByParts DEF Fed
  <2>7. CASE Enqueue(t)
    <3>1. Flags' /\ Numbers' /\ Sets' /\ Positions'
      BY <2>7 DEF Enqueue, Flags, Numbers, Sets, Positions
    <3>2. Writers'
      <4>1. at[t] = "lock" /\ enc[t][1] \in 1..Len(queue)
        BY <2>1, <2>7 DEF Enqueue
      <4>2. waiting[enc[t][1]] # QueueCapacity => waiting[enc[t][1]] + 1 \in 0..QueueCapacity
        <5>1. waiting[enc[t][1]] \in 0..QueueCapacity
          BY <4>1
        <5>2. QED
          BY <5>1, Sizes, SMTT(30)
      <4>3. UNCHANGED <<worker, shut, turn>> /\ lost' \in {lost, lost \cup {enc[t][1]}}
        BY <2>7 DEF Enqueue
      <4>4. waiting' \in {waiting, [waiting EXCEPT ![enc[t][1]] = @ + 1]}
            /\ (waiting' # waiting => waiting[enc[t][1]] # QueueCapacity)
        BY <2>7 DEF Enqueue
      <4>5. waiting' \in [1..Len(queue) -> 0..QueueCapacity]
        BY <4>1, <4>2, <4>4, SMTT(30)
      <4>6. QED
        BY <4>1, <4>3, <4>5 DEF Writers
    <3>3. QED
      BY <2>7, <3>1, <3>2, TypesByParts DEF Enqueue
  <2>8. QED
    BY <1>9, <2>2, <2>3, <2>4, <2>5, <2>6, <2>7
<1>10. QED
  BY <1>3, <1>4, <1>5, <1>6, <1>7, <1>8, <1>9 DEF VideoStep, AudioStep, EncodeStep

(* The steps of the encoding threads keep the invariant. *)
LEMMA ThreadsKeepInv ==
  ASSUME Inv, main # "dead",
         VideoStep \/ AudioStep \/ \E t \in Thread : WriteBegins(t) \/ Enqueue(t)
  PROVE  Inv'
<1>1. Settled /\ TypeOK /\ TypeOK'
  BY ThreadsKeepTypes
     DEF VideoStep, AudioStep, EncodeStep, VideoLoop, VideoGets, AudioLoop, AudioReads,
         AudioEncodes, SendFrame, ReceivePacket, OpenFormat, WriteBegins, WriteEnds,
         Enqueue, Fed, Settled, Inv, mainVars
<1>2. /\ UNCHANGED netVars /\ UNCHANGED <<shut, turn, main>> => LostInv' /\ StopInv'
      /\ UNCHANGED netVars /\ UNCHANGED <<shut, turn, main, fmt>> => WriterInv'
  BY <1>1, WritersStay
<1>f. ASSUME NEW t \in Thread, at[t] \notin {"off", "ended"}
      PROVE  main \notin Freeing \cup {"dead", "making", "failed"}
  BY <1>f DEF Inv, Placed, Thread
<1> USE <1>1, EncodersOfOutputs, SettledEncoders
        DEF Inv, mainVars, audioVars, encVars, Thread, Goto, Owned, InFrame, TypeOK
<1>3. CASE VideoLoop
  <2>1. Placed'
    BY <1>3 DEF VideoLoop, LeaveLoop, FlushedByVideo, Placed
  <2>2. FormatsInv'
    BY <1>3 DEF VideoLoop, LeaveLoop, FlushedByVideo, Placed, FormatsInv, AllFormatsOpen, FlushInv
  <2>3. OneWrites'
    BY <1>3 DEF VideoLoop, LeaveLoop, FlushedByVideo, Placed, OneWrites
  <2>4. HeldInv'
    BY <1>3 DEF VideoLoop, LeaveLoop, FlushedByVideo, Placed, HeldInv, TakenBy, FlushInv
  <2>5. FlushInv'
    BY <1>3 DEF VideoLoop, LeaveLoop, FlushedByVideo, Placed, FlushInv
  <2>6. FifoInv'
    BY <1>3 DEF VideoLoop, LeaveLoop, FlushedByVideo, Placed, FifoInv, FormatsInv, FlushInv
  <2>7. LostInv' /\ WriterInv' /\ StopInv'
    BY <1>2, <1>3 DEF VideoLoop
  <2>8. QED
    BY <2>1, <2>2, <2>3, <2>4, <2>5, <2>6, <2>7
<1>4. CASE VideoGets
  <2>1. Placed'
    BY <1>4 DEF VideoGets, Placed
  <2>2. FormatsInv'
    BY <1>4 DEF VideoGets, Placed, FormatsInv, AllFormatsOpen, FlushInv
  <2>3. OneWrites'
    BY <1>4 DEF VideoGets, Placed, OneWrites
  <2>4. HeldInv'
    BY <1>4 DEF VideoGets, Placed, HeldInv, TakenBy, FlushInv
  <2>5. FlushInv'
    BY <1>4 DEF VideoGets, Placed, FlushInv
  <2>6. FifoInv'
    BY <1>4 DEF VideoGets, Placed, FifoInv, FormatsInv, FlushInv
  <2>7. LostInv' /\ WriterInv' /\ StopInv'
    BY <1>2, <1>4 DEF VideoGets
  <2>8. QED
    BY <2>1, <2>2, <2>3, <2>4, <2>5, <2>6, <2>7
<1>5. CASE AudioLoop
  <2>1. Placed'
    BY <1>5 DEF AudioLoop, LeaveLoop, AudioStops, Placed
  <2>2. FormatsInv'
    BY <1>5 DEF AudioLoop, LeaveLoop, AudioStops, Placed, FormatsInv, AllFormatsOpen, FlushInv
  <2>3. OneWrites'
    BY <1>5 DEF AudioLoop, LeaveLoop, AudioStops, Placed, OneWrites
  <2>4. HeldInv'
    BY <1>5, SMTT(30) DEF AudioLoop, LeaveLoop, AudioStops, Placed, HeldInv, TakenBy, FlushInv
  <2>5. FlushInv'
    BY <1>5 DEF AudioLoop, LeaveLoop, AudioStops, Placed, FlushInv
  <2>6. FifoInv'
    BY <1>5 DEF AudioLoop, LeaveLoop, AudioStops, Placed, FifoInv, FormatsInv, FlushInv
  <2>7. LostInv' /\ WriterInv' /\ StopInv'
    BY <1>2, <1>5 DEF AudioLoop
  <2>8. QED
    BY <2>1, <2>2, <2>3, <2>4, <2>5, <2>6, <2>7
<1>6. CASE AudioEncodes
  <2>1. Placed'
    BY <1>6, Sizes DEF AudioEncodes, Placed
  <2>2. FormatsInv'
    BY <1>6, Sizes DEF AudioEncodes, Placed, FormatsInv, AllFormatsOpen, FlushInv
  <2>3. OneWrites'
    BY <1>6, Sizes DEF AudioEncodes, Placed, OneWrites
  <2>4. HeldInv'
    BY <1>6, Sizes DEF AudioEncodes, Placed, HeldInv, TakenBy, FlushInv
  <2>5. FlushInv'
    BY <1>6, Sizes DEF AudioEncodes, Placed, FlushInv
  <2>6. FifoInv'
    BY <1>6, Sizes DEF AudioEncodes, Placed, FifoInv, FormatsInv, FlushInv
  <2>7. LostInv' /\ WriterInv' /\ StopInv'
    BY <1>2, <1>6 DEF AudioEncodes
  <2>8. QED
    BY <2>1, <2>2, <2>3, <2>4, <2>5, <2>6, <2>7
<1>7. ASSUME NEW n \in ReadSizes, AudioReads(n)
      PROVE  Inv'
  <2>1. Placed'
    <3>1. /\ at["audio"] = "read" /\ main \notin {"making", "failed"}
          /\ at' = [at EXCEPT !["audio"] = IF ready THEN "encode" ELSE "loop"]
          /\ UNCHANGED <<main, audio, todo, enc>>
      BY <1>7 DEF AudioReads, Placed
    <3>2. QED
      BY <3>1 DEF Placed
  <2>2. FormatsInv'
    BY <1>7, Sizes DEF AudioReads, Kept, Overflows, Placed, FormatsInv, AllFormatsOpen, FlushInv
  <2>3. OneWrites'
    BY <1>7, Sizes DEF AudioReads, Kept, Overflows, Placed, OneWrites
  <2>4. HeldInv'
    BY <1>7, Sizes, SMTT(30) DEF AudioReads, Kept, Overflows, Placed, HeldInv, TakenBy, FlushInv
  <2>5. FlushInv'
    BY <1>7, Sizes, SMTT(30) DEF AudioReads, Kept, Overflows, Placed, FlushInv
  <2>6. FifoInv'
    BY <1>7, Sizes DEF AudioReads, Kept, Overflows, Placed, FifoInv, FormatsInv, FlushInv
  <2>7. LostInv' /\ WriterInv' /\ StopInv'
    BY <1>2, <1>7 DEF AudioReads
  <2>8. QED
    BY <2>1, <2>2, <2>3, <2>4, <2>5, <2>6, <2>7
<1>8. ASSUME NEW t \in Thread, NEW e \in Encoders, SendFrame(t, e)
      PROVE  Inv'
  <2>1. Placed'
    BY <1>8, Sizes DEF SendFrame, Placed
  <2>2. FormatsInv'
    <3>1. /\ at[t] = "feed" /\ at' = [at EXCEPT ![t] = "receive"] /\ enc' = [enc EXCEPT ![t] = e]
          /\ e \in todo[t] /\ UNCHANGED <<main, fmt, ready, encoded, flushing>>
          /\ held' \in {held, [held EXCEPT ![e] = @ + 1]} /\ (t \in flushing => held' = held)
      BY <1>8 DEF SendFrame
    <3>2. main \notin Freeing \cup {"dead"} /\ e \in Owned(t)
      BY <1>f, <3>1 DEF Placed
    <3>3. \A a \in Audios : held'[a] > 0 => ready
      <4>1. CASE t = "audio" /\ t \notin flushing
        BY <3>1, <3>2, <4>1 DEF FormatsInv
      <4>2. CASE t = "video" \/ t \in flushing
        BY <3>1, <3>2, <4>2, SMTT(30) DEF FormatsInv
      <4>3. QED
        BY <4>1, <4>2
    <3>4. QED
      BY <3>1, <3>2, <3>3 DEF FormatsInv, AllFormatsOpen
  <2>3. OneWrites'
    BY <1>8, Sizes DEF SendFrame, Placed, OneWrites
  <2>4. HeldInv'
    BY <1>8, Sizes DEF SendFrame, Placed, HeldInv, TakenBy, FlushInv
  <2>5. FlushInv'
    BY <1>8, Sizes DEF SendFrame, Placed, FlushInv
  <2>6. FifoInv'
    BY <1>8, Sizes DEF SendFrame, Placed, FifoInv, FormatsInv, FlushInv
  <2>7. LostInv' /\ WriterInv' /\ StopInv'
    BY <1>2, <1>8 DEF SendFrame
  <2>8. QED
    BY <2>1, <2>2, <2>3, <2>4, <2>5, <2>6, <2>7
<1>9. ASSUME NEW t \in Thread, ReceivePacket(t)
      PROVE  Inv'
  <2>0. /\ at[t] = "receive" /\ main \notin {"making", "failed"}
        /\ enc[t] \in Owned(t) /\ enc[t] \in Encoders /\ UNCHANGED <<main, audio, todo, enc, drained>>
        /\ held[enc[t]] \in 0..(EncoderDelay + 1)
    BY <1>9 DEF ReceivePacket, Placed
  <2>a. \/ /\ at' = [at EXCEPT ![t] = "feed"] /\ held' = held
           /\ held[enc[t]] <= EncoderDelay
           /\ enc[t] \in drained => held[enc[t]] = 0
        \/ /\ \E p \in {"opening", "lock"} : at' = [at EXCEPT ![t] = p]
           /\ at'[t] = "opening" => IsVideo(enc[t])
           /\ held' = [held EXCEPT ![enc[t]] = @ - 1] /\ held[enc[t]] > 0
    BY <1>9, <2>0, Sizes, SMTT(30) DEF ReceivePacket
  <2>1. Placed'
    <3>1. at'[t] = "opening" => t = "video"
      BY <2>0, <2>a
    <3>2. /\ at' \in {[at EXCEPT ![t] = p] : p \in {"feed", "opening", "lock"}}
          /\ main \notin {"postQuit", "joinVideo"} \cup Freeing \/ t = "video"
          /\ main \notin Freeing
      BY <2>0, <2>a, SMTT(30) DEF Placed
    <3>3. QED
      BY <2>0, <3>1, <3>2 DEF Placed
  <2>2. FormatsInv'
    <3>1. main \notin Freeing \cup {"dead"} /\ enc[t][1] \in 1..Len(queue)
      BY <1>f, <2>0
    <3>2. UNCHANGED <<fmt, ready, encoded, flushing>>
      BY <1>9 DEF ReceivePacket
    <3>3. \A e \in Audios : held'[e] > 0 => held[e] > 0
      <4> SUFFICES ASSUME NEW e \in Audios
                   PROVE  held'[e] > 0 => held[e] > 0
        OBVIOUS
      <4>1. held \in [Encoders -> 0..(EncoderDelay + 1)] /\ e \in Encoders
        BY <1>1 DEF Inv, TypeOK
      <4>2. held[e] \in Nat
        BY <4>1, Sizes
      <4>3. e = enc[t] => held'[e] = held[e] \/ held[e] > 0
        BY <2>a
      <4>4. e # enc[t] => held'[e] = held[e]
        BY <2>a, <4>1
      <4>5. QED
        BY <4>3, <4>4
    <3>4. CASE at'[t] = "feed"
      <4>1. at' = [at EXCEPT ![t] = "feed"] /\ held' = held
        BY <2>0, <2>a, <3>4
      <4>2. Audios' = Audios /\ UNCHANGED <<queue, cfg>>
        BY DEF Settled
      <4>3. at[t] = "receive" /\ t \in Thread /\ UNCHANGED <<main, enc>>
        BY <2>0
      <4>4. (t = "audio" /\ "audio" \notin flushing) => ready
        BY <2>0, <3>1 DEF FormatsInv
      <4>5. QED
        BY <3>1, <3>2, <4>1, <4>2, <4>3, <4>4 DEF FormatsInv, AllFormatsOpen
    <3>5. CASE at'[t] # "feed"
      <4>1. held[enc[t]] > 0 /\ at'[t] \in {"opening", "lock"}
        BY <2>0, <2>a, <3>5
      <4>2. t = "audio" => ready
        BY <2>0, <3>1, <4>1 DEF FormatsInv
      <4>3. /\ at'[t] = "opening" => t = "video" /\ fmt[enc[t][1]] = "new"
            /\ at'[t] = "lock" => ready \/ (t = "video" /\ fmt[enc[t][1]] # "new")
        <5>1. at'[t] = "opening" => IsVideo(enc[t]) /\ fmt[enc[t][1]] = "new"
          BY <1>9, <2>0 DEF ReceivePacket
        <5>2. at'[t] = "lock" => ready \/ ~IsVideo(enc[t]) \/ fmt[enc[t][1]] # "new"
          BY <1>9, <2>0 DEF ReceivePacket
        <5>3. t = "video" <=> IsVideo(enc[t])
          BY <2>0
        <5>4. QED
          BY <4>2, <5>1, <5>2, <5>3
      <4>4. at'[t] = "lock" => fmt[enc[t][1]] = "open"
        <5>1. fmt[enc[t][1]] \in {"new", "open"}
          BY <3>1 DEF FormatsInv
        <5>2. QED
          BY <3>1, <4>3, <5>1 DEF FormatsInv, AllFormatsOpen
      <4>5. \A u \in Thread \ {t} : at'[u] = at[u]
        BY <2>a
      <4>6. QED
        BY <2>0, <3>1, <3>2, <3>3, <4>1, <4>2, <4>3, <4>4, <4>5, SMTT(30) DEF FormatsInv
    <3>6. QED
      BY <3>4, <3>5
  <2>3. OneWrites'
    BY <1>9, Sizes DEF ReceivePacket, Placed, OneWrites
  <2>4. HeldInv'
    <3> DEFINE f == enc[t]
    <3>1. /\ UNCHANGED <<enc, drained>> /\ Encoders' = Encoders /\ f \in Encoders
          /\ held \in [Encoders -> 0..(EncoderDelay + 1)] /\ drained \subseteq Encoders
      BY <1>1, <2>0 DEF Inv, TypeOK
    <3>2. /\ \A u \in Thread \ {t} : at'[u] = at[u]
          /\ \A e \in Encoders \ {f} : held'[e] = held[e]
      BY <2>a, <3>1
    <3>3. held'[f] <= EncoderDelay
      <4>1. held[f] \in Nat /\ held[f] <= EncoderDelay + 1
        BY <2>0, Sizes
      <4>2. (held'[f] = held[f] /\ held[f] <= EncoderDelay) \/ held'[f] = held[f] - 1
        BY <2>a, <3>1
      <4>3. QED
        BY <4>1, <4>2, Sizes
    <3>4. f \in drained => held'[f] = 0 \/ at'[t] \in InFrame
      BY <2>0, <2>a
    <3>5. \A e \in Encoders : held'[e] <= EncoderDelay \/ (\E u \in Thread : at'[u] = "receive" /\ enc'[u] = e)
      <4> SUFFICES ASSUME NEW e \in Encoders, e # f
                   PROVE  held'[e] <= EncoderDelay \/ (\E u \in Thread : at'[u] = "receive" /\ enc'[u] = e)
        BY <3>3
      <4>1. held[e] <= EncoderDelay \/ \E u \in Thread \ {t} : at[u] = "receive" /\ enc[u] = e
        BY DEF HeldInv
      <4>2. QED
        BY <3>1, <3>2, <4>1
    <3>6. \A e \in drained : held'[e] = 0 \/ \E u \in Thread : at'[u] \in InFrame /\ enc'[u] = e
      <4> SUFFICES ASSUME NEW e \in drained, e # f
                   PROVE  held'[e] = 0 \/ \E u \in Thread : at'[u] \in InFrame /\ enc'[u] = e
        BY <2>0, <3>1, <3>4
      <4>1. held[e] = 0 \/ \E u \in Thread \ {t} : at[u] \in InFrame /\ enc[u] = e
        BY DEF HeldInv, TakenBy
      <4>2. QED
        BY <3>1, <3>2, <4>1
    <3>7. QED
      BY <3>1, <3>5, <3>6 DEF HeldInv, TakenBy
  <2>5. FlushInv'
    <3>1. /\ \E p \in {"feed", "opening", "lock"} : at' = [at EXCEPT ![t] = p]
          /\ UNCHANGED <<flushing, todo, drained>> /\ Videos' = Videos /\ Audios' = Audios
      BY <1>9, <2>0, <2>a DEF ReceivePacket
    <3>2. QED
      BY <2>0, <3>1, SMTT(30) DEF FlushInv
  <2>6. FifoInv'
    BY <1>9, Sizes, SMTT(30) DEF ReceivePacket, Placed, FifoInv, FormatsInv, FlushInv
  <2>7. LostInv' /\ WriterInv' /\ StopInv'
    BY <1>2, <1>9 DEF ReceivePacket
  <2>8. QED
    BY <2>1, <2>2, <2>3, <2>4, <2>5, <2>6, <2>7
<1>10. ASSUME NEW t \in Thread, OpenFormat(t)
      PROVE  Inv'
  <2>1. Placed'
    BY <1>10 DEF OpenFormat, Placed
  <2>2. FormatsInv'
    BY <1>10 DEF OpenFormat, Placed, FormatsInv, AllFormatsOpen, FlushInv
  <2>3. OneWrites'
    BY <1>10 DEF OpenFormat, Placed, OneWrites
  <2>4. HeldInv'
    BY <1>10 DEF OpenFormat, Placed, HeldInv, TakenBy, FlushInv
  <2>5. FlushInv'
    BY <1>10 DEF OpenFormat, Placed, FlushInv
  <2>6. FifoInv'
    BY <1>10 DEF OpenFormat, Placed, FifoInv, FormatsInv, FlushInv
  <2>7. LostInv' /\ WriterInv' /\ StopInv'
    <3>1. \A o \in 1..Len(queue) : fmt[o] # "new" => fmt'[o] # "new"
      BY <1>10 DEF OpenFormat
    <3>2. QED
      BY <1>1, <1>10, <3>1, WritersStay DEF OpenFormat
  <2>8. QED
    BY <2>1, <2>2, <2>3, <2>4, <2>5, <2>6, <2>7
<1>11. ASSUME NEW t \in Thread, WriteBegins(t)
      PROVE  Inv'
  <2>1. Placed'
    BY <1>11, SMTT(30) DEF WriteBegins, Placed
  <2>2. FormatsInv'
    BY <1>11 DEF WriteBegins, Placed, FormatsInv, AllFormatsOpen, FlushInv
  <2>3. OneWrites'
    BY <1>11 DEF WriteBegins, OutputMutexFree, OneWrites
  <2>4. HeldInv'
    BY <1>11 DEF WriteBegins, Placed, HeldInv, TakenBy, FlushInv
  <2>5. FlushInv'
    BY <1>11 DEF WriteBegins, Placed, FlushInv
  <2>6. FifoInv'
    BY <1>11 DEF WriteBegins, Placed, FifoInv, FormatsInv, FlushInv
  <2>7. LostInv' /\ WriterInv' /\ StopInv'
    BY <1>2, <1>11 DEF WriteBegins
  <2>8. QED
    BY <2>1, <2>2, <2>3, <2>4, <2>5, <2>6, <2>7
<1>12. ASSUME NEW t \in Thread, WriteEnds(t)
      PROVE  Inv'
  <2>1. Placed'
    BY <1>12 DEF WriteEnds, Placed
  <2>2. FormatsInv'
    BY <1>12 DEF WriteEnds, Placed, FormatsInv, AllFormatsOpen, FlushInv
  <2>3. OneWrites'
    BY <1>12 DEF WriteEnds, Placed, OneWrites
  <2>4. HeldInv'
    BY <1>12 DEF WriteEnds, Placed, HeldInv, TakenBy, FlushInv
  <2>5. FlushInv'
    BY <1>12 DEF WriteEnds, Placed, FlushInv
  <2>6. FifoInv'
    BY <1>12 DEF WriteEnds, Placed, FifoInv, FormatsInv, FlushInv
  <2>7. LostInv' /\ WriterInv' /\ StopInv'
    BY <1>2, <1>12 DEF WriteEnds
  <2>8. QED
    BY <2>1, <2>2, <2>3, <2>4, <2>5, <2>6, <2>7
<1>13. ASSUME NEW t \in Thread, Fed(t)
      PROVE  Inv'
  <2>1. Placed'
    BY <1>13 DEF Fed, AfterFrame, Placed
  <2>2. FormatsInv'
    BY <1>13 DEF Fed, AfterFrame, Placed, FormatsInv, AllFormatsOpen, FlushInv
  <2>3. OneWrites'
    BY <1>13 DEF Fed, AfterFrame, Placed, OneWrites
  <2>4. HeldInv'
    BY <1>13 DEF Fed, AfterFrame, Placed, HeldInv, TakenBy, FlushInv
  <2>5. FlushInv'
    BY <1>13 DEF Fed, AfterFrame, Placed, FlushInv
  <2>6. FifoInv'
    BY <1>13 DEF Fed, AfterFrame, Placed, FifoInv, FormatsInv, FlushInv
  <2>7. LostInv' /\ WriterInv' /\ StopInv'
    BY <1>2, <1>13 DEF Fed
  <2>8. QED
    BY <2>1, <2>2, <2>3, <2>4, <2>5, <2>6, <2>7
<1>14. ASSUME NEW t \in Thread, Enqueue(t)
       PROVE  Inv'
  <2> DEFINE o == enc[t][1]
  <2>0. /\ at[t] = "lock" /\ o \in 1..Len(queue) /\ at' = [at EXCEPT ![t] = "receive"]
        /\ queue[o] # "none" /\ waiting' \in {waiting, [waiting EXCEPT ![o] = @ + 1]}
        /\ lost' \in {lost, lost \cup {o}} /\ UNCHANGED <<main, worker, shut, turn, fmt, held>>
        /\ UNCHANGED <<drained, todo, enc, flushing, ready, audio, fifo, encoded, recent, cut>>
    <3>1. at[t] = "lock" /\ enc[t][1] \in 1..Len(queue)
      BY <1>14, AtEncoder DEF Enqueue
    <3>2. QED
      BY <1>14, <3>1 DEF Enqueue
  <2>d. main \notin Freeing
    BY <1>f, <2>0
  <2>1. Placed'
    BY <2>0 DEF Placed, Freeing
  <2>2. FormatsInv'
    BY <2>0 DEF Placed, FormatsInv, AllFormatsOpen, FlushInv
  <2>3. OneWrites'
    <3>1. \A u \in Thread : at'[u] = "writing" => at[u] = "writing" /\ u # t
      BY <2>0
    <3>2. UNCHANGED <<queue, enc>>
      BY <2>0 DEF Settled
    <3>3. QED
      BY <3>1, <3>2 DEF OneWrites
  <2>4. HeldInv'
    BY <2>0 DEF Placed, HeldInv, TakenBy
  <2>5. FlushInv'
    BY <2>0 DEF FlushInv
  <2>6. FifoInv'
    BY <2>0 DEF FifoInv
  <2>7. LostInv' /\ StopInv'
    <3>1. shut = {}
      BY <2>d, <1>14 DEF StopInv, Freeing
    <3>2. QED
      BY <2>0, <2>d, <3>1 DEF LostInv, StopInv, Settled, Freeing
  <2>8. WriterInv'
    <3>1. fmt[o] = "open" /\ shut = {} /\ worker[o] # "ended"
      BY <2>0, <2>d, <1>14 DEF FormatsInv, StopInv, WriterInv, Freeing
    <3>2. waiting \in [1..Len(queue) -> 0..QueueCapacity] /\ QueueCapacity \in Nat
      BY Sizes
    <3>3. \A p \in 1..Len(queue) : waiting'[p] > 0 => p = o \/ waiting[p] > 0
      BY <2>0, <3>2
    <3>4. \A p \in 1..Len(queue) : p # o => waiting'[p] = waiting[p]
      BY <2>0, <3>2
    <3>5. QED
      BY <2>0, <3>1, <3>3, <3>4 DEF WriterInv, Settled
  <2>9. QED
    BY <2>1, <2>2, <2>3, <2>4, <2>5, <2>6, <2>7, <2>8
<1>15. QED
  BY <1>14, <1>3, <1>4, <1>5, <1>6, <1>7, <1>8, <1>9, <1>10, <1>11, <1>12, <1>13
     DEF VideoStep, AudioStep, EncodeStep

(* The steps of a NetworkWriter's worker keep the invariant. *)
LEMMA WorkerKeepsInv ==
  ASSUME Inv, main # "dead", WorkerStep
  PROVE  Inv'
<1>0. PICK o \in 1..Len(queue) : WorkerPops(o) \/ WorkerWrites(o) \/ WorkerEnds(o)
  BY DEF WorkerStep
<1>1. /\ Settled /\ UNCHANGED <<main, cameras, shut, turn, stop, quit, at, fmt, ready, held>>
      /\ UNCHANGED <<drained, todo, enc, flushing, fifo, encoded, recent, cut>>
  BY <1>0 DEF WorkerPops, WorkerWrites, WorkerEnds, WorkerChanges, mainVars, audioVars, Settled
<1>2. /\ waiting \in [1..Len(queue) -> 0..QueueCapacity]
      /\ worker \in [1..Len(queue) -> {"none", "pop", "writing", "ended"}]
      /\ lost \subseteq 1..Len(queue) /\ QueueCapacity \in Nat
  BY Sizes DEF Inv, TypeOK
<1>3. \/ /\ worker[o] = "pop" /\ waiting[o] > 0 /\ worker' = [worker EXCEPT ![o] = "writing"]
         /\ waiting' = [waiting EXCEPT ![o] = @ - 1] /\ UNCHANGED lost
      \/ /\ worker[o] = "writing" /\ worker' = [worker EXCEPT ![o] = "pop"]
         /\ lost' \in {lost, lost \cup {o}} /\ UNCHANGED waiting
      \/ /\ worker[o] = "pop" /\ worker' = [worker EXCEPT ![o] = "ended"]
         /\ waiting[o] = 0 /\ o \in shut /\ UNCHANGED <<waiting, lost>>
  BY <1>0 DEF WorkerPops, WorkerWrites, WorkerEnds, WorkerChanges
<1>4. main \notin {"making", "failed"}
  <2> SUFFICES ASSUME main \in {"making", "failed"}
               PROVE  FALSE
    OBVIOUS
  <2>1. waiting[o] = 0 /\ fmt[o] = "new" /\ shut = {}
    BY DEF Inv, Placed, StopInv
  <2>2. QED
    BY <1>3, <2>1 DEF Inv, WriterInv
<1>5. queue[o] = "started"
  BY <1>3 DEF Inv, WriterInv
<1>6. TypeOK'
  <2>1. Flags' /\ Numbers' /\ Sets' /\ Positions'
    BY <1>1, SettledEncoders DEF Inv, TypeOK, Flags, Numbers, Sets, Positions
  <2>2. waiting[o] > 0 => waiting[o] - 1 \in 0..QueueCapacity
    BY <1>2
  <2>3. Writers'
    BY <1>1, <1>2, <1>3, <2>2, SMTT(30) DEF Inv, TypeOK, Writers, Settled
  <2>4. QED
    BY <1>1, <2>1, <2>3, TypesByParts DEF Inv
<1>7. Placed' /\ FormatsInv' /\ OneWrites'
  BY <1>1, <1>4, SettledEncoders
     DEF Inv, Placed, FormatsInv, OneWrites, AllFormatsOpen, Settled, Owned, InFrame, Freeing
<1>8. HeldInv' /\ FlushInv' /\ FifoInv'
  BY <1>1, SettledEncoders DEF Inv, HeldInv, FlushInv, FifoInv, TakenBy, Owned, InFrame
<1>9. LostInv'
  BY <1>1, <1>3, <1>5 DEF Inv, LostInv, Settled
<1>10. WriterInv'
  BY <1>1, <1>2, <1>3, <1>5 DEF Inv, WriterInv, Settled
<1>11. StopInv'
  <2>1. \A p \in 1..Len(queue) : p # o => worker'[p] = worker[p] /\ waiting'[p] = waiting[p]
    BY <1>2, <1>3
  <2>2. worker[o] # "ended" /\ (waiting[o] = 0 => waiting'[o] = 0)
    BY <1>2, <1>3
  <2>3. shut \subseteq 1..Len(queue)
    BY DEF Inv, TypeOK
  <2>4. QED
    BY <1>1, <2>1, <2>2, <2>3 DEF Inv, StopInv, Settled
<1>12. QED
  BY <1>6, <1>7, <1>8, <1>9, <1>10, <1>11 DEF Inv

(* Making one more output keeps the invariant. *)
LEMMA MakingKeepsInv ==
  ASSUME Inv, MakeOutput
  PROVE  Inv'
<1> DEFINE n == Len(queue)
           kind == CASE ~youtube' -> "none"
                     [] youtube' /\ cfg[n + 1].raw -> "idle"
                     [] OTHER -> "started"
<1>1. /\ main = "making" /\ main' = "making" /\ UNCHANGED <<cfg, audio>>
      /\ n < Len(cfg) /\ n \in Nat /\ Len(cfg) \in Nat
      /\ youtube' = (youtube \/ cfg[n + 1].dest = "youtube")
      /\ queue' = Append(queue, kind)
  BY LenProperties, ConfigAssumption DEF MakeOutput, Inv, TypeOK
<1>2. kind \in {"none", "idle", "started"}
  OBVIOUS
<1>3. /\ queue' \in Seq({"none", "idle", "started"}) /\ Len(queue') = n + 1
      /\ queue'[n + 1] = kind /\ \A o \in 1..n : queue'[o] = queue[o]
  BY <1>1, <1>2, AppendProperties DEF Inv, TypeOK
<1>4. fmt' = [o \in 1..(n + 1) |-> "new"]
  <2>1. fmt = [o \in 1..n |-> "new"] /\ fmt' = Append(fmt, "new")
    BY <1>1 DEF Inv, Placed, MakeOutput
  <2>2. fmt \in Seq({"new"}) /\ Len(fmt) = n
    BY <1>1, <2>1, IsASeq, LenProperties
  <2>3. QED
    BY <1>1, <2>1, <2>2, AppendProperties
<1>5. held' = [e \in Encoders' |-> 0]
  BY DEF MakeOutput, Encoders, Videos, Audios, VideosOf, AudiosOf
<1>6. LostInv'
  <2>1. youtube' => \E p \in 1..(n + 1) : cfg[p].dest = "youtube"
    <3>1. CASE youtube
      BY <1>1, <3>1 DEF Inv, LostInv
    <3>2. CASE cfg[n + 1].dest = "youtube"
      BY <1>1, <3>2
    <3>3. QED
      BY <1>1, <3>1, <3>2
  <2>2. ASSUME NEW o \in 1..(n + 1), queue'[o] # "none"
        PROVE  \E p \in 1..o : cfg[p].dest = "youtube"
    <3>1. CASE o = n + 1
      BY <1>3, <2>1, <2>2, <3>1
    <3>2. CASE o \in 1..n
      BY <1>3, <2>2, <3>2 DEF Inv, LostInv
    <3>3. QED
      BY <1>1, <3>1, <3>2
  <2>3. lost' = {}
    BY <1>1 DEF Inv, Placed, MakeOutput
  <2>4. QED
    BY <1>1, <1>3, <2>1, <2>2, <2>3 DEF LostInv
<1>w. /\ waiting' = [o \in 1..(n + 1) |-> 0] /\ worker' \in [1..(n + 1) -> {"none", "pop"}]
      /\ \A o \in 1..(n + 1) : worker'[o] = "none" <=> queue'[o] # "started"
      /\ UNCHANGED <<shut, turn>> /\ shut = {} /\ lost' = {}
  <2>1. /\ waiting = [o \in 1..n |-> 0] /\ waiting' = Append(waiting, 0)
        /\ shut = {} /\ UNCHANGED <<shut, turn>> /\ lost' = {}
    BY <1>1 DEF Inv, Placed, StopInv, MakeOutput
  <2>2. waiting \in Seq({0}) /\ Len(waiting) = n
    BY <1>1, <2>1, IsASeq, LenProperties
  <2>3. waiting' = [o \in 1..(n + 1) |-> 0]
    BY <1>1, <2>1, <2>2, AppendProperties
  <2>4. /\ worker \in [1..n -> {"none", "pop"}]
        /\ \A o \in 1..n : worker[o] = "none" <=> queue[o] # "started"
    <3>1. \A o \in 1..n : fmt[o] = "new"
      BY <1>1 DEF Inv, Placed
    <3>2. \A o \in 1..n : worker[o] \in {"none", "pop"}
      BY <1>1, <2>1, <3>1 DEF Inv, TypeOK, WriterInv
    <3>3. QED
      BY <3>2 DEF Inv, TypeOK, WriterInv
  <2>5. worker \in Seq({"none", "pop"}) /\ Len(worker) = n
    BY <1>1, <2>4, IsASeq, LenProperties
  <2>6. PICK w \in {"none", "pop"} : worker' = Append(worker, w) /\ (w = "none" <=> kind # "started")
    BY <1>1 DEF MakeOutput
  <2>7. /\ worker' \in Seq({"none", "pop"}) /\ Len(worker') = n + 1
        /\ worker'[n + 1] \in {"none", "pop"} /\ (worker'[n + 1] = "none" <=> kind # "started")
        /\ \A o \in 1..n : worker'[o] = worker[o]
    BY <2>5, <2>6, AppendProperties
  <2>8. worker' \in [1..(n + 1) -> {"none", "pop"}]
    BY <1>1, <2>7, LenProperties
  <2>9. ASSUME NEW o \in 1..(n + 1)
        PROVE  worker'[o] = "none" <=> queue'[o] # "started"
    <3>1. o = n + 1 \/ o \in 1..n
      BY <1>1
    <3>2. QED
      BY <1>3, <2>4, <2>7, <3>1
  <2>10. QED
    BY <2>1, <2>3, <2>8, <2>9
<1> HIDE DEF kind
<1>7. TypeOK'
  <2>1. /\ cfg' \in Configs /\ audio' \in BOOLEAN /\ youtube' \in BOOLEAN
        /\ main' = "making" /\ Len(queue') <= Len(cfg')
    BY <1>1, <1>3 DEF Inv, TypeOK
  <2>2. Flags'
    BY DEF MakeOutput, audioVars, Inv, TypeOK, Flags
  <2>3. Numbers'
    BY <1>5, Sizes DEF MakeOutput, audioVars, Inv, TypeOK, Numbers
  <2>4. Sets'
    BY <1>1, <1>3, <1>4 DEF MakeOutput, Inv, Placed, Sets
  <2>w. Writers'
    BY <1>1, <1>3, <1>w, Sizes DEF Inv, TypeOK, Writers
  <2>5. Positions'
    BY <1>1 DEF MakeOutput, Inv, Placed, Positions, Thread
  <2>6. QED
    BY <1>3, <2>1, <2>2, <2>3, <2>4, <2>w, <2>5
       DEF TypeOK, Flags, Numbers, Sets, Writers, Positions
<1>8. Placed' /\ OneWrites' /\ FlushInv' /\ FifoInv'
  <2>1. /\ UNCHANGED <<at, todo, enc, drained, flushing, ready, fifo, encoded, cut>>
        /\ at = [t \in Thread |-> "off"] /\ todo = [t \in Thread |-> {}]
        /\ enc = [t \in Thread |-> <<>>] /\ drained = {} /\ flushing = {} /\ ~ready
        /\ fifo = 0 /\ ~encoded /\ ~cut
    BY <1>1 DEF MakeOutput, Inv, Placed, audioVars
  <2>2. Placed'
    BY <1>1, <1>3, <1>4, <1>5, <1>w, <2>1 DEF Placed, InFrame, Freeing, Thread
  <2>3. OneWrites' /\ FlushInv' /\ FifoInv'
    BY <2>1 DEF OneWrites, FlushInv, FifoInv, InFrame, Thread
  <2>4. QED
    BY <2>2, <2>3
<1>v. WriterInv' /\ StopInv'
  <2>1. WriterInv'
    BY <1>3, <1>w DEF WriterInv
  <2>2. StopInv'
    BY <1>1, <1>w DEF StopInv
  <2>3. QED
    BY <2>1, <2>2
<1>9. FormatsInv' /\ HeldInv'
  <2>1. /\ UNCHANGED <<ready, encoded, at, enc, drained, flushing>>
        /\ ~ready /\ ~encoded /\ drained = {} /\ at = [t \in Thread |-> "off"]
    BY <1>1 DEF MakeOutput, Inv, Placed, audioVars
  <2>2. \A e \in Encoders' : held'[e] = 0
    BY <1>5
  <2>3. \A e \in Audios' : held'[e] = 0
    BY <2>2 DEF Encoders
  <2>4. FormatsInv'
    BY <1>3, <1>4, <2>1, <2>3 DEF FormatsInv, Thread
  <2>5. HeldInv'
    BY <2>1, <2>2, Sizes DEF HeldInv
  <2>6. QED
    BY <2>4, <2>5
<1>10. QED
  BY <1>6, <1>7, <1>8, <1>v, <1>9 DEF Inv

-----------------------------------------------------------------------------
(* The invariant holds before any output is made. *)
LEMMA InitInv == Init => Inv
<1> SUFFICES ASSUME Init
             PROVE  Inv
  OBVIOUS
<1>1. /\ queue = <<>> /\ Len(queue) = 0 /\ cfg \in Configs /\ Len(cfg) \in Nat
      /\ Encoders = {} /\ Audios = {} /\ Videos = {}
  BY ConfigAssumption, LenProperties
     DEF Init, Encoders, Audios, Videos, VideosOf, AudiosOf
<1>2. queue \in Seq({"none", "idle", "started"})
  BY <1>1
<1>3. /\ fmt = [o \in 1..0 |-> "new"] /\ waiting = [o \in 1..0 |-> 0]
      /\ worker = [o \in 1..0 |-> "none"] /\ held = [e \in {} |-> 0]
  BY DEF Init
<1>4. TypeOK
  <2>1. Flags /\ Sets
    BY <1>1, <1>3 DEF Init, Flags, Sets
  <2>w. Writers
    <3>1. waiting \in [1..0 -> 0..QueueCapacity]
          /\ worker \in [1..0 -> {"none", "pop", "writing", "ended"}]
      BY <1>3
    <3>2. turn \in 0..Len(cfg)
      BY <1>1 DEF Init
    <3>3. shut \cup lost \subseteq 1..Len(queue)
      BY DEF Init
    <3>4. QED
      BY <1>1, <3>1, <3>2, <3>3 DEF Writers
  <2>2. Numbers /\ Positions
    BY <1>1, <1>3, Sizes DEF Init, Numbers, Positions, Thread
  <2>3. /\ cfg \in Configs /\ audio \in BOOLEAN /\ youtube \in BOOLEAN
        /\ main = "making"
    BY DEF Init
  <2>4. Len(queue) <= Len(cfg)
    BY <1>1
  <2>5. QED
    BY <1>2, <2>1, <2>w, <2>2, <2>3, <2>4
       DEF TypeOK, Flags, Numbers, Sets, Writers, Positions
<1>5. Placed
  BY <1>1, <1>3 DEF Init, Placed, Owned, InFrame, Freeing, Thread
<1>6. FormatsInv
  BY <1>1 DEF Init, FormatsInv, Thread
<1>7. OneWrites /\ HeldInv /\ FlushInv /\ FifoInv
  BY <1>1 DEF Init, OneWrites, HeldInv, FlushInv, FifoInv, Owned, Thread
<1>w. LostInv /\ WriterInv /\ StopInv
  BY <1>1 DEF Init, LostInv, WriterInv, StopInv
<1>8. QED
  BY <1>4, <1>5, <1>6, <1>7, <1>w DEF Inv

(* Every step keeps the invariant. *)
LEMMA StepInv == Inv /\ [Next]_vars => Inv'
<1> SUFFICES ASSUME Inv, [Next]_vars
             PROVE  Inv'
  OBVIOUS
<1>1. CASE UNCHANGED vars
  BY <1>1, SMTT(30)
     DEF Inv, vars, mainVars, encVars, netVars, audioVars, TypeOK, Placed, FormatsInv, OneWrites,
         HeldInv, FlushInv, LostInv, WriterInv, StopInv, FifoInv, Encoders, Videos, Audios, VideosOf,
         AudiosOf, Owned, TakenBy, AllFormatsOpen
<1>2. QED
  BY <1>1, MainKeepsInv, MakingKeepsInv, ThreadsKeepInv, WorkerKeepsInv DEF Next

(* The inductive invariant holds in every reachable state: who is where,   *)
(* which muxers are open, what each encoder holds and what each writer has *)
(* in its queue.                                                           *)
THEOREM OutputsInv == Spec => []Inv
BY InitInv, StepInv, PTL DEF Spec

(* Every value the outputs, the threads, the encoders and the FIFO take is *)
(* of its type: no encoder holds a frame too many, the FIFO never exceeds  *)
(* its size, and no thread is at an encoder that was not made.             *)
THEOREM OutputsTypeCorrect == Spec => []TypeOK
BY OutputsInv, PTL DEF Inv

(* Which thread is inside of which muxer. *)
LEMMA WhoIsInside ==
  ASSUME Inv
  PROVE  /\ DOMAIN fmt = 1..Len(queue) /\ DOMAIN held = Encoders
         /\ \A t \in Thread, o \in 1..Len(queue) :
              <<t, o>> \in Inside <=> at[t] \in {"opening", "writing"} /\ enc[t][1] = o
         /\ \A o \in 1..Len(queue) : <<"worker", o>> \in Inside <=> worker[o] = "writing"
         /\ \A p \in Inside : /\ p[1] \in Thread \cup {"worker"} /\ p[2] \in 1..Len(queue)
                             /\ p = <<p[1], p[2]>>
BY DEF Inv, TypeOK, Inside, Thread

(* encodeFrame, openFormat, networkLoop: a thread finds nobody inside of   *)
(* the muxer it is inside of, whatever outputs are configured; packets     *)
(* come after the header, and after the trailer only those of a worker,    *)
(* which writes without output_mutex_ and is stopped last.                 *)
THEOREM MuxerProtocolHolds == Spec => []MuxerProtocol
<1>1. Inv => MuxerProtocol
  <2> SUFFICES ASSUME Inv, NEW p \in Inside
               PROVE  /\ \A q \in Inside : q[2] = p[2] => q = p
                      /\ fmt[p[2]] = "new" => p[1] \in Thread /\ at[p[1]] = "opening"
                      /\ fmt[p[2]] \in {"closing", "ended"} =>
                           p[1] = "worker" /\ queue[p[2]] = "started"
    BY DEF MuxerProtocol
  <2> USE DEF Inv
  <2>1. ASSUME NEW q \in Inside, q[1] \in Thread
        PROVE  \/ at[q[1]] = "opening" /\ fmt[q[2]] = "new" /\ q[1] = "video"
               \/ at[q[1]] = "writing" /\ fmt[q[2]] = "open" /\ queue[q[2]] = "none"
    <3>1. at[q[1]] \in {"opening", "writing"} /\ enc[q[1]][1] = q[2]
      BY <2>1, WhoIsInside
    <3>2. at[q[1]] = "opening" => q[1] = "video"
      BY <2>1 DEF Placed, Thread
    <3>3. QED
      BY <2>1, <3>1, <3>2 DEF FormatsInv, OneWrites
  <2>2. ASSUME NEW q \in Inside, q[1] = "worker"
        PROVE  worker[q[2]] = "writing" /\ fmt[q[2]] # "new" /\ queue[q[2]] = "started"
    <3>1. worker[q[2]] = "writing" /\ q[2] \in 1..Len(queue)
      BY <2>2, WhoIsInside
    <3>2. QED
      BY <3>1 DEF WriterInv
  <2>3. ASSUME NEW q \in Inside, q[2] = p[2]
        PROVE  q[1] = p[1]
    <3>1. \A r \in Inside : r[1] \in Thread \cup {"worker"}
      BY WhoIsInside
    <3>2. CASE p[1] \in Thread /\ q[1] \in Thread
      BY <2>1, <2>3, <3>2 DEF OneWrites
    <3>3. CASE p[1] = "worker" \/ q[1] = "worker"
      BY <2>1, <2>2, <2>3, <3>1, <3>3
    <3>4. QED
      BY <3>1, <3>2, <3>3
  <2>4. \A q \in Inside : q[2] = p[2] => q = p
    BY <2>3, WhoIsInside
  <2>5. QED
    BY <2>1, <2>2, <2>4, WhoIsInside
<1>2. QED
  BY <1>1, OutputsInv, PTL

(* audioThread: no samples are lost between two encoded frames, for any    *)
(* sizes of what is read as long as one read and one frame fit the FIFO.   *)
THEOREM AudioIsGaplessHolds == Spec => []AudioIsGapless
<1>1. Inv => AudioIsGapless
  BY DEF Inv, FifoInv, AudioIsGapless
<1>2. QED
  BY <1>1, OutputsInv, PTL

(* A thread that has ended has sent the null frame to all it feeds.        *)
LEMMA EndedIsDrained ==
  ASSUME Inv, at["video"] = "ended", at["audio"] \in {"off", "ended"},
         main \in Freeing
  PROVE  Encoders \subseteq drained
<1>1. Videos \subseteq drained
  BY DEF Inv, FlushInv, Owned, Thread
<1>2. Audios \subseteq drained
  <2>1. CASE audio
    BY <2>1 DEF Inv, Placed, FlushInv, Freeing, Owned, Thread
  <2>2. CASE ~audio
    BY <2>2, EncodersOfOutputs DEF Inv
  <2>3. QED
    BY <2>1, <2>2
<1>3. QED
  BY <1>1, <1>2 DEF Encoders

(* freeOutputs: what the encoders held has been taken out by the end of    *)
(* the capture, the writers that were started have handed over all they    *)
(* accepted and their workers have ended; and no output before the first   *)
(* YouTube one has lost a packet.                                          *)
THEOREM EncodedIsWrittenHolds == Spec => []EncodedIsWritten
<1>1. Inv => EncodedIsWritten
  <2> SUFFICES ASSUME Inv, main = "done"
               PROVE  /\ \A e \in Encoders : held[e] = 0
                      /\ \A o \in 1..Len(queue) : queue[o] = "started" =>
                           waiting[o] = 0 /\ worker[o] = "ended"
                      /\ \A o \in lost : \E p \in 1..o : cfg[p].dest = "youtube"
    BY DEF EncodedIsWritten
  <2>1. at["video"] = "ended" /\ at["audio"] \in {"off", "ended"} /\ main \in Freeing
    BY DEF Inv, Placed, Freeing
  <2>2. Encoders \subseteq drained
    BY <2>1, EndedIsDrained
  <2>3. \A e \in Encoders : held[e] = 0
    BY <2>1, <2>2 DEF Inv, HeldInv, TakenBy, InFrame, Thread
  <2>4. \A o \in 1..Len(queue) : queue[o] = "started" =>
          waiting[o] = 0 /\ worker[o] = "ended"
    BY DEF Inv, StopInv
  <2>5. \A o \in lost : \E p \in 1..o : cfg[p].dest = "youtube"
    BY DEF Inv, LostInv, TypeOK
  <2>6. QED
    BY <2>3, <2>4, <2>5
<1>2. QED
  BY <1>1, OutputsInv, PTL

-----------------------------------------------------------------------------
(* Refinement: FFmpeg is used as it wants to be used. *)

(* The null frame is sent to no encoder twice. *)
NullOnce == \A t \in flushing : todo[t] \cap drained = {}

(* Every step keeps that no drained encoder is still to be flushed. *)
LEMMA NullOnceStep == Inv /\ NullOnce /\ [Next]_vars => NullOnce'
<1> SUFFICES ASSUME Inv, NullOnce, [Next]_vars
             PROVE  NullOnce'
  OBVIOUS
<1> USE DEF NullOnce, mainVars, audioVars, encVars, Thread, Goto
<1>a. ASSUME UNCHANGED <<flushing, drained>>,
             \A t \in Thread : todo'[t] \subseteq todo[t] \/ t \notin flushing
      PROVE  NullOnce'
  BY <1>a DEF Inv, TypeOK
<1>1. ASSUME NEW t \in Thread, NEW encoders, encoders \subseteq Owned(t), at[t] = "loop",
             LeaveLoop(t, encoders), UNCHANGED drained
      PROVE  NullOnce'
  <2>1. Owned(t) \cap drained = {}
    BY <1>1 DEF Inv, FlushInv, InFrame
  <2>2. QED
    BY <1>1, <2>1 DEF LeaveLoop, Inv, TypeOK
<1>2. CASE VideoLoop
  BY <1>1, <1>a, <1>2 DEF VideoLoop, FlushedByVideo, Owned
<1>3. CASE AudioLoop
  BY <1>1, <1>a, <1>3 DEF AudioLoop, AudioStops, Owned
<1>4. ASSUME NEW t \in Thread, \E e \in Encoders : SendFrame(t, e)
      PROVE  NullOnce'
  <2>1. PICK e \in Encoders : SendFrame(t, e)
    BY <1>4
  <2>2. \A u \in Thread \ {t} : e \notin todo[u]
    <3>1. e \in todo[t] /\ \A u \in Thread : todo[u] \subseteq Owned(u)
      BY <2>1 DEF SendFrame, Inv, Placed
    <3>2. Owned("video") \cap Owned("audio") = {}
      BY EncodersOfOutputs DEF Inv, Owned
    <3>3. QED
      BY <3>1, <3>2
  <2>3. QED
    BY <2>1, <2>2 DEF SendFrame, Inv, TypeOK
<1>5. CASE VideoGets
  <2>1. "video" \notin flushing
    BY <1>5 DEF VideoGets, Inv, FlushInv, InFrame
  <2>2. QED
    BY <1>5, <1>a, <2>1 DEF VideoGets, Inv, TypeOK
<1>6. CASE AudioEncodes
  <2>1. "audio" \notin flushing
    BY <1>6 DEF AudioEncodes, Inv, FlushInv, InFrame
  <2>2. QED
    BY <1>6, <1>a, <2>1 DEF AudioEncodes, Inv, TypeOK
<1>7. CASE UNCHANGED <<flushing, drained, todo>>
  BY <1>7
<1>8. QED
  BY <1>2, <1>3, <1>4, <1>5, <1>6, <1>7
     DEF Next, vars, VideoStep, AudioStep, EncodeStep, FreeStep, MakeOutput, InitFails,
         StartThreads, StartCams, StopCams, StopThreads, JoinAudio, PostQuit, JoinVideo,
         TrailerBegins, FreeFormat, FormatsFreed, StopQueue, FlushWakes, JoinWriter,
         QueuesStopped, MainSteps, ReceivePacket, OpenFormat, WriteBegins, WriteEnds, Enqueue,
         Fed, Throws, AudioReads, WorkerStep, WorkerPops, WorkerWrites, WorkerEnds, WorkerChanges

(* A step of one thread at its encoder e: what the muxers see of it. *)
LEMMA InsideChanges ==
  ASSUME Inv, Settled, NEW t \in Thread, UNCHANGED <<enc, worker>>,
         \A u \in Thread \ {t} : at'[u] = at[u], enc[t][1] \in 1..Len(queue)
  PROVE  /\ at'[t] \in {"opening", "writing"}
              => Inside' = Inside \cup {<<t, enc[t][1]>>}
         /\ at'[t] \notin {"opening", "writing"}
              => Inside' = Inside \ {<<t, enc[t][1]>>}
BY DEF Inside, Settled, Thread

(* Every step of the outputs is a step that FFmpeg permits, or none of its *)
(* business.                                                               *)
LEMMA MediaStep == Inv /\ NullOnce /\ [Next]_vars => [Media!MediaNext]_(Media!mediaVars)
<1> SUFFICES ASSUME Inv, NullOnce, [Next]_vars
             PROVE  Media!MediaNext \/ UNCHANGED Media!mediaVars
  OBVIOUS
<1> USE WhoIsInside
<1>a. ASSUME UNCHANGED <<fmt, held, drained, queue>>, Inside' = Inside
      PROVE  UNCHANGED Media!mediaVars
  BY <1>a DEF Media!mediaVars
(* Steps outside of the encoders and muxers. *)
<1>b. ASSUME UNCHANGED <<fmt, held, drained, queue, enc, worker>>, NEW t \in Thread,
             \A u \in Thread \ {t} : at'[u] = at[u],
             at[t] \notin {"opening", "writing"}, at'[t] \notin {"opening", "writing"}
      PROVE  UNCHANGED Media!mediaVars
  <2>1. Inside' = Inside
    BY <1>b DEF Inside
  <2>2. QED
    BY <1>a, <1>b, <2>1
<1>1. CASE MakeOutput
  <2>1. /\ main = "making" /\ fmt' = Append(fmt, "new") /\ UNCHANGED <<at, enc, drained>>
        /\ held' = [e \in Encoders' |-> 0]
    BY <1>1 DEF MakeOutput, Encoders, Videos, Audios, VideosOf, AudiosOf
  <2>2. /\ at = [t \in Thread |-> "off"] /\ held = [e \in Encoders |-> 0]
        /\ \A o \in 1..Len(queue) : fmt[o] = "new"
    BY <2>1 DEF Inv, Placed
  <2> DEFINE k == CASE ~youtube' -> "none"
                     [] youtube' /\ cfg[Len(queue) + 1].raw -> "idle"
                     [] OTHER -> "started"
             w == IF youtube' /\ ~cfg[Len(queue) + 1].raw THEN "pop" ELSE "none"
  <2>q. queue' = Append(queue, k) /\ worker' = Append(worker, w)
    BY <1>1 DEF MakeOutput
  <2>r. k \in {"none", "idle", "started"} /\ w \in {"none", "pop"}
    OBVIOUS
  <2> HIDE DEF k, w
  <2>k. /\ Len(queue) \in Nat /\ Len(queue') = Len(queue) + 1
        /\ \A o \in 1..Len(queue) : queue'[o] = queue[o] /\ worker'[o] = worker[o]
        /\ worker'[Len(queue) + 1] = w
    <3> DEFINE K == {"none", "idle", "started"}
               W == {"none", "pop", "writing", "ended"}
    <3>1. queue \in Seq(K) /\ Len(queue) \in Nat
      BY LenProperties DEF Inv, TypeOK
    <3>2. worker \in Seq(W) /\ Len(worker) = Len(queue)
      <4>1. worker \in [1..Len(queue) -> W]
        BY DEF Inv, TypeOK
      <4>2. QED
        BY <3>1, <4>1, IsASeq, LenProperties
    <3>3. k \in K /\ w \in W
      BY <2>r
    <3> HIDE DEF K, W
    <3>4. Len(queue') = Len(queue) + 1 /\ \A o \in 1..Len(queue) : queue'[o] = queue[o]
      BY <2>q, <3>1, <3>3, AppendProperties
    <3>5. /\ worker'[Len(queue) + 1] = w
          /\ \A o \in 1..Len(queue) : worker'[o] = worker[o]
      BY <2>q, <3>2, <3>3, AppendProperties
    <3>6. QED
      BY <3>1, <3>4, <3>5
  <2>3. Inside = {} /\ Inside' = {}
    <3>1. \A o \in 1..Len(queue) : worker[o] # "writing"
      BY <2>2 DEF Inv, WriterInv
    <3>2. \A o \in 1..Len(queue') : worker'[o] # "writing"
      BY <2>r, <2>k, <3>1
    <3>3. QED
      BY <2>1, <2>2, <3>1, <3>2 DEF Inside
  <2>4. Encoders \subseteq Encoders'
    <3>1. UNCHANGED <<cfg, audio>>
      BY <1>1 DEF MakeOutput
    <3>2. 1..Len(queue) \subseteq 1..Len(queue')
      BY <2>k
    <3>3. QED
      BY <3>1, <3>2 DEF Encoders, Videos, Audios, VideosOf, AudiosOf
  <2>5. {o \in 1..Len(queue') : queue'[o] = "started"}
          \in {{o \in 1..Len(queue) : queue[o] = "started"},
              {o \in 1..Len(queue) : queue[o] = "started"} \cup {Len(queue) + 1}}
    <3>1. 1..Len(queue') = (1..Len(queue)) \cup {Len(queue) + 1}
      BY <2>k
    <3>2. QED
      BY <2>k, <3>1
  <2>6. Len(fmt) = Len(queue)
    BY <2>k, LenProperties DEF Inv, TypeOK
  <2>7. Media!Make
    BY <2>1, <2>2, <2>3, <2>4, <2>5, <2>6 DEF Media!Make
  <2>8. QED
    BY <2>7 DEF Media!MediaNext
<1>2. CASE \/ InitFails \/ Throws \/ StartCams \/ StopCams \/ StopThreads \/ JoinAudio
           \/ PostQuit \/ JoinVideo \/ FormatsFreed \/ FlushWakes \/ JoinWriter
           \/ QueuesStopped \/ \E o \in 1..Len(queue) : StopQueue(o)
  <2>1. UNCHANGED <<fmt, held, drained, queue, at, enc, worker>>
    BY <1>2 DEF InitFails, Throws, StartCams, StopCams, StopThreads, JoinAudio, PostQuit,
                JoinVideo, FormatsFreed, FlushWakes, JoinWriter, QueuesStopped, StopQueue,
                MainSteps, encVars, netVars
  <2>2. Inside' = Inside
    BY <2>1 DEF Inside
  <2>3. QED
    BY <1>a, <2>1, <2>2
<1>3. CASE StartThreads
  <2>1. UNCHANGED <<fmt, held, drained, queue, enc, worker>> /\ main = "making"
    BY <1>3 DEF StartThreads, encVars, netVars
  <2>2. \A t \in Thread : at[t] = "off" /\ at'[t] \in {"off", "loop"}
    BY <1>3, <2>1 DEF StartThreads, Inv, Placed
  <2>3. Inside' = Inside
    BY <2>1, <2>2 DEF Inside
  <2>4. QED
    BY <1>a, <2>1, <2>3
<1>4. CASE TrailerBegins \/ FreeFormat
  <2> DEFINE o == turn + 1
  <2>1. /\ main = "closing" /\ turn < Len(queue)
        /\ UNCHANGED <<queue, at, enc, worker, held, drained>>
    BY <1>4 DEF TrailerBegins, FreeFormat, MainSteps, netVars
  <2>2. /\ at["video"] = "ended" /\ at["audio"] \in {"off", "ended"} /\ main \in Freeing
        /\ o \in 1..Len(queue)
    BY <2>1, LenProperties DEF Inv, Placed, Freeing, TypeOK
  <2>3. Inside' = Inside
    BY <2>1 DEF Inside
  <2>4. Encoders \subseteq drained
    BY <2>2, EndedIsDrained
  <2>5. drained = DOMAIN held /\ \A e \in DOMAIN held : held[e] = 0
    BY <2>2, <2>4 DEF Inv, TypeOK, HeldInv, TakenBy, InFrame, Thread
  <2>6. queue[o] # "started" => Media!Nobody(o)
    <3>1. queue[o] # "started" => worker[o] # "writing"
      BY <2>2 DEF Inv, WriterInv
    <3>2. QED
      BY <2>2, <3>1 DEF Media!Nobody, Thread
  <2>7. \/ fmt[o] = "open" /\ fmt' = [fmt EXCEPT ![o] = "closing"]
        \/ fmt[o] \in {"new", "closing"} /\ fmt' = [fmt EXCEPT ![o] = "ended"]
    BY <1>4 DEF TrailerBegins, FreeFormat
  <2> HIDE DEF o
  <2>8. Media!TrailerBegins(o) \/ Media!Freed(o)
    BY <2>1, <2>2, <2>3, <2>5, <2>6, <2>7 DEF Media!TrailerBegins, Media!Freed, Media!Closes
  <2>9. QED
    BY <2>2, <2>8 DEF Media!MediaNext
<1>w. ASSUME NEW o \in 1..Len(queue), WorkerPops(o) \/ WorkerWrites(o) \/ WorkerEnds(o)
      PROVE  Media!MediaNext \/ UNCHANGED Media!mediaVars
  <2>1. UNCHANGED <<fmt, held, drained, queue, at, enc>>
    BY <1>w DEF WorkerPops, WorkerWrites, WorkerEnds, WorkerChanges, mainVars
  <2>2. worker \in [1..Len(queue) -> {"none", "pop", "writing", "ended"}]
    BY DEF Inv, TypeOK
  <2>3. CASE WorkerPops(o)
    <3>1. /\ worker[o] = "pop" /\ waiting[o] > 0
          /\ worker' = [worker EXCEPT ![o] = "writing"]
      BY <2>3 DEF WorkerPops, WorkerChanges
    <3>2. queue[o] = "started" /\ fmt[o] # "new"
      BY <3>1 DEF Inv, WriterInv
    <3>3. fmt[o] \in {"open", "closing", "ended"}
      BY <3>2 DEF Inv, TypeOK
    <3>4. Inside' = Inside \cup {<<"worker", o>>}
      BY <2>1, <2>2, <3>1 DEF Inside
    <3>5. Media!Nobody(o)
      <4>1. ASSUME NEW t \in Thread, at[t] \in {"opening", "writing"}
            PROVE  enc[t][1] # o
        <5>1. at[t] = "opening" => t = "video" /\ fmt[enc[t][1]] = "new"
          BY DEF Inv, Placed, FormatsInv, Thread
        <5>2. at[t] = "writing" => queue[enc[t][1]] = "none"
          BY DEF Inv, OneWrites
        <5>3. QED
          BY <3>2, <4>1, <5>1, <5>2
      <4>2. QED
        BY <3>1, <4>1 DEF Media!Nobody
    <3>6. Media!PacketBegins("worker", o)
      BY <2>1, <3>2, <3>3, <3>4, <3>5 DEF Media!PacketBegins, Media!Enter, Media!Late
    <3>7. QED
      BY <3>6 DEF Media!MediaNext
  <2>4. CASE WorkerWrites(o)
    <3>1. worker[o] = "writing" /\ worker' = [worker EXCEPT ![o] = "pop"]
      BY <2>4 DEF WorkerWrites, WorkerChanges
    <3>2. queue[o] = "started" /\ fmt[o] \in {"open", "closing", "ended"}
      BY <3>1 DEF Inv, WriterInv, TypeOK
    <3>3. Inside' = Inside \ {<<"worker", o>>} /\ <<"worker", o>> \in Inside
      BY <2>1, <2>2, <3>1 DEF Inside, Thread
    <3>4. Media!PacketEnds("worker", o)
      BY <2>1, <3>2, <3>3 DEF Media!PacketEnds, Media!Late
    <3>5. QED
      BY <3>4 DEF Media!MediaNext
  <2>5. CASE WorkerEnds(o)
    <3>1. worker[o] = "pop" /\ worker' = [worker EXCEPT ![o] = "ended"]
      BY <2>5 DEF WorkerEnds, WorkerChanges
    <3>2. Inside' = Inside
      BY <2>1, <2>2, <3>1 DEF Inside
    <3>3. QED
      BY <1>a, <2>1, <3>2
  <2>6. QED
    BY <1>w, <2>3, <2>4, <2>5
<1>5. CASE VideoLoop \/ VideoGets
  <2>1. /\ at["video"] \notin {"opening", "writing"} /\ at'["video"] \notin {"opening", "writing"}
        /\ at'["audio"] = at["audio"] /\ UNCHANGED <<fmt, held, drained, queue, enc, worker>>
    BY <1>5 DEF VideoLoop, VideoGets, LeaveLoop, Goto, mainVars, netVars, Inv, TypeOK, Thread
  <2>2. QED
    BY <1>b, <2>1 DEF Thread
<1>6. CASE AudioLoop \/ (\E n \in ReadSizes : AudioReads(n)) \/ AudioEncodes
  <2>1. /\ at["audio"] \notin {"opening", "writing"} /\ at'["audio"] \notin {"opening", "writing"}
        /\ at'["video"] = at["video"] /\ UNCHANGED <<fmt, held, drained, queue, enc, worker>>
    BY <1>6 DEF AudioLoop, AudioReads, AudioEncodes, LeaveLoop, Goto, mainVars, encVars, netVars,
                Inv, TypeOK, Thread
  <2>2. QED
    BY <1>b, <2>1 DEF Thread
<1>7. ASSUME NEW t \in Thread, Fed(t) \/ Enqueue(t)
      PROVE  UNCHANGED Media!mediaVars
  <2>1. /\ at[t] \in {"feed", "lock"} /\ at'[t] \notin {"opening", "writing"}
        /\ \A u \in Thread \ {t} : at'[u] = at[u]
        /\ UNCHANGED <<fmt, held, drained, queue, enc, worker>>
    BY <1>7 DEF Fed, Enqueue, AfterFrame, Goto, mainVars, encVars, netVars, Inv, TypeOK
  <2>2. QED
    BY <1>b, <2>1
<1>8. ASSUME NEW t \in Thread, NEW e \in Encoders, SendFrame(t, e)
      PROVE  Media!MediaNext
  <2>1. /\ at[t] = "feed" /\ e \in todo[t] /\ at' = [at EXCEPT ![t] = "receive"]
        /\ enc' = [enc EXCEPT ![t] = e] /\ UNCHANGED <<fmt, queue, worker>>
        /\ \/ t \in flushing /\ drained' = drained \cup {e} /\ UNCHANGED held
           \/ t \notin flushing /\ held' = [held EXCEPT ![e] = @ + 1] /\ UNCHANGED drained
    BY <1>8 DEF SendFrame, Goto, mainVars, netVars
  <2>2. e \notin drained
    <3>1. CASE t \in flushing
      BY <2>1, <3>1 DEF NullOnce
    <3>2. CASE t \notin flushing
      BY <2>1, <3>2 DEF Inv, Placed, FlushInv
    <3>3. QED
      BY <3>1, <3>2
  <2>3. held[e] <= EncoderDelay
    BY <2>1, AtEncoder
  <2>4. Inside' = Inside
    BY <2>1 DEF Inside, Inv, TypeOK
  <2>5. Media!Send(e)
    BY <2>1, <2>2, <2>3, <2>4 DEF Media!Send
  <2>6. QED
    BY <2>5 DEF Media!MediaNext
<1>9. ASSUME NEW t \in Thread, ReceivePacket(t)
      PROVE  Media!MediaNext \/ UNCHANGED Media!mediaVars
  <2> DEFINE e == enc[t]
             o == enc[t][1]
  <2>1. /\ at[t] = "receive" /\ UNCHANGED <<fmt, drained, queue, enc, worker>> /\ Settled
        /\ e \in Encoders /\ o \in 1..Len(queue)
        /\ \A u \in Thread \ {t} : at'[u] = at[u]
    BY <1>9, AtEncoder DEF ReceivePacket, Goto, mainVars, netVars, Settled, Inv, TypeOK, InFrame
  <2>2. CASE at'[t] = "feed" /\ UNCHANGED held
    BY <1>b, <2>1, <2>2
  <2>3. CASE /\ held[e] > (IF e \in drained THEN 0 ELSE EncoderDelay)
             /\ held' = [held EXCEPT ![e] = @ - 1]
             /\ at'[t] = "lock"
    <3>1. Inside' = Inside
      BY <2>1, <2>3 DEF Inside
    <3>2. Media!Receive(e)
      BY <2>1, <2>3, <3>1 DEF Media!Receive
    <3>3. QED
      BY <2>1, <3>2 DEF Media!MediaNext
  <2>4. CASE /\ held[e] > (IF e \in drained THEN 0 ELSE EncoderDelay)
             /\ held' = [held EXCEPT ![e] = @ - 1]
             /\ at'[t] = "opening" /\ IsVideo(e) /\ fmt[o] = "new"
    <3>1. Inside' = Inside \cup {<<t, o>>}
      BY <2>1, <2>4, InsideChanges
    <3>2. t = "video"
      <4>1. e \in Videos /\ e \in Owned(t)
        BY <2>1, <2>4, EncodersOfOutputs DEF Inv, Placed, InFrame
      <4>2. QED
        BY <4>1, EncodersOfOutputs DEF Owned, Thread, Inv
    <3>3. Media!Nobody(o)
      <4>1. at["audio"] # "opening" /\ worker[o] # "writing"
        BY <2>1, <2>4 DEF Inv, Placed, WriterInv
      <4>2. at["audio"] = "writing" => fmt[enc["audio"][1]] = "open"
        BY <4>1 DEF Inv, FormatsInv, Thread
      <4>3. QED
        BY <2>1, <2>4, <3>2, <4>1, <4>2 DEF Media!Nobody, Thread
    <3>4. Media!Receive(e)
      BY <2>1, <2>4, <3>1, <3>3 DEF Media!Receive, Media!Enter
    <3>5. QED
      BY <2>1, <3>4 DEF Media!MediaNext
  <2>5. QED
    BY <1>9, <2>1, <2>2, <2>3, <2>4 DEF ReceivePacket, Goto, Inv, TypeOK
<1>10. ASSUME NEW t \in Thread, OpenFormat(t) \/ WriteBegins(t) \/ WriteEnds(t)
       PROVE  Media!MediaNext
  <2> DEFINE o == enc[t][1]
  <2>1. /\ at[t] \in {"opening", "lock", "writing"} /\ UNCHANGED <<held, drained, enc, worker>>
        /\ Settled /\ o \in 1..Len(queue) /\ \A u \in Thread \ {t} : at'[u] = at[u]
    BY <1>10, AtEncoder DEF OpenFormat, WriteBegins, WriteEnds, Goto, mainVars, encVars,
                            netVars, Settled, Inv, TypeOK, InFrame
  <2>3. CASE OpenFormat(t)
    <3>1. at[t] = "opening" /\ at'[t] = "lock" /\ fmt' = [fmt EXCEPT ![o] = "open"]
      BY <2>3 DEF OpenFormat, Goto, Inv, TypeOK
    <3>2. Inside' = Inside \ {<<t, o>>} /\ <<t, o>> \in Inside
      BY <2>1, <3>1, InsideChanges
    <3>3. fmt[o] = "new"
      BY <3>1 DEF Inv, Placed, FormatsInv, Thread
    <3>4. Media!HeaderEnds(t, o)
      BY <2>1, <3>1, <3>2, <3>3 DEF Media!HeaderEnds, Settled
    <3>5. QED
      BY <2>1, <3>4 DEF Media!MediaNext
  <2>4. CASE WriteBegins(t)
    <3>1. /\ at[t] = "lock" /\ at'[t] = "writing" /\ UNCHANGED fmt
          /\ queue[o] = "none" /\ \A u \in Thread : at[u] # "writing"
      BY <2>4 DEF WriteBegins, OutputMutexFree, Goto, encVars, Inv, TypeOK
    <3>2. Inside' = Inside \cup {<<t, o>>}
      BY <2>1, <3>1, InsideChanges
    <3>3. fmt[o] = "open"
      BY <3>1 DEF Inv, FormatsInv
    <3>4. \A u \in Thread : at[u] = "opening" => fmt[enc[u][1]] = "new"
      BY DEF Inv, Placed, FormatsInv, Thread
    <3>w. worker[o] # "writing"
      BY <2>1, <3>1 DEF Inv, WriterInv
    <3>5. Media!Nobody(o)
      BY <2>1, <3>1, <3>3, <3>4, <3>w DEF Media!Nobody
    <3>6. Media!PacketBegins(t, o)
      BY <2>1, <3>1, <3>2, <3>3, <3>5 DEF Media!PacketBegins, Media!Enter, Settled
    <3>7. QED
      BY <2>1, <3>6 DEF Media!MediaNext
  <2>5. CASE WriteEnds(t)
    <3>1. at[t] = "writing" /\ at'[t] = "receive" /\ UNCHANGED fmt
      BY <2>5 DEF WriteEnds, Goto, encVars, Inv, TypeOK
    <3>2. Inside' = Inside \ {<<t, o>>} /\ <<t, o>> \in Inside
      BY <2>1, <3>1, InsideChanges
    <3>3. fmt[o] = "open"
      BY <3>1 DEF Inv, FormatsInv
    <3>4. Media!PacketEnds(t, o)
      BY <2>1, <3>1, <3>2, <3>3 DEF Media!PacketEnds, Settled
    <3>5. QED
      BY <2>1, <3>4 DEF Media!MediaNext
  <2>6. QED
    BY <1>10, <2>3, <2>4, <2>5
<1>11. CASE UNCHANGED vars
  BY <1>11, <1>a DEF vars, mainVars, encVars, netVars, Inside
<1>12. QED
  BY <1>1, <1>2, <1>3, <1>4, <1>w, <1>5, <1>6, <1>7, <1>8, <1>9, <1>10, <1>11
     DEF Next, VideoStep, AudioStep, EncodeStep, FreeStep, WorkerStep, Thread

(* Every behaviour of the two threads, of the workers and of freeOutputs   *)
(* is one that FFmpeg allows its users, for any outputs and any encoder    *)
(* delay, but for a worker's being inside of its muxer when the trailer is *)
(* written and after it.                                                   *)
THEOREM OutputsObeyFFmpeg == Spec => ObeysFFmpeg
<1>1. Init => Media!MediaInit
  <2>1. ASSUME Init
        PROVE  /\ fmt = <<>> /\ Inside = {} /\ held = <<>> /\ drained = {}
              /\ {o \in 1..Len(queue) : queue[o] = "started"} = {}
    BY <2>1 DEF Init, Inside
  <2>2. QED
    BY <2>1 DEF Media!MediaInit
<1>2. Init => NullOnce
  BY DEF Init, NullOnce
<1>3. QED
  BY <1>1, <1>2, NullOnceStep, MediaStep, OutputsInv, PTL
     DEF Spec, ObeysFFmpeg, Media!MediaSpec
=============================================================================
