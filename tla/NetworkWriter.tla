--------------------------- MODULE NetworkWriter ---------------------------
(***************************************************************************)
(* class NetworkWriter of core/rcam.hpp composed with the threads that use *)
(* it: the encoders (RCam::encodeFrame enqueues under output_mutex_), the  *)
(* worker (networkLoop hands packets to the muxer) and the main thread     *)
(* (initOutputs starts the writer, freeOutputs ends it).                   *)
(*                                                                         *)
(* The congestion callback is the lambda of setRate: it loads targetrate_, *)
(* compares, and stores, three accesses that another thread's callback can *)
(* interleave with.  targetrate_ is abstracted to the state it stands for: *)
(* "Normal" for normalrate_ and "Slow" for slowrate_.                      *)
(***************************************************************************)
EXTENDS PacketQueue

(* initOutputs makes a writer for every output that follows a YouTube one, *)
(* and starts it for a composite output only.                              *)
OutputKind == {"Composite", "Raw"}

VARIABLES kind,         \* the output the writer belongs to
          running,      \* running_
          worker,       \* where networkLoop is
          main,         \* where the main thread is, from initOutputs to ~NetworkWriter
          finished,     \* the encoder threads that have ended
          outputMutex,  \* the encoder that holds output_mutex_, or "None"
          targetrate,   \* targetrate_
          tr,           \* per client, the callback's local tr, or "None"
          context,      \* outCtx_: "open", or "freed" by freeOutputs
          written,      \* history: packets handed to the open context
          late,         \* history: packets handed to the freed context
          crashed       \* the process died of using the freed context

writerVars == <<kind, running, worker, main, finished, outputMutex, targetrate,
                tr, context, written, late, crashed>>
vars == <<queueVars, writerVars>>

WorkerStage == {"unborn", "loop", "pop", "write", "done"}
MainStage == {"setup", "capturing", "joining", "joined", "freed", "flushing",
              "flushed", "stopping", "stopped", "destroyed"}

TypeOK ==
  /\ QueueTypeOK
  /\ kind \in OutputKind
  /\ running \in BOOLEAN
  /\ worker \in WorkerStage
  /\ main \in MainStage
  /\ finished \in SUBSET Producers
  /\ outputMutex \in Producers \cup {"None"}
  /\ targetrate \in NetworkState
  /\ tr \in [Clients -> NetworkState \cup {"None"}]
  /\ context \in {"open", "freed"}
  /\ written \in Seq(Packet)
  /\ late \in Seq(Packet)
  /\ crashed \in BOOLEAN

Init ==
  /\ QueueInit
  /\ kind \in OutputKind
  /\ running = FALSE
  /\ worker = "unborn"
  /\ main = "setup"
  /\ finished = {}
  /\ outputMutex = "None"
  /\ targetrate = "Normal"
  /\ tr = [t \in Clients |-> "None"]
  /\ context = "open"
  /\ written = <<>>
  /\ late = <<>>
  /\ crashed = FALSE

-----------------------------------------------------------------------------
(* The encoder threads: the tail of RCam::encodeFrame. *)

(* One packet is enqueued under output_mutex_, which stays locked until    *)
(* enqueuePacket, and the callback it may run, returns.                    *)
Enqueue(p) ==
  /\ main \in {"capturing", "joining"}
  /\ p \notin finished
  /\ outputMutex = "None"
  /\ PushAccepts(p) \/ PushRefuses(p)
  /\ outputMutex' = IF callback'[p] # "None" THEN p ELSE "None"
  /\ UNCHANGED <<kind, running, worker, main, finished, targetrate, tr,
                 context, written, late, crashed>>

(* The thread ends, after it has flushed its encoders. *)
EncoderEnds(p) ==
  /\ main = "joining"
  /\ p \notin finished
  /\ callback[p] = "None"
  /\ finished' = finished \cup {p}
  /\ UNCHANGED <<queueVars, kind, running, worker, main, outputMutex,
                 targetrate, tr, context, written, late, crashed>>

-----------------------------------------------------------------------------
(* The congestion callback, run by the thread whose push or pop crossed a  *)
(* watermark.                                                              *)

CallbackLoads(t) ==
  /\ callback[t] # "None"
  /\ tr[t] = "None"
  /\ tr' = [tr EXCEPT ![t] = targetrate]
  /\ UNCHANGED <<queueVars, kind, running, worker, main, finished,
                 outputMutex, targetrate, context, written, late, crashed>>

NewTarget_Zeroed(t) == IF tr[t] # callback[t] THEN "None" ELSE targetrate
NewTarget_NeverNormal(t) ==
  IF tr[t] # callback[t] /\ callback[t] = "Slow" THEN "Slow" ELSE targetrate
NewTarget(t) == IF tr[t] # callback[t] THEN callback[t] ELSE targetrate

CallbackStores(t) ==
  /\ tr[t] # "None"
  /\ RunCallback(t)
  /\ targetrate' = NewTarget(t)
  /\ tr' = [tr EXCEPT ![t] = "None"]
  /\ outputMutex' = IF outputMutex = t THEN "None" ELSE outputMutex
  /\ UNCHANGED <<kind, running, worker, main, finished, context, written,
                 late, crashed>>

-----------------------------------------------------------------------------
(* The worker thread: networkLoop. *)

WorkerLoop ==
  /\ worker = "loop"
  /\ worker' = IF running THEN "pop" ELSE "done"
  /\ UNCHANGED <<queueVars, kind, running, main, finished, outputMutex,
                 targetrate, tr, context, written, late, crashed>>

WorkerPops ==
  /\ worker = "pop"
  /\ \/ Pop /\ worker' = "write"
     \/ PopWaits /\ UNCHANGED worker
     \/ PopReturnsNull /\ worker' = "done"
  /\ UNCHANGED <<kind, running, main, finished, outputMutex, targetrate, tr,
                 context, written, late, crashed>>

InHand == popped[Len(popped)]

WorkerWrites_Retries ==
  /\ worker = "write"
  /\ callback[Worker] = "None"
  /\ context = "open"
  /\ Len(written) < MaxPackets
  /\ written' = Append(written, InHand)
  /\ worker' \in {"loop", "write"}
  /\ UNCHANGED <<queueVars, kind, running, main, finished, outputMutex,
                 targetrate, tr, context, late, crashed>>

(* pop returns after its callback; an error of the muxer is only printed.  *)
WorkerWrites ==
  /\ worker = "write"
  /\ callback[Worker] = "None"
  /\ context = "open"
  /\ written' = Append(written, InHand)
  /\ worker' = "loop"
  /\ UNCHANGED <<queueVars, kind, running, main, finished, outputMutex,
                 targetrate, tr, context, late, crashed>>

(* Undefined behaviour: outCtx_ is freed memory.  The call may return, or  *)
(* it may kill the process.                                                *)
WorkerWritesFreed ==
  /\ worker = "write"
  /\ callback[Worker] = "None"
  /\ context = "freed"
  /\ late' = Append(late, InHand)
  /\ worker' = "loop"
  /\ crashed' \in BOOLEAN
  /\ UNCHANGED <<queueVars, kind, running, main, finished, outputMutex,
                 targetrate, tr, context, written>>

-----------------------------------------------------------------------------
(* The main thread: initOutputs, then freeOutputs. *)

MainStep(from, to) == main = from /\ main' = to

(* start() for a composite output; no call for a raw one. *)
Start ==
  /\ MainStep("setup", "capturing")
  /\ running' = (kind = "Composite")
  /\ worker' = IF kind = "Composite" THEN "loop" ELSE "unborn"
  /\ UNCHANGED <<queueVars, kind, finished, outputMutex, targetrate, tr,
                 context, written, late, crashed>>

(* freeOutputs tells the encoder threads to end and waits for them. *)
BeginFree ==
  /\ MainStep("capturing", "joining")
  /\ UNCHANGED <<queueVars, kind, running, worker, finished, outputMutex,
                 targetrate, tr, context, written, late, crashed>>

JoinEncoders ==
  /\ MainStep("joining", "joined")
  /\ finished = Producers
  /\ UNCHANGED <<queueVars, kind, running, worker, finished, outputMutex,
                 targetrate, tr, context, written, late, crashed>>

(* av_write_trailer, avio_closep and avformat_free_context. *)
FreeContexts ==
  /\ MainStep("joined", "freed")
  /\ context' = "freed"
  /\ UNCHANGED <<queueVars, kind, running, worker, finished, outputMutex,
                 targetrate, tr, written, late, crashed>>

StopCalled_ClearsFirst ==
  /\ main = "freed"
  /\ running
  /\ Flush
  /\ main' = IF flushing' THEN "flushing" ELSE "flushed"
  /\ running' = FALSE
  /\ UNCHANGED <<kind, worker, finished, outputMutex, targetrate, tr,
                 context, written, late, crashed>>

StopCalled ==
  /\ main = "freed"
  /\ running
  /\ Flush
  /\ main' = IF flushing' THEN "flushing" ELSE "flushed"
  /\ UNCHANGED <<kind, running, worker, finished, outputMutex, targetrate, tr,
                 context, written, late, crashed>>

(* stop() returns at once when the writer was never started. *)
StopNotRunning ==
  /\ MainStep("freed", "stopped")
  /\ ~running
  /\ UNCHANGED <<queueVars, kind, running, worker, finished, outputMutex,
                 targetrate, tr, context, written, late, crashed>>

StopFlushWakes ==
  /\ main = "flushing"
  /\ FlushWakes
  /\ main' = IF flushing' THEN "flushing" ELSE "flushed"
  /\ UNCHANGED <<kind, running, worker, finished, outputMutex, targetrate, tr,
                 context, written, late, crashed>>

ClearRunning ==
  /\ MainStep("flushed", "stopping")
  /\ running' = FALSE
  /\ UNCHANGED <<queueVars, kind, worker, finished, outputMutex, targetrate,
                 tr, context, written, late, crashed>>

JoinWorker ==
  /\ MainStep("stopping", "stopped")
  /\ worker = "done"
  /\ UNCHANGED <<queueVars, kind, running, worker, finished, outputMutex,
                 targetrate, tr, context, written, late, crashed>>

(* The last reference goes: ~NetworkWriter, then ~PacketQueue. *)
Destroy ==
  /\ MainStep("stopped", "destroyed")
  /\ Shutdown
  /\ UNCHANGED <<kind, running, worker, finished, outputMutex, targetrate, tr,
                 context, written, late, crashed>>

-----------------------------------------------------------------------------

Spurious(t) == SpuriousWakeup(t) /\ UNCHANGED writerVars

EncoderStep(p) == Enqueue(p) \/ EncoderEnds(p)
CallbackStep(t) == CallbackLoads(t) \/ CallbackStores(t)
WorkerStep == WorkerLoop \/ WorkerPops \/ WorkerWrites \/ WorkerWritesFreed
FreeStep == JoinEncoders \/ FreeContexts \/ StopCalled \/ StopNotRunning
            \/ StopFlushWakes \/ ClearRunning \/ JoinWorker \/ Destroy

Next ==
  /\ ~crashed
  /\ \/ \E p \in Producers : EncoderStep(p)
     \/ \E t \in Clients : CallbackStep(t)
     \/ \E t \in waiting : Spurious(t)
     \/ WorkerStep
     \/ Start
     \/ BeginFree
     \/ FreeStep

(* The threads are scheduled, and the main thread's calls go on while they *)
(* can; nobody has to press the button, and a spurious wakeup is never due.*)
Fairness ==
  /\ \A p \in Producers : WF_vars(~crashed /\ EncoderEnds(p))
  /\ \A t \in Clients : WF_vars(~crashed /\ CallbackStep(t))
  /\ WF_vars(~crashed /\ WorkerStep)
  /\ WF_vars(~crashed /\ FreeStep)

Spec == Init /\ [][Next]_vars
FairSpec == Spec /\ Fairness

-----------------------------------------------------------------------------
(* Properties that hold. *)

Quiet == \A t \in Clients : callback[t] = "None"
Handed(k) == \E i \in 1..Len(written) : written[i] = k
HandedLate(k) == \E i \in 1..Len(late) : late[i] = k
Accepted(k) == \E i \in 1..Len(accepted) : accepted[i] = k

(* networkLoop hands every packet pop() gave it to the muxer, once and in  *)
(* order, across the freeing of the context; at most one is in its hand.   *)
WriterKeepsOrder ==
  popped = written \o late \o (IF worker = "write" THEN <<InHand>> ELSE <<>>)

(* What stop() is for: once running_ is cleared no packet is left in the   *)
(* queue, and once stop() has returned the worker has ended.               *)
StopDrains ==
  kind = "Composite" =>
    /\ main \in {"stopping", "stopped", "destroyed"} => queue = <<>>
    /\ main \in {"stopped", "destroyed"} => worker = "done"

(* The target rate follows the queue's state whenever no callback is due,  *)
(* as long as no two callbacks were ever due at the same time: the Slow of *)
(* a push may store after the Normal of the pop that followed it, and the  *)
(* rate then stays slow while the queue is normal.                         *)
RateFollowsUnlessOverlapped ==
  Quiet /\ ~overlapped => targetrate = currentState

(* What the next step of each thread waits for, once freeOutputs runs.     *)
MainCanStep ==
  \/ main = "joining" /\ finished = Producers
  \/ main \in {"freed", "stopped"} /\ ~flushing
  \/ main = "flushing" /\ flushing /\ Main \notin waiting
  \/ main \in {"joined", "flushed"}
  \/ main = "stopping" /\ worker = "done"
CallbackCanStep == \E t \in Clients : callback[t] # "None"
EncoderCanStep == \E p \in Producers \ finished : callback[p] = "None"
WorkerCanStep ==
  \/ worker = "loop"
  \/ worker = "pop" /\ Worker \notin waiting /\ callback[Worker] = "None"
  \/ worker = "write" /\ callback[Worker] = "None"

(* freeOutputs, stop(), flush(): the end of an output hangs in one way     *)
(* only, with main asleep in flush() although the queue is empty, because  *)
(* the worker that emptied it notified nobody.  Everywhere else main can   *)
(* go on or waits for a thread that can.                                   *)
OnlyFlushHangs ==
  ~crashed /\ main \notin {"setup", "capturing", "destroyed"} =>
    \/ MainCanStep
    \/ CallbackCanStep
    \/ main = "joining" /\ EncoderCanStep
    \/ main \in {"flushing", "stopping"} /\ WorkerCanStep
    \/ main = "flushing" /\ Main \in waiting /\ queue = <<>> /\ worker = "done"

(* The writer of a composite output hands every accepted packet to the     *)
(* muxer, unless the process dies first.                                   *)
AcceptedIsHandled ==
  \A k \in Packet :
    (kind = "Composite" /\ Accepted(k)) ~> (Handed(k) \/ HandedLate(k) \/ crashed)

(* A writer that is idle when freeOutputs comes to stop it is stopped: the *)
(* sleeping worker gets the notification of flush() and ends.              *)
IdleWriterStops ==
  (main = "freed" /\ queue = <<>>) ~> (main = "destroyed" \/ crashed)

-----------------------------------------------------------------------------
(* Properties the documentation states and the code does not have. *)

(* core/rcam.cpp:772, "flush any valid encoder": what the encoders flush   *)
(* at the end of a capture reaches the output before it is closed.         *)
FlushedPacketsReachOutput == late = <<>>

(* README.md:7, "Starts and stop capture thru GPIO switch": a stop that    *)
(* has begun ends.                                                         *)
StopEnds == (main = "freed") ~> (main = "destroyed" \/ crashed)
=============================================================================
