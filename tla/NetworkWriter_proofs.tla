------------------------ MODULE NetworkWriter_proofs ------------------------
(***************************************************************************)
(* Proofs about NetworkWriter, for every set of encoders, capacity and     *)
(* pair of watermarks.  The queue's theorems carry over, because the       *)
(* writer uses its queue through the queue's own actions only.             *)
(***************************************************************************)
EXTENDS NetworkWriter, PacketQueue_proofs

USE DEF NetworkState, Clients, Packet

-----------------------------------------------------------------------------
(* The writer as a user of its queue. *)

(* A step of the encoders, the worker, a callback or the main thread is a  *)
(* step of the queue or leaves the queue alone.                            *)
LEMMA QueueStep == [Next]_vars => [QueueNext]_queueVars
<1> SUFFICES ASSUME [Next]_vars
             PROVE  QueueNext \/ UNCHANGED queueVars
  OBVIOUS
<1>1. ASSUME NEW p \in Producers, EncoderStep(p)
      PROVE  QueueNext \/ UNCHANGED queueVars
  BY <1>1 DEF EncoderStep, Enqueue, EncoderEnds, QueueNext
<1>2. ASSUME NEW t \in Clients, CallbackStep(t)
      PROVE  QueueNext \/ UNCHANGED queueVars
  BY <1>2 DEF CallbackStep, CallbackLoads, CallbackStores, QueueNext
<1>3. ASSUME NEW t \in waiting, Spurious(t)
      PROVE  QueueNext
  BY <1>3 DEF Spurious, QueueNext
<1>4. CASE WorkerStep
  BY <1>4 DEF WorkerStep, WorkerLoop, WorkerPops, WorkerWrites,
              WorkerWritesFreed, PopReturnsNull, QueueNext
<1>5. CASE Start \/ BeginFree
  BY <1>5 DEF Start, BeginFree
<1>6. CASE FreeStep
  BY <1>6 DEF FreeStep, JoinEncoders, FreeContexts, StopCalled,
              StopNotRunning, StopFlushWakes, ClearRunning, JoinWorker,
              Destroy, QueueNext
<1>7. CASE UNCHANGED vars
  BY <1>7 DEF vars
<1>8. QED
  BY <1>1, <1>2, <1>3, <1>4, <1>5, <1>6, <1>7 DEF Next

(* The composition implements the queue it is built on: start, stop, the   *)
(* worker and the encoders add no behaviour to it.                         *)
THEOREM WriterImplementsQueue == Spec => QueueSpec
<1>1. Init => QueueInit
  BY DEF Init
<1>2. QED
  BY <1>1, QueueStep, PTL DEF Spec, QueueSpec

(* Whatever the order in which freeOutputs tears the writer down, every    *)
(* packet its queue accepted is popped, discarded or waiting, in order.    *)
THEOREM WriterLosesNothing == Spec => []NothingLost
BY WriterImplementsQueue, NothingLostHolds

-----------------------------------------------------------------------------
(* stop() *)

(* What stop() rests on: a composite output's writer runs until its queue  *)
(* has been flushed, nothing is queued afterwards, and the worker is       *)
(* joined before stop() returns.                                           *)
RunsUntilFlushed ==
  main \in {"capturing", "joining", "joined", "freed", "flushing", "flushed"}
    => running
EmptyOnceFlushed ==
  main \in {"flushed", "stopping", "stopped", "destroyed"} => queue = <<>>
WorkerJoined == main \in {"stopped", "destroyed"} => worker = "done"
Draining ==
  kind = "Composite" => RunsUntilFlushed /\ EmptyOnceFlushed /\ WorkerJoined

(* Every step keeps what is known of a writer that drains. *)
LEMMA DrainingStep == Draining /\ [Next]_vars => Draining'
<1> SUFFICES ASSUME Draining, [Next]_vars
             PROVE  Draining'
  OBVIOUS
<1> USE DEF Draining, RunsUntilFlushed, EmptyOnceFlushed, WorkerJoined
<1>1. ASSUME NEW p \in Producers, EncoderStep(p)
      PROVE  Draining'
  BY <1>1 DEF EncoderStep, Enqueue, EncoderEnds, queueVars
<1>2. ASSUME NEW t \in Clients, CallbackStep(t)
      PROVE  Draining'
  BY <1>2 DEF CallbackStep, CallbackLoads, CallbackStores, RunCallback,
              queueVars
<1>3. ASSUME NEW t \in waiting, Spurious(t)
      PROVE  Draining'
  BY <1>3 DEF Spurious, SpuriousWakeup, writerVars
<1>4. CASE WorkerStep
  <2>1. CASE WorkerLoop
    BY <2>1 DEF WorkerLoop, queueVars
  <2>2. CASE WorkerPops
    BY <2>2 DEF WorkerPops, Pop, PopWaits, PopReturnsNull, queueVars
  <2>3. CASE WorkerWrites \/ WorkerWritesFreed
    BY <2>3 DEF WorkerWrites, WorkerWritesFreed, queueVars
  <2>4. QED
    BY <1>4, <2>1, <2>2, <2>3 DEF WorkerStep
<1>5. CASE Start \/ BeginFree
  BY <1>5 DEF Start, BeginFree, MainStep, queueVars
<1>6. CASE FreeStep
  <2>1. CASE JoinEncoders \/ FreeContexts \/ StopNotRunning \/ JoinWorker
    BY <2>1 DEF JoinEncoders, FreeContexts, StopNotRunning, JoinWorker,
                MainStep, queueVars
  <2>2. CASE StopCalled
    BY <2>2 DEF StopCalled, Flush, FlushDone
  <2>3. CASE StopFlushWakes
    BY <2>3 DEF StopFlushWakes, FlushWakes, FlushDone
  <2>4. CASE ClearRunning
    BY <2>4 DEF ClearRunning, MainStep, queueVars
  <2>5. CASE Destroy
    BY <2>5 DEF Destroy, Shutdown, MainStep
  <2>6. QED
    BY <1>6, <2>1, <2>2, <2>3, <2>4, <2>5 DEF FreeStep
<1>7. CASE UNCHANGED vars
  BY <1>7 DEF vars, queueVars, writerVars
<1>8. QED
  BY <1>1, <1>2, <1>3, <1>4, <1>5, <1>6, <1>7 DEF Next

(* When stop() has cleared running_ no packet is left in the queue, and    *)
(* when it has returned the worker has ended.                              *)
THEOREM StopDrainsHolds == Spec => []StopDrains
<1>1. Init => Draining
  BY DEF Init, Draining, RunsUntilFlushed, EmptyOnceFlushed, WorkerJoined
<1>2. Draining => StopDrains
  BY DEF Draining, EmptyOnceFlushed, WorkerJoined, StopDrains
<1>3. QED
  BY <1>1, <1>2, DrainingStep, PTL DEF Spec

-----------------------------------------------------------------------------
(* The target rate. *)

(* No callback is running that is not due, and as long as no two were due  *)
(* together the rate is right or exactly one callback is due that will set *)
(* it right, having read the rate as it still is.                          *)
NothingLoadedWhenQuiet ==
  \A t \in Clients : callback[t] = "None" => tr[t] = "None"
OneCallbackDue(t) ==
  /\ callback[t] = currentState
  /\ tr[t] \in {"None", targetrate}
  /\ \A u \in Clients \ {t} : callback[u] = "None"
RateSettles ==
  ~overlapped => \/ Quiet /\ targetrate = currentState
                 \/ \E t \in Clients : OneCallbackDue(t)
RateInvariant == NothingLoadedWhenQuiet /\ RateSettles

(* The part of TypeOK that is about the rate and its readers.              *)
RateTypeOK ==
  /\ targetrate \in NetworkState
  /\ tr \in [Clients -> NetworkState \cup {"None"}]

(* A push or pop that crosses a watermark while no callback is due makes   *)
(* its own due; one that does not changes nothing the rate depends on.     *)
LEMMA SignalStep ==
  ASSUME QueueTypeOK, RateTypeOK, RateInvariant,
         NEW t \in Clients, NEW ns \in NetworkState,
         callback[t] = "None", Signal(t, ns) \/ NoSignal,
         UNCHANGED <<targetrate, tr>>
  PROVE  RateInvariant'
<1> USE DEF QueueTypeOK, RateTypeOK, RateInvariant
<1>1. CASE Signal(t, ns)
  <2>1. /\ callback' = [callback EXCEPT ![t] = ns]
        /\ currentState' = ns
        /\ overlapped' = (overlapped \/ \E u \in Clients : callback[u] # "None")
    BY <1>1 DEF Signal
  <2>2. NothingLoadedWhenQuiet'
    BY <2>1 DEF NothingLoadedWhenQuiet
  <2>3. ASSUME ~overlapped'
        PROVE  OneCallbackDue(t)'
    <3>1. \A u \in Clients : callback[u] = "None"
      BY <2>1, <2>3
    <3>2. tr[t] = "None"
      BY DEF NothingLoadedWhenQuiet
    <3>3. QED
      BY <2>1, <3>1, <3>2 DEF OneCallbackDue
  <2>4. QED
    BY <2>2, <2>3 DEF RateSettles
<1>2. CASE NoSignal
  BY <1>2 DEF NoSignal, NothingLoadedWhenQuiet, RateSettles, OneCallbackDue,
              Quiet
<1>3. QED
  BY <1>1, <1>2

(* Whatever leaves the callbacks, the state and the rate alone keeps the   *)
(* invariant.                                                              *)
LEMMA RateUntouched ==
  ASSUME RateInvariant,
         UNCHANGED <<currentState, callback, overlapped, targetrate, tr>>
  PROVE  RateInvariant'
BY DEF RateInvariant, NothingLoadedWhenQuiet, RateSettles, OneCallbackDue,
       Quiet

(* Every step keeps the rate asked for, the state and the callbacks in     *)
(* agreement.                                                              *)
LEMMA RateStep ==
  QueueTypeOK /\ RateTypeOK /\ RateInvariant /\ [Next]_vars
    => RateTypeOK' /\ RateInvariant'
<1> SUFFICES ASSUME QueueTypeOK, RateTypeOK, RateInvariant, [Next]_vars
             PROVE  RateTypeOK' /\ RateInvariant'
  OBVIOUS
<1> DEFINE Untouched ==
             UNCHANGED <<currentState, callback, overlapped, targetrate, tr>>
<1>1. ASSUME Untouched
      PROVE  RateTypeOK' /\ RateInvariant'
  BY <1>1, RateUntouched DEF RateTypeOK
<1>2. ASSUME NEW p \in Producers, EncoderStep(p)
      PROVE  RateTypeOK' /\ RateInvariant'
  <2>1. CASE PushAccepts(p) /\ UNCHANGED <<targetrate, tr>>
    <3>1. callback[p] = "None"
      BY <2>1 DEF PushAccepts, Offer
    <3>2. Signal(p, "Slow") \/ NoSignal
      BY <2>1 DEF PushAccepts
    <3>3. RateInvariant'
      BY <2>1, <3>1, <3>2, SignalStep
    <3>4. QED
      BY <2>1, <3>3 DEF RateTypeOK
  <2>2. CASE PushRefuses(p) /\ UNCHANGED <<targetrate, tr>>
    BY <1>1, <2>2 DEF PushRefuses
  <2>3. CASE EncoderEnds(p)
    BY <1>1, <2>3 DEF EncoderEnds, queueVars
  <2>4. QED
    BY <1>2, <2>1, <2>2, <2>3 DEF EncoderStep, Enqueue
<1>3. ASSUME NEW t \in Clients, CallbackLoads(t)
      PROVE  RateTypeOK' /\ RateInvariant'
  <2> USE DEF RateTypeOK, RateInvariant
  <2>1. /\ callback[t] # "None"
        /\ tr' = [tr EXCEPT ![t] = targetrate]
        /\ UNCHANGED <<currentState, callback, overlapped, targetrate>>
    BY <1>3 DEF CallbackLoads, queueVars
  <2>2. RateTypeOK'
    BY <2>1
  <2>3. NothingLoadedWhenQuiet'
    BY <2>1 DEF NothingLoadedWhenQuiet
  <2>4. RateSettles'
    BY <2>1 DEF RateSettles, OneCallbackDue, Quiet
  <2>5. QED
    BY <2>2, <2>3, <2>4
<1>4. ASSUME NEW t \in Clients, CallbackStores(t)
      PROVE  RateTypeOK' /\ RateInvariant'
  <2> USE DEF RateTypeOK, RateInvariant, QueueTypeOK
  <2>1. /\ tr[t] # "None"
        /\ callback[t] # "None"
        /\ callback' = [callback EXCEPT ![t] = "None"]
        /\ tr' = [tr EXCEPT ![t] = "None"]
        /\ targetrate' = IF tr[t] # callback[t] THEN callback[t] ELSE targetrate
        /\ UNCHANGED <<currentState, overlapped>>
    BY <1>4 DEF CallbackStores, RunCallback, NewTarget
  <2>2. RateTypeOK'
    BY <2>1
  <2>3. NothingLoadedWhenQuiet'
    BY <2>1 DEF NothingLoadedWhenQuiet
  <2>4. ASSUME ~overlapped
        PROVE  Quiet' /\ targetrate' = currentState'
    <3>1. PICK u \in Clients : OneCallbackDue(u)
      BY <2>1, <2>4 DEF RateSettles, Quiet
    <3>2. u = t
      BY <2>1, <3>1 DEF OneCallbackDue
    <3>3. callback[t] = currentState /\ tr[t] = targetrate
      BY <2>1, <3>1, <3>2 DEF OneCallbackDue
    <3>4. \A v \in Clients \ {t} : callback[v] = "None"
      BY <3>1, <3>2 DEF OneCallbackDue
    <3>5. QED
      BY <2>1, <3>3, <3>4 DEF Quiet
  <2>5. QED
    BY <2>1, <2>2, <2>3, <2>4 DEF RateSettles
<1>5. ASSUME NEW t \in waiting, Spurious(t)
      PROVE  RateTypeOK' /\ RateInvariant'
  BY <1>1, <1>5 DEF Spurious, SpuriousWakeup, writerVars
<1>6. CASE WorkerStep
  <2>1. CASE Pop /\ UNCHANGED <<targetrate, tr>>
    <3>1. callback[Worker] = "None"
      BY <2>1 DEF Pop, CanPop
    <3>2. Signal(Worker, "Normal") \/ NoSignal
      BY <2>1 DEF Pop
    <3>3. RateInvariant'
      BY <2>1, <3>1, <3>2, SignalStep
    <3>4. QED
      BY <2>1, <3>3 DEF RateTypeOK
  <2>2. CASE PopWaits /\ UNCHANGED <<targetrate, tr>>
    BY <1>1, <2>2 DEF PopWaits
  <2>3. CASE UNCHANGED <<queueVars, targetrate, tr>>
    BY <1>1, <2>3 DEF queueVars
  <2>4. QED
    BY <1>6, <2>1, <2>2, <2>3
    DEF WorkerStep, WorkerLoop, WorkerPops, WorkerWrites, WorkerWritesFreed,
        PopReturnsNull
<1>7. CASE Start \/ BeginFree \/ FreeStep
  <2>1. Untouched
    BY <1>7
    DEF Start, BeginFree, FreeStep, JoinEncoders, FreeContexts, StopCalled,
        StopNotRunning, StopFlushWakes, ClearRunning, JoinWorker, Destroy,
        Flush, FlushWakes, Shutdown, queueVars
  <2>2. QED
    BY <1>1, <2>1
<1>8. CASE UNCHANGED vars
  BY <1>1, <1>8 DEF vars, queueVars, writerVars
<1>9. QED
  BY <1>2, <1>3, <1>4, <1>5, <1>6, <1>7, <1>8 DEF Next, CallbackStep

(* The rate and the callbacks agree in every reachable state. *)
LEMMA RateHolds == Spec => [](RateTypeOK /\ RateInvariant)
<1>1. Init => RateTypeOK /\ RateInvariant
  <2> SUFFICES ASSUME Init PROVE RateTypeOK /\ RateInvariant
    OBVIOUS
  <2>1. /\ targetrate = "Normal" /\ currentState = "Normal"
        /\ callback = [t \in Clients |-> "None"]
        /\ tr = [t \in Clients |-> "None"]
    BY DEF Init, QueueInit
  <2>2. RateTypeOK
    BY <2>1 DEF RateTypeOK
  <2>3. RateInvariant
    BY <2>1 DEF RateInvariant, NothingLoadedWhenQuiet, RateSettles, Quiet
  <2>4. QED
    BY <2>2, <2>3
<1>2. Spec => []QueueTypeOK
  BY WriterImplementsQueue, TypeCorrect
<1>3. QED
  BY <1>1, <1>2, RateStep, PTL DEF Spec

(* As long as no two callbacks of setRate were ever due at the same time,  *)
(* the target rate is the one of the queue's state whenever none is due:   *)
(* the overlap is the only way in which the rate can go wrong.             *)
THEOREM RateFollows == Spec => []RateFollowsUnlessOverlapped
<1>1. QueueTypeOK /\ RateInvariant => RateFollowsUnlessOverlapped
  BY DEF RateInvariant, RateSettles, OneCallbackDue, Quiet,
         RateFollowsUnlessOverlapped, QueueTypeOK
<1>2. Spec => []QueueTypeOK
  BY WriterImplementsQueue, TypeCorrect
<1>3. QED
  BY <1>1, <1>2, RateHolds, PTL

-----------------------------------------------------------------------------
(* The order of the packets. *)

(* Nothing is written late before the contexts are freed, and the packet   *)
(* in the worker's hand is the last one popped.                            *)
NothingLateWhileOpen == context = "open" => late = <<>>
HoldsLastPopped == worker = "write" => popped # <<>>
UnbornInSetup == main = "setup" => worker = "unborn"
Sent == Cat(written, late)
OrderInvariant ==
  /\ written \in Seq(Packet)
  /\ late \in Seq(Packet)
  /\ NothingLateWhileOpen
  /\ HoldsLastPopped
  /\ UnbornInSetup
  /\ popped = IF worker = "write" THEN Append(Sent, InHand) ELSE Sent

(* What can disturb the order of the packets. *)
LEMMA OrderUntouched ==
  ASSUME OrderInvariant, worker' = "write" <=> worker = "write",
         UNCHANGED <<popped, written, late>>,
         context' = "open" => context = "open",
         main' = "setup" => worker' = "unborn"
  PROVE  OrderInvariant'
BY DEF OrderInvariant, NothingLateWhileOpen, HoldsLastPopped, UnbornInSetup,
       Sent, InHand

(* Every step keeps the packets in order. *)
LEMMA OrderStep ==
  QueueTypeOK /\ OrderInvariant /\ [Next]_vars => OrderInvariant'
<1> SUFFICES ASSUME QueueTypeOK, OrderInvariant, [Next]_vars
             PROVE  OrderInvariant'
  OBVIOUS
<1> USE DEF UnbornInSetup
<1>1. ASSUME NEW p \in Producers, EncoderStep(p)
      PROVE  OrderInvariant'
  BY <1>1, OrderUntouched
  DEF OrderInvariant, EncoderStep, Enqueue, EncoderEnds, PushAccepts, PushRefuses, queueVars
<1>2. ASSUME NEW t \in Clients, CallbackStep(t)
      PROVE  OrderInvariant'
  BY <1>2, OrderUntouched
  DEF OrderInvariant, CallbackStep, CallbackLoads, CallbackStores, RunCallback, queueVars
<1>3. ASSUME NEW t \in waiting, Spurious(t)
      PROVE  OrderInvariant'
  BY <1>3, OrderUntouched DEF OrderInvariant, Spurious, SpuriousWakeup, writerVars
<1>4. CASE WorkerLoop
  BY <1>4, OrderUntouched DEF OrderInvariant, WorkerLoop, queueVars
<1>5. CASE WorkerPops
  <2>1. CASE Pop /\ worker' = "write"
    <3> DEFINE pkt == Head(queue)
    <3>1. /\ worker = "pop"
          /\ popped' = Append(popped, pkt)
          /\ pkt \in Packet
          /\ UNCHANGED <<written, late, context, main>>
      BY <1>5, <2>1, FrontAndRest DEF WorkerPops, Pop, TakeFront, QueueTypeOK
    <3>2. popped = Sent /\ popped \in Seq(Packet)
      BY <3>1 DEF OrderInvariant, QueueTypeOK
    <3>3. popped' \in Seq(Packet) /\ popped' # <<>>
          /\ popped'[Len(popped')] = pkt
      <4> HIDE DEF pkt
      <4>1. QED
        BY <3>1, <3>2, AppendProperties
    <3>4. popped' = Append(Sent', InHand')
      BY <3>1, <3>2, <3>3 DEF Sent, InHand
    <3>5. QED
      BY <2>1, <3>1, <3>3, <3>4
      DEF OrderInvariant, NothingLateWhileOpen, HoldsLastPopped
  <2>2. CASE \/ PopWaits /\ UNCHANGED worker
             \/ PopReturnsNull /\ worker' = "done"
    BY <1>5, <2>2, OrderUntouched
    DEF OrderInvariant, WorkerPops, PopWaits, PopReturnsNull, queueVars
  <2>3. QED
    BY <1>5, <2>1, <2>2 DEF WorkerPops
<1>6. ASSUME worker = "write"
      PROVE  /\ InHand \in Packet
             /\ popped = Append(Sent, InHand)
  <2>1. popped \in Seq(Packet) /\ popped # <<>>
    BY <1>6 DEF OrderInvariant, HoldsLastPopped, QueueTypeOK
  <2>2. Len(popped) \in 1..Len(popped)
    BY <2>1, LenProperties, EmptySeq
  <2>3. QED
    BY <1>6, <2>1, <2>2, ElementOfSeq DEF OrderInvariant, InHand
<1>7. CASE WorkerWrites
  <2>1. /\ late = <<>>
        /\ written' = Append(written, InHand)
        /\ worker' = "loop"
        /\ UNCHANGED <<popped, late, context, main>>
    BY <1>7 DEF WorkerWrites, OrderInvariant, NothingLateWhileOpen, queueVars
  <2>2. worker = "write"
    BY <1>7 DEF WorkerWrites
  <2>3. written \in Seq(Packet) /\ written' \in Seq(Packet)
    BY <1>6, <2>1, <2>2, AppendProperties DEF OrderInvariant
  <2>4. Sent = written /\ Sent' = written'
    BY <2>1, <2>3, CatType, EmptySeq DEF Sent
  <2>5. QED
    BY <1>6, <2>1, <2>2, <2>3, <2>4
    DEF OrderInvariant, NothingLateWhileOpen, HoldsLastPopped
<1>8. CASE WorkerWritesFreed
  <2>1. /\ late' = Append(late, InHand)
        /\ worker' = "loop"
        /\ context' # "open"
        /\ UNCHANGED <<popped, written, main>>
    BY <1>8 DEF WorkerWritesFreed, queueVars
  <2>2. worker = "write" /\ written \in Seq(Packet) /\ late \in Seq(Packet)
    BY <1>8 DEF WorkerWritesFreed, OrderInvariant
  <2>3. late' \in Seq(Packet)
    BY <1>6, <2>1, <2>2, AppendProperties
  <2>4. Append(Sent, InHand) = Sent'
    <3> HIDE DEF Packet
    <3>1. Append(Cat(written, late), InHand) = Cat(written, Append(late, InHand))
      BY <1>6, <2>2, CatAppend
    <3>2. QED
      BY <2>1, <3>1 DEF Sent
  <2>5. QED
    BY <1>6, <2>1, <2>2, <2>3, <2>4
    DEF OrderInvariant, NothingLateWhileOpen, HoldsLastPopped
<1>9. CASE Start \/ BeginFree \/ FreeStep
  <2>1. CASE Start
    BY <2>1, OrderUntouched DEF OrderInvariant, Start, MainStep, queueVars
  <2>2. CASE BeginFree
    BY <2>2, OrderUntouched DEF BeginFree, MainStep, queueVars
  <2>3. CASE FreeStep
    BY <2>3, OrderUntouched
    DEF FreeStep, JoinEncoders, FreeContexts, StopCalled, StopNotRunning,
        StopFlushWakes, ClearRunning, JoinWorker, Destroy, MainStep, Flush,
        FlushWakes, Shutdown, queueVars
  <2>4. QED
    BY <1>9, <2>1, <2>2, <2>3
<1>10. CASE UNCHANGED vars
  BY <1>10, OrderUntouched DEF OrderInvariant, vars, queueVars, writerVars
<1>11. QED
  BY <1>1, <1>2, <1>3, <1>4, <1>5, <1>7, <1>8, <1>9, <1>10 DEF Next, WorkerStep

(* The packets are in order in every reachable state. *)
LEMMA OrderHolds == Spec => []OrderInvariant
<1>1. Init => OrderInvariant
  <2> SUFFICES ASSUME Init PROVE OrderInvariant
    OBVIOUS
  <2>1. <<>> \in Seq(Packet) /\ Cat(<<>>, <<>>) = <<>>
    BY EmptySeq, CatType
  <2>2. QED
    BY <2>1
    DEF Init, QueueInit, OrderInvariant, NothingLateWhileOpen,
        HoldsLastPopped, UnbornInSetup, Sent
<1>2. Spec => []QueueTypeOK
  BY WriterImplementsQueue, TypeCorrect
<1>3. QED
  BY <1>1, <1>2, OrderStep, PTL DEF Spec

(* networkLoop hands every packet it popped to the muxer once and in       *)
(* order, before and after the contexts are freed.                         *)
THEOREM WriterKeepsOrderHolds == Spec => []WriterKeepsOrder
<1>1. OrderInvariant /\ QueueTypeOK => WriterKeepsOrder
  <2> SUFFICES ASSUME OrderInvariant, QueueTypeOK
               PROVE  WriterKeepsOrder
    OBVIOUS
  <2>1. Sent \in Seq(Packet)
    BY CatType DEF OrderInvariant, Sent
  <2>2. CASE worker = "write"
    <3>1. InHand \in Packet
      <4>1. Len(popped) \in 1..Len(popped)
        BY <2>2, LenProperties, EmptySeq
        DEF OrderInvariant, HoldsLastPopped, QueueTypeOK
      <4>2. QED
        BY <4>1, ElementOfSeq DEF QueueTypeOK, InHand
    <3>2. Append(Sent, InHand) = Sent \o <<InHand>>
      BY <2>1, <3>1
    <3>3. QED
      BY <2>2, <3>2 DEF OrderInvariant, WriterKeepsOrder, Sent, Cat
  <2>3. CASE worker # "write"
    <3>1. Sent \o <<>> = Sent
      BY <2>1, ConcatEmptySeq
    <3>2. QED
      BY <2>3, <3>1 DEF OrderInvariant, WriterKeepsOrder, Sent, Cat
  <2>4. QED
    BY <2>2, <2>3
<1>2. Spec => []QueueTypeOK
  BY WriterImplementsQueue, TypeCorrect
<1>3. QED
  BY <1>1, <1>2, OrderHolds, PTL

-----------------------------------------------------------------------------
(* Type correctness. *)

(* Every step keeps the type invariant. *)
LEMMA WriterTypeStep ==
  TypeOK /\ QueueTypeOK' /\ RateTypeOK' /\ OrderInvariant' /\ [Next]_vars
    => TypeOK'
<1> SUFFICES ASSUME TypeOK, QueueTypeOK', RateTypeOK', OrderInvariant',
                    [Next]_vars
             PROVE  TypeOK'
  OBVIOUS
<1> DEFINE Rest == /\ kind \in OutputKind
                   /\ running \in BOOLEAN
                   /\ worker \in WorkerStage
                   /\ main \in MainStage
                   /\ finished \in SUBSET Producers
                   /\ outputMutex \in Producers \cup {"None"}
                   /\ context \in {"open", "freed"}
                   /\ crashed \in BOOLEAN
<1>1. Rest
  BY DEF TypeOK
<1>2. SUFFICES Rest'
  BY <1>2 DEF TypeOK, RateTypeOK, OrderInvariant
<1> USE DEF OutputKind, WorkerStage, MainStage
<1>3. ASSUME NEW p \in Producers, EncoderStep(p)
      PROVE  Rest'
  BY <1>1, <1>3 DEF EncoderStep, Enqueue, EncoderEnds
<1>4. ASSUME NEW t \in Clients, CallbackStep(t)
      PROVE  Rest'
  BY <1>1, <1>4 DEF CallbackStep, CallbackLoads, CallbackStores
<1>5. ASSUME NEW t \in waiting, Spurious(t)
      PROVE  Rest'
  BY <1>1, <1>5 DEF Spurious, writerVars
<1>6. CASE WorkerStep
  BY <1>1, <1>6
  DEF WorkerStep, WorkerLoop, WorkerPops, WorkerWrites, WorkerWritesFreed
<1>7. CASE Start \/ BeginFree
  BY <1>1, <1>7 DEF Start, BeginFree, MainStep
<1>8. CASE FreeStep
  BY <1>1, <1>8
  DEF FreeStep, JoinEncoders, FreeContexts, StopCalled, StopNotRunning,
      StopFlushWakes, ClearRunning, JoinWorker, Destroy, MainStep
<1>9. CASE UNCHANGED vars
  BY <1>1, <1>9 DEF vars, writerVars
<1>10. QED
  BY <1>3, <1>4, <1>5, <1>6, <1>7, <1>8, <1>9 DEF Next

(* The variables of the writer and of its queue keep their types.          *)
THEOREM WriterTypeCorrect == Spec => []TypeOK
<1>1. Init /\ QueueTypeOK /\ RateTypeOK /\ OrderInvariant => TypeOK
  BY DEF Init, TypeOK, RateTypeOK, OrderInvariant, WorkerStage, MainStage
<1>2. Spec => []QueueTypeOK
  BY WriterImplementsQueue, TypeCorrect
<1>3. QED
  BY <1>1, <1>2, RateHolds, OrderHolds, WriterTypeStep, PTL DEF Spec

-----------------------------------------------------------------------------
(* Where the end of an output can hang.                                    *)

(* Main is inside flush() exactly in its stage "flushing", the worker was  *)
(* born if there is anything to stop, and it ended only on finding the     *)
(* queue empty and closed.                                                 *)
WorkerEnds == worker = "done" => queue = <<>> /\ shutdown
StopStages ==
  /\ flushing <=> main = "flushing"
  /\ running => worker # "unborn"
  /\ worker # "unborn" => kind = "Composite"
  /\ main \in {"flushing", "flushed", "stopping"} => worker # "unborn" /\ shutdown
  /\ main \in {"stopped", "destroyed"} /\ kind = "Composite" => shutdown
StopInv == WorkerEnds /\ StopStages

(* Every step keeps what is known of a writer that stops. *)
LEMMA StopStep ==
  TypeOK /\ Draining /\ UnbornInSetup /\ StopInv /\ [Next]_vars => StopInv'
<1> SUFFICES ASSUME TypeOK, Draining, UnbornInSetup, StopInv, [Next]_vars
             PROVE  StopInv'
  OBVIOUS
<1> USE DEF StopInv, WorkerEnds, StopStages
<1>1. ASSUME NEW p \in Producers, EncoderStep(p)
      PROVE  StopInv'
  BY <1>1 DEF EncoderStep, Enqueue, EncoderEnds, PushAccepts, HasRoom, PushRefuses, queueVars
<1>2. ASSUME NEW t \in Clients, CallbackStep(t)
      PROVE  StopInv'
  BY <1>2 DEF CallbackStep, CallbackLoads, CallbackStores, RunCallback, queueVars
<1>3. ASSUME NEW t \in waiting, Spurious(t)
      PROVE  StopInv'
  BY <1>3 DEF Spurious, SpuriousWakeup, writerVars
<1>4. CASE WorkerLoop
  <2>1. worker # "unborn" /\ main \in MainStage
    BY <1>4 DEF WorkerLoop, TypeOK
  <2>2. ~running => queue = <<>> /\ shutdown
    BY <2>1 DEF Draining, RunsUntilFlushed, EmptyOnceFlushed, UnbornInSetup, MainStage
  <2>3. QED
    BY <1>4, <2>1, <2>2 DEF WorkerLoop, queueVars
<1>5. CASE WorkerPops
  <2>1. UNCHANGED <<flushing, running, kind, main, shutdown>> /\ worker = "pop"
    BY <1>5 DEF WorkerPops, Pop, PopWaits, PopReturnsNull, queueVars
  <2>2. worker' = "done" => queue' = <<>> /\ shutdown'
    BY <1>5 DEF WorkerPops, Pop, PopWaits, PopReturnsNull, queueVars
  <2>3. worker' # "unborn"
    BY <1>5 DEF WorkerPops
  <2>4. QED
    BY <2>1, <2>2, <2>3
<1>6. CASE WorkerWrites \/ WorkerWritesFreed
  BY <1>6 DEF WorkerWrites, WorkerWritesFreed, queueVars
<1>7. CASE Start
  BY <1>7 DEF Start, MainStep, queueVars, UnbornInSetup
<1>8. CASE BeginFree \/ JoinEncoders \/ FreeContexts
  BY <1>8 DEF BeginFree, JoinEncoders, FreeContexts, MainStep, queueVars
<1>9. CASE StopCalled
  BY <1>9 DEF StopCalled, Flush
<1>10. CASE StopNotRunning
  BY <1>10 DEF StopNotRunning, MainStep, queueVars, Draining, RunsUntilFlushed
<1>11. CASE StopFlushWakes
  BY <1>11 DEF StopFlushWakes, FlushWakes
<1>12. CASE ClearRunning \/ JoinWorker
  BY <1>12 DEF ClearRunning, JoinWorker, MainStep, queueVars
<1>13. CASE Destroy
  BY <1>13 DEF Destroy, Shutdown, MainStep
<1>14. CASE UNCHANGED vars
  BY <1>14 DEF vars, queueVars, writerVars
<1>15. QED
  BY <1>1, <1>2, <1>3, <1>4, <1>5, <1>6, <1>7, <1>8, <1>9, <1>10, <1>11, <1>12, <1>13,
     <1>14 DEF Next, WorkerStep, FreeStep

(* When freeOutputs ends an output, main never waits for a thread that can *)
(* do nothing, but for the one way in which flush() sleeps on: asleep with *)
(* the queue empty and the worker, who emptied it, gone.                   *)
THEOREM OnlyFlushHangsHolds == Spec => []OnlyFlushHangs
<1>1. Init => Draining /\ StopInv
  BY DEF Init, QueueInit, Draining, RunsUntilFlushed, EmptyOnceFlushed, WorkerJoined,
         StopInv, WorkerEnds, StopStages
<1>2. TypeOK /\ WorkerSleepsOnlyWhenIdle /\ StopInv => OnlyFlushHangs
  <2> SUFFICES ASSUME TypeOK, WorkerSleepsOnlyWhenIdle, StopInv,
                      main \notin {"setup", "capturing", "destroyed"},
                      ~MainCanStep, ~CallbackCanStep
               PROVE  \/ main = "joining" /\ EncoderCanStep
                      \/ main \in {"flushing", "stopping"} /\ WorkerCanStep
                      \/ main = "flushing" /\ Main \in waiting /\ queue = <<>> /\ worker = "done"
    BY DEF OnlyFlushHangs
  <2> USE DEF StopInv, StopStages, WorkerEnds, MainCanStep
  <2>1. main \in {"joining", "flushing", "stopping"}
    BY DEF TypeOK, MainStage
  <2>2. CASE main = "joining"
    <3>1. PICK p \in Producers : p \notin finished
      BY <2>2 DEF TypeOK
    <3>2. callback[p] = "None"
      BY <3>1 DEF CallbackCanStep
    <3>3. QED
      BY <2>2, <3>1, <3>2 DEF EncoderCanStep
  <2>3. CASE main \in {"flushing", "stopping"}
    <3>1. callback[Worker] = "None"
      BY DEF CallbackCanStep
    <3>2. Worker \notin waiting /\ worker # "unborn"
      BY <2>3 DEF WorkerSleepsOnlyWhenIdle
    <3>3. worker # "done" => WorkerCanStep
      BY <3>1, <3>2 DEF WorkerCanStep, TypeOK, WorkerStage
    <3>4. QED
      BY <2>3, <3>3
  <2>4. QED
    BY <2>1, <2>2, <2>3
<1>3. Spec => []WorkerSleepsOnlyWhenIdle
  BY WriterImplementsQueue, NoLostWakeup
<1>4. OrderInvariant => UnbornInSetup
  BY DEF OrderInvariant
<1>5. QED
  BY <1>1, <1>2, <1>3, <1>4, DrainingStep, StopStep, OrderHolds, WriterTypeCorrect, PTL DEF Spec
=============================================================================
