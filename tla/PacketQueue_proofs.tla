------------------------- MODULE PacketQueue_proofs -------------------------
(***************************************************************************)
(* Proofs about PacketQueue, for every set of producers, capacity and pair *)
(* of watermarks that WatermarkAssumption admits.                          *)
(***************************************************************************)
EXTENDS PacketQueue, SequenceTheorems, TLAPS

USE DEF NetworkState, Clients, Packet

-----------------------------------------------------------------------------
(* Facts about sequences. *)

(* A queue without its front, put behind its front, is the queue.          *)
LEMMA FrontAndRest ==
  ASSUME NEW S, NEW s \in Seq(S), s # <<>>
  PROVE  /\ Head(s) \in S
         /\ Tail(s) \in Seq(S)
         /\ Len(Tail(s)) = Len(s) - 1
         /\ <<Head(s)>> \o Tail(s) = s
<1>1. Head(s) \in S /\ Tail(s) \in Seq(S) /\ Len(Tail(s)) = Len(s) - 1
  BY HeadTailProperties
<1>2. <<Head(s)>> \in Seq(S) /\ Len(<<Head(s)>>) = 1
  BY <1>1
<1>3. <<Head(s)>> \o Tail(s) \in Seq(S)
  BY <1>1, <1>2, ConcatProperties
<1>4. Len(<<Head(s)>> \o Tail(s)) = Len(s)
  BY <1>1, <1>2, ConcatProperties, LenProperties
<1>5. ASSUME NEW i \in 1..Len(s)
      PROVE  (<<Head(s)>> \o Tail(s))[i] = s[i]
  <2>1. (<<Head(s)>> \o Tail(s))[i] =
          IF i <= 1 THEN <<Head(s)>>[i] ELSE Tail(s)[i - 1]
    BY <1>1, <1>2, ConcatProperties, LenProperties
  <2>2. CASE i = 1
    BY <2>1, <2>2
  <2>3. CASE i # 1
    <3>1. i - 1 \in 1..Len(Tail(s))
      BY <1>1, <2>3, LenProperties
    <3>2. Tail(s)[i - 1] = s[i - 1 + 1]
      BY <3>1, HeadTailProperties
    <3>3. QED
      BY <2>1, <2>3, <3>2
  <2>4. QED
    BY <2>2, <2>3
<1>6. QED
  BY <1>1, <1>3, <1>4, <1>5, SeqEqual

(* Concatenation under a name of its own: what a step needs to know of it  *)
(* is what the lemmas below say, not its definition.                       *)
Cat(s, t) == s \o t

(* What concatenation returns. *)
LEMMA CatType ==
  ASSUME NEW S, NEW s \in Seq(S), NEW t \in Seq(S)
  PROVE  /\ Cat(s, t) \in Seq(S)
         /\ Len(Cat(s, t)) = Len(s) + Len(t)
         /\ Cat(s, <<>>) = s
  BY ConcatProperties, ConcatEmptySeq DEF Cat

(* Concatenation is associative. *)
LEMMA CatAssociative ==
  ASSUME NEW S, NEW s \in Seq(S), NEW t \in Seq(S), NEW u \in Seq(S)
  PROVE  Cat(Cat(s, t), u) = Cat(s, Cat(t, u))
  BY DEF Cat

(* Appending to the right part appends to the whole.                       *)
LEMMA CatAppend ==
  ASSUME NEW S, NEW s \in Seq(S), NEW t \in Seq(S), NEW e \in S
  PROVE  Append(Cat(s, t), e) = Cat(s, Append(t, e))
  BY DEF Cat

(* Moving the front of the right part to the end of the left one.          *)
LEMMA CatFront ==
  ASSUME NEW S, NEW s \in Seq(S), NEW t \in Seq(S), t # <<>>
  PROVE  Cat(Append(s, Head(t)), Tail(t)) = Cat(s, t)
<1> DEFINE u == <<Head(t)>>
           v == Tail(t)
<1>1. u \in Seq(S) /\ v \in Seq(S) /\ Cat(u, v) = t
  BY FrontAndRest DEF Cat
<1>2. Append(s, Head(t)) = Cat(s, u)
  <2>1. Head(t) \in S
    BY FrontAndRest
  <2>2. QED
    BY <2>1 DEF Cat
<1>3. Cat(Cat(s, u), v) = Cat(s, Cat(u, v))
  <2> HIDE DEF u, v
  <2>1. QED
    BY <1>1, CatAssociative
<1>4. QED
  BY <1>1, <1>2, <1>3

-----------------------------------------------------------------------------
(* Type correctness. *)

(* Every step keeps the type invariant. *)
LEMMA TypeStep == QueueTypeOK /\ [QueueNext]_queueVars => QueueTypeOK'
<1> SUFFICES ASSUME QueueTypeOK, [QueueNext]_queueVars
             PROVE  QueueTypeOK'
  OBVIOUS
<1> USE WatermarkAssumption, ThreadsAssumption DEF QueueTypeOK
<1>1. ASSUME NEW t \in Producers, PushAccepts(t)
      PROVE  QueueTypeOK'
  <2>1. offered' \in Packet /\ offered' \in 0..MaxPackets
    BY <1>1 DEF PushAccepts, Offer
  <2>2. queue' \in Seq(Packet) /\ accepted' \in Seq(Packet)
    BY <1>1, <2>1, AppendProperties DEF PushAccepts
  <2>3. waiting' \in SUBSET {Worker, Main}
    BY <1>1 DEF PushAccepts, NotifyOne
  <2>4. /\ currentState' \in NetworkState
        /\ callback' \in [Clients -> NetworkState \cup {"None"}]
        /\ overlapped' \in BOOLEAN
    BY <1>1 DEF PushAccepts, Signal, NoSignal
  <2>5. QED
    BY <1>1, <2>1, <2>2, <2>3, <2>4 DEF PushAccepts
<1>2. ASSUME NEW t \in Producers, PushRefuses(t)
      PROVE  QueueTypeOK'
  BY <1>2 DEF PushRefuses, Offer
<1>3. ASSUME NEW t \in Clients, RunCallback(t)
      PROVE  QueueTypeOK'
  BY <1>3 DEF RunCallback
<1>4. ASSUME NEW t \in waiting, SpuriousWakeup(t)
      PROVE  QueueTypeOK'
  BY <1>4 DEF SpuriousWakeup
<1>5. CASE Pop
  <2>1. queue' \in Seq(Packet) /\ popped' \in Seq(Packet)
    BY <1>5, FrontAndRest, AppendProperties DEF Pop, TakeFront
  <2>2. /\ currentState' \in NetworkState
        /\ callback' \in [Clients -> NetworkState \cup {"None"}]
        /\ overlapped' \in BOOLEAN
    BY <1>5 DEF Pop, Signal, NoSignal
  <2>3. QED
    BY <1>5, <2>1, <2>2 DEF Pop
<1>6. CASE PopWaits
  BY <1>6 DEF PopWaits
<1>7. CASE Flush
  BY <1>7 DEF Flush, NotifyAll
<1>8. CASE FlushWakes
  BY <1>8 DEF FlushWakes
<1>9. CASE Shutdown
  <2>1. dropped' \in Seq(Packet) /\ queue' \in Seq(Packet)
    BY <1>9, ConcatProperties, EmptySeq DEF Shutdown
  <2>2. QED
    BY <1>9, <2>1 DEF Shutdown, NotifyAll
<1>10. CASE UNCHANGED queueVars
  BY <1>10 DEF queueVars
<1>11. QED
  BY <1>1, <1>2, <1>3, <1>4, <1>5, <1>6, <1>7, <1>8, <1>9, <1>10 DEF QueueNext

(* The variables of the queue keep their types in every behaviour.         *)
THEOREM TypeCorrect == QueueSpec => []QueueTypeOK
<1>1. ASSUME QueueInit PROVE QueueTypeOK
  <2>1. <<>> \in Seq(Packet)
    BY EmptySeq
  <2>2. 0 \in 0..MaxPackets
    BY WatermarkAssumption
  <2>3. [t \in Clients |-> "None"] \in [Clients -> NetworkState \cup {"None"}]
    OBVIOUS
  <2>4. QED
    BY <1>1, <2>1, <2>2, <2>3 DEF QueueInit, QueueTypeOK
<1>2. QED
  BY <1>1, TypeStep, PTL DEF QueueSpec

-----------------------------------------------------------------------------
(* The safety properties.  Each invariant below is inductive together with *)
(* QueueTypeOK.                                                            *)

(* A full queue refuses, whatever the threads do.                          *)
THEOREM CapacityHolds == QueueSpec => []WithinCapacity
<1>1. QueueInit => WithinCapacity
  BY WatermarkAssumption DEF QueueInit, WithinCapacity
<1>2. QueueTypeOK /\ WithinCapacity /\ [QueueNext]_queueVars => WithinCapacity'
  <2> SUFFICES ASSUME QueueTypeOK, WithinCapacity, [QueueNext]_queueVars
               PROVE  WithinCapacity'
    OBVIOUS
  <2> USE WatermarkAssumption DEF QueueTypeOK, WithinCapacity
  <2>1. ASSUME NEW t \in Producers, PushAccepts(t)
        PROVE  WithinCapacity'
    <3>1. offered' \in Packet
      BY <2>1 DEF PushAccepts, Offer
    <3>2. Len(queue') = Len(queue) + 1 /\ Len(queue) < MaxCapacity
      BY <2>1, <3>1, AppendProperties DEF PushAccepts, HasRoom
    <3>3. QED
      BY <3>2, LenProperties
  <2>2. CASE Pop
    <3>1. Len(queue') = Len(queue) - 1
      BY <2>2, FrontAndRest DEF Pop, TakeFront
    <3>2. QED
      BY <3>1, LenProperties
  <2>3. CASE Shutdown
    BY <2>3 DEF Shutdown
  <2>4. CASE UNCHANGED queue
    BY <2>4
  <2>5. QED
    BY <2>1, <2>2, <2>3, <2>4
    DEF QueueNext, queueVars, PushRefuses, RunCallback, SpuriousWakeup,
        PopWaits, Flush, FlushWakes
<1>3. QED
  BY <1>1, <1>2, TypeCorrect, PTL DEF QueueSpec

(* The state and the length of the queue agree up to the hysteresis.       *)
THEOREM HysteresisHolds == QueueSpec => []Hysteresis
<1>1. QueueInit => Hysteresis
  BY WatermarkAssumption DEF QueueInit, Hysteresis
<1>2. QueueTypeOK /\ Hysteresis /\ [QueueNext]_queueVars => Hysteresis'
  <2> SUFFICES ASSUME QueueTypeOK, Hysteresis, [QueueNext]_queueVars
               PROVE  Hysteresis'
    OBVIOUS
  <2> USE WatermarkAssumption DEF QueueTypeOK, Hysteresis
  <2>1. ASSUME NEW t \in Producers, PushAccepts(t)
        PROVE  Hysteresis'
    <3>1. offered' \in Packet
      BY <2>1 DEF PushAccepts, Offer
    <3>2. Len(queue') = Len(queue) + 1 /\ ~shutdown
      BY <2>1, <3>1, AppendProperties DEF PushAccepts, HasRoom
    <3>3. CASE Congested(Len(queue'))
      <4>1. currentState' = "Slow"
        BY <2>1, <3>3 DEF PushAccepts, Signal
      <4>2. Len(queue') > LowWatermark
        BY <3>2, <3>3, LenProperties DEF Congested
      <4>3. QED
        BY <4>1, <4>2
    <3>4. CASE ~Congested(Len(queue'))
      <4>1. currentState' = currentState
        BY <2>1, <3>4 DEF PushAccepts, NoSignal
      <4>2. currentState = "Normal" => Len(queue') < HighWatermark
        BY <3>2, <3>4, LenProperties DEF Congested
      <4>3. currentState = "Slow" => Len(queue') > LowWatermark
        BY <3>2, LenProperties
      <4>4. QED
        BY <4>1, <4>2, <4>3
    <3>5. QED
      BY <3>3, <3>4
  <2>2. CASE Pop
    <3>1. Len(queue') = Len(queue) - 1 /\ Len(queue) \in Nat
      BY <2>2, FrontAndRest, LenProperties DEF Pop, TakeFront
    <3>2. CASE Drained(Len(queue'))
      <4>1. currentState' = "Normal"
        BY <2>2, <3>2 DEF Pop, Signal
      <4>2. Len(queue') < HighWatermark
        BY <3>1, <3>2 DEF Drained
      <4>3. QED
        BY <4>1, <4>2
    <3>3. CASE ~Drained(Len(queue'))
      <4>1. currentState' = currentState
        BY <2>2, <3>3 DEF Pop, NoSignal
      <4>2. currentState = "Slow" => Len(queue') > LowWatermark
        BY <3>1, <3>3 DEF Drained
      <4>3. currentState = "Normal" => Len(queue') < HighWatermark
        BY <3>1
      <4>4. QED
        BY <4>1, <4>2, <4>3
    <3>4. QED
      BY <3>2, <3>3
  <2>3. CASE Shutdown
    BY <2>3, EmptySeq DEF Shutdown
  <2>4. CASE UNCHANGED <<queue, currentState>> /\ (shutdown => shutdown')
    BY <2>4
  <2>5. QED
    BY <2>1, <2>2, <2>3, <2>4
    DEF QueueNext, queueVars, PushRefuses, RunCallback, SpuriousWakeup,
        PopWaits, Flush, FlushWakes
<1>3. QED
  BY <1>1, <1>2, TypeCorrect, PTL DEF QueueSpec

-----------------------------------------------------------------------------
(* NothingLost is inductive once it is known that packets are discarded    *)
(* only by a shutdown, after which the queue stays empty.                  *)

DroppedAtShutdown == dropped # <<>> => shutdown /\ queue = <<>>
Accounting == NothingLost /\ DroppedAtShutdown

(* Every step accounts for every packet. *)
LEMMA AccountingStep ==
  QueueTypeOK /\ Accounting /\ [QueueNext]_queueVars => Accounting'
<1> SUFFICES ASSUME QueueTypeOK, Accounting, [QueueNext]_queueVars
             PROVE  Accounting'
  OBVIOUS
<1> DEFINE gone == Cat(popped, dropped)
<1>1. /\ queue \in Seq(Packet)
      /\ popped \in Seq(Packet)
      /\ dropped \in Seq(Packet)
      /\ gone \in Seq(Packet)
  BY CatType DEF QueueTypeOK
<1>2. accepted = Cat(gone, queue)
  BY DEF Accounting, NothingLost, Cat
<1> SUFFICES accepted' = Cat(gone', queue') /\ DroppedAtShutdown'
  BY DEF Accounting, NothingLost, Cat
<1>3. ASSUME NEW t \in Producers, PushAccepts(t)
      PROVE  accepted' = Cat(gone', queue') /\ DroppedAtShutdown'
  <2>1. offered' \in Packet
    BY <1>3, WatermarkAssumption DEF PushAccepts, Offer, QueueTypeOK
  <2>2. /\ queue' = Append(queue, offered')
        /\ accepted' = Append(accepted, offered')
        /\ UNCHANGED <<popped, dropped>>
        /\ ~shutdown
    BY <1>3 DEF PushAccepts, HasRoom
  <2>3. Append(Cat(gone, queue), offered') = Cat(gone, Append(queue, offered'))
    <3> DEFINE pkt == offered'
    <3>1. gone \in Seq(Packet) /\ pkt \in Packet
      BY <1>1, <2>1
    <3> HIDE DEF gone, pkt, Packet
    <3>2. Append(Cat(gone, queue), pkt) = Cat(gone, Append(queue, pkt))
      BY <1>1, <3>1, CatAppend
    <3>3. QED
      BY <3>2 DEF pkt
  <2>4. QED
    BY <1>2, <2>2, <2>3 DEF Accounting, DroppedAtShutdown
<1>4. CASE Pop
  <2>1. dropped = <<>> /\ queue # <<>>
    BY <1>4 DEF Pop, Accounting, DroppedAtShutdown
  <2>2. /\ popped' = Append(popped, Head(queue))
        /\ queue' = Tail(queue)
        /\ UNCHANGED <<accepted, dropped, shutdown>>
    BY <1>4 DEF Pop, TakeFront
  <2>3. gone = popped
    BY <1>1, <2>1, CatType
  <2>4. gone' = popped'
    <3>1. popped' \in Seq(Packet)
      BY <1>1, <2>1, <2>2, FrontAndRest, AppendProperties
    <3>2. QED
      BY <1>1, <2>1, <2>2, <3>1, CatType
  <2>5. Cat(Append(popped, Head(queue)), Tail(queue)) = Cat(popped, queue)
    BY <1>1, <2>1, CatFront
  <2>6. QED
    BY <1>2, <2>1, <2>2, <2>3, <2>4, <2>5 DEF DroppedAtShutdown
<1>5. CASE Shutdown
  <2>1. /\ queue' = <<>>
        /\ dropped' = Cat(dropped, queue)
        /\ shutdown'
        /\ UNCHANGED <<accepted, popped>>
    BY <1>5 DEF Shutdown, Cat
  <2>2. gone' = Cat(gone, queue)
    BY <1>1, <2>1, CatAssociative
  <2>3. Cat(gone', queue') = gone'
    <3>1. Cat(gone, queue) \in Seq(Packet)
      BY <1>1, CatType
    <3>2. QED
      BY <1>1, <2>1, <2>2, <3>1, CatType
  <2>4. QED
    BY <1>2, <2>1, <2>2, <2>3 DEF DroppedAtShutdown
<1>6. CASE UNCHANGED <<queue, accepted, popped, dropped>> /\ (shutdown => shutdown')
  BY <1>2, <1>6 DEF Accounting, DroppedAtShutdown
<1>7. QED
  BY <1>3, <1>4, <1>5, <1>6
  DEF QueueNext, queueVars, PushRefuses, RunCallback, SpuriousWakeup,
      PopWaits, Flush, FlushWakes

(* Every packet is accounted for in every reachable state. *)
LEMMA AccountingHolds == QueueSpec => []Accounting
<1>1. QueueInit => Accounting
  BY ConcatEmptySeq, EmptySeq
  DEF QueueInit, Accounting, NothingLost, DroppedAtShutdown
<1>2. QED
  BY <1>1, AccountingStep, TypeCorrect, PTL DEF QueueSpec

(* Every accepted packet is popped, discarded by shutdown() or waiting, in *)
(* the order of acceptance.                                                *)
THEOREM NothingLostHolds == QueueSpec => []NothingLost
BY AccountingHolds, PTL DEF Accounting

-----------------------------------------------------------------------------
(* push() notifies one waiter of a condition variable that the worker and  *)
(* flush() share.  The worker's wakeup is safe because the main thread     *)
(* waits only once the queue is shut down, when push() accepts no more.    *)

MainWaitsAfterShutdown == (Main \in waiting \/ flushing) => shutdown
Wakeups == WorkerSleepsOnlyWhenIdle /\ MainWaitsAfterShutdown

(* Every step keeps what is known of the sleeping threads. *)
LEMMA WakeupsStep ==
  QueueTypeOK /\ Wakeups /\ [QueueNext]_queueVars => Wakeups'
<1> SUFFICES ASSUME QueueTypeOK, Wakeups, [QueueNext]_queueVars
             PROVE  Wakeups'
  OBVIOUS
<1> USE ThreadsAssumption
    DEF QueueTypeOK, Wakeups, WorkerSleepsOnlyWhenIdle, MainWaitsAfterShutdown
<1>1. ASSUME NEW t \in Producers, PushAccepts(t)
      PROVE  Wakeups'
  <2>1. ~shutdown
    BY <1>1 DEF PushAccepts, HasRoom
  <2>2. waiting \subseteq {Worker}
    BY <2>1
  <2>3. waiting' = {}
    BY <1>1, <2>2 DEF PushAccepts, NotifyOne
  <2>4. QED
    BY <1>1, <2>1, <2>3 DEF PushAccepts
<1>2. ASSUME NEW t \in waiting, SpuriousWakeup(t)
      PROVE  Wakeups'
  BY <1>2 DEF SpuriousWakeup
<1>3. CASE Pop
  BY <1>3 DEF Pop, CanPop
<1>4. CASE PopWaits
  BY <1>4 DEF PopWaits
<1>5. CASE Flush
  BY <1>5 DEF Flush, NotifyAll
<1>6. CASE FlushWakes
  BY <1>6 DEF FlushWakes
<1>7. CASE Shutdown
  BY <1>7 DEF Shutdown, NotifyAll
<1>8. CASE UNCHANGED <<queue, shutdown, waiting, flushing>>
  BY <1>8
<1>9. QED
  BY <1>1, <1>2, <1>3, <1>4, <1>5, <1>6, <1>7, <1>8
  DEF QueueNext, queueVars, PushRefuses, RunCallback

(* The worker never sleeps through a packet or through the closing.        *)
THEOREM NoLostWakeup == QueueSpec => []WorkerSleepsOnlyWhenIdle
<1>1. QueueInit => Wakeups
  BY DEF QueueInit, Wakeups, WorkerSleepsOnlyWhenIdle, MainWaitsAfterShutdown
<1>2. QueueSpec => []Wakeups
  BY <1>1, WakeupsStep, TypeCorrect, PTL DEF QueueSpec
<1>3. QED
  BY <1>2, PTL DEF Wakeups

-----------------------------------------------------------------------------
(* Refinement: the queue is a bounded first-in first-out channel.          *)

(* Every step of the queue is a step of the channel, or stutters. *)
LEMMA ChannelStep ==
  QueueTypeOK /\ Accounting /\ [QueueNext]_queueVars
    => [Channel!ChannelNext]_(Channel!channelVars)
<1> SUFFICES ASSUME QueueTypeOK, Accounting, [QueueNext]_queueVars
             PROVE  Channel!ChannelNext \/ UNCHANGED Channel!channelVars
  OBVIOUS
<1>1. /\ queue \in Seq(Packet)
      /\ popped \in Seq(Packet)
      /\ dropped \in Seq(Packet)
      /\ Cat(popped, dropped) \in Seq(Packet)
      /\ accepted = Cat(Cat(popped, dropped), queue)
  BY CatType DEF QueueTypeOK, Accounting, NothingLost, Cat
<1>2. ASSUME dropped = <<>>
      PROVE  accepted = Cat(popped, queue)
  BY <1>1, <1>2, CatType
<1>3. ASSUME NEW t \in Producers, PushAccepts(t)
      PROVE  Channel!Accept
  <2>1. offered' \in Packet
    BY <1>3, WatermarkAssumption DEF PushAccepts, Offer, QueueTypeOK
  <2>2. /\ accepted' = Append(accepted, offered')
        /\ UNCHANGED <<popped, shutdown>>
        /\ ~shutdown
        /\ Len(queue) < MaxCapacity
    BY <1>3 DEF PushAccepts, HasRoom
  <2>3. dropped = <<>>
    BY <2>2 DEF Accounting, DroppedAtShutdown
  <2>4. Len(accepted) = Len(popped) + Len(queue)
    BY <1>1, <1>2, <2>3, CatType
  <2>5. Len(accepted) - Len(popped) < MaxCapacity
    BY <1>1, <2>2, <2>4, LenProperties, WatermarkAssumption
  <2>6. QED
    BY <2>1, <2>2, <2>5 DEF Channel!Accept
<1>4. CASE Pop
  <2>1. dropped = <<>> /\ queue # <<>>
    BY <1>4 DEF Pop, Accounting, DroppedAtShutdown
  <2>2. popped' = Append(popped, Head(queue)) /\ UNCHANGED <<accepted, shutdown>>
    BY <1>4 DEF Pop, TakeFront
  <2>3. accepted = popped \o queue /\ Len(queue) \in Nat \ {0}
    BY <1>1, <1>2, <2>1, EmptySeq DEF Cat
  <2>4. Len(popped) < Len(accepted) /\ accepted[Len(popped) + 1] = queue[1]
    BY <1>1, <2>3, ConcatProperties, LenProperties
  <2>5. queue[1] = Head(queue)
    BY <1>1, <2>1
  <2>6. Channel!Deliver
    BY <2>2, <2>4, <2>5 DEF Channel!Deliver
  <2>7. QED
    BY <2>6 DEF Channel!ChannelNext
<1>5. CASE Flush \/ Shutdown
  BY <1>5 DEF Flush, Shutdown, Channel!ChannelNext, Channel!Close
<1>6. CASE UNCHANGED <<accepted, popped, shutdown>>
  BY <1>6 DEF Channel!channelVars
<1>7. QED
  BY <1>3, <1>4, <1>5, <1>6
  DEF QueueNext, queueVars, PushRefuses, RunCallback, SpuriousWakeup,
      PopWaits, FlushWakes, Channel!ChannelNext

(* Every behaviour of the queue is a behaviour of the channel: packets     *)
(* leave in the order of acceptance, at most Capacity of them wait, none   *)
(* is accepted after the closing.                                          *)
THEOREM QueueImplementsChannel == QueueSpec => ImplementsChannel
<1>1. QueueInit => Channel!ChannelInit
  BY DEF QueueInit, Channel!ChannelInit
<1>2. QED
  BY <1>1, ChannelStep, TypeCorrect, AccountingHolds, PTL
  DEF QueueSpec, ImplementsChannel, Channel!ChannelSpec
=============================================================================
