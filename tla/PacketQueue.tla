---------------------------- MODULE PacketQueue ----------------------------
(***************************************************************************)
(* class PacketQueue of core/rcam.hpp: a bounded queue of encoded packets  *)
(* with a high and a low watermark, protected by mutex_, with one          *)
(* condition variable cv_ for both the consumer (pop) and the closer       *)
(* (flush).                                                                *)
(*                                                                         *)
(* Every critical section of mutex_ is one action.  A thread blocked in    *)
(* cv_.wait is a member of waiting: notify_one removes one member,         *)
(* notify_all empties the set, and a thread outside it evaluates its       *)
(* predicate again.  The congestion callback runs after mutex_ is          *)
(* released, so it is a step of its own: callback[t] is the local          *)
(* callbackToExecute of the call thread t is in.                           *)
(***************************************************************************)
EXTENDS Naturals, Sequences

CONSTANTS Producers,      \* the threads that call push
          Worker,         \* the thread that calls pop
          Main,           \* the thread that calls flush and shutdown
          MaxCapacity,    \* maxCapacity_
          HighWatermark,  \* highWatermark_
          LowWatermark,   \* lowWatermark_
          MaxPackets      \* bound: how many packets are offered in a behaviour

(* The constructor's defaults give 60, 42 and 12 (70% and 20% of 60).      *)
ASSUME ThreadsAssumption ==
  /\ Worker \notin Producers
  /\ Main \notin Producers
  /\ Worker # Main

ASSUME WatermarkAssumption ==
  /\ MaxCapacity \in Nat
  /\ HighWatermark \in Nat
  /\ LowWatermark \in Nat
  /\ MaxPackets \in Nat
  /\ LowWatermark < HighWatermark
  /\ HighWatermark <= MaxCapacity

NetworkState == {"Normal", "Slow"}
Clients == Producers \cup {Worker}
Packet == 1..MaxPackets

VARIABLES queue,         \* queue_
          currentState,  \* currentState_
          shutdown,      \* shutdown_
          waiting,       \* the threads blocked in cv_.wait
          flushing,      \* Main is inside flush()
          callback,      \* per client, the callback it still has to run, or "None"
          offered,       \* how many packets push() was called with
          accepted,      \* history: the packets push() queued, in order
          popped,        \* history: the packets pop() returned, in order
          dropped,       \* history: the packets shutdown() discarded, in order
          overlapped     \* history: a callback became due while another was pending

queueVars == <<queue, currentState, shutdown, waiting, flushing, callback,
               offered, accepted, popped, dropped, overlapped>>

QueueTypeOK ==
  /\ queue \in Seq(Packet)
  /\ currentState \in NetworkState
  /\ shutdown \in BOOLEAN
  /\ waiting \in SUBSET {Worker, Main}
  /\ flushing \in BOOLEAN
  /\ callback \in [Clients -> NetworkState \cup {"None"}]
  /\ offered \in 0..MaxPackets
  /\ accepted \in Seq(Packet)
  /\ popped \in Seq(Packet)
  /\ dropped \in Seq(Packet)
  /\ overlapped \in BOOLEAN

QueueInit ==
  /\ queue = <<>>
  /\ currentState = "Normal"
  /\ shutdown = FALSE
  /\ waiting = {}
  /\ flushing = FALSE
  /\ callback = [t \in Clients |-> "None"]
  /\ offered = 0
  /\ accepted = <<>>
  /\ popped = <<>>
  /\ dropped = <<>>
  /\ overlapped = FALSE

-----------------------------------------------------------------------------
(* The condition variable. *)

NotifyOne_Forgotten == UNCHANGED waiting

NotifyOne ==
  \/ waiting = {} /\ UNCHANGED waiting
  \/ \E t \in waiting : waiting' = waiting \ {t}

NotifyAll_Forgotten == UNCHANGED waiting
NotifyAll == waiting' = {}

(* C++ lets cv_.wait return without a notification. *)
SpuriousWakeup(t) ==
  /\ t \in waiting
  /\ waiting' = waiting \ {t}
  /\ UNCHANGED <<queue, currentState, shutdown, flushing, callback, offered,
                 accepted, popped, dropped, overlapped>>

-----------------------------------------------------------------------------
(* The watermarks. *)

Congested(n) == n >= HighWatermark /\ currentState = "Normal"

Drained_TooLate(n) == n < LowWatermark /\ currentState = "Slow"
Drained(n) == n <= LowWatermark /\ currentState = "Slow"

(* The state changes under mutex_; the callback is only due. *)
Signal(t, ns) ==
  /\ currentState' = ns
  /\ callback' = [callback EXCEPT ![t] = ns]
  /\ overlapped' = (overlapped \/ \E u \in Clients : callback[u] # "None")

NoSignal == UNCHANGED <<currentState, callback, overlapped>>

(* callbackToExecute(...) has returned: push or pop returns. *)
RunCallback(t) ==
  /\ callback[t] # "None"
  /\ callback' = [callback EXCEPT ![t] = "None"]
  /\ UNCHANGED <<queue, currentState, shutdown, waiting, flushing, offered,
                 accepted, popped, dropped, overlapped>>

-----------------------------------------------------------------------------
(* push *)

HasRoom_OffByOne == Len(queue) <= MaxCapacity /\ ~shutdown
HasRoom == Len(queue) < MaxCapacity /\ ~shutdown

Offer(t) ==
  /\ callback[t] = "None"
  /\ offered < MaxPackets
  /\ offered' = offered + 1

PushAccepts(t) ==
  /\ Offer(t)
  /\ HasRoom
  /\ queue' = Append(queue, offered')
  /\ accepted' = Append(accepted, offered')
  /\ IF Congested(Len(queue')) THEN Signal(t, "Slow") ELSE NoSignal
  /\ NotifyOne
  /\ UNCHANGED <<shutdown, flushing, popped, dropped>>

(* The queue is full or shut down, or av_packet_ref fails: push is false.  *)
PushRefuses(t) ==
  /\ Offer(t)
  /\ UNCHANGED <<queue, currentState, shutdown, waiting, flushing, callback,
                 accepted, popped, dropped, overlapped>>

-----------------------------------------------------------------------------
(* pop, called by the worker only. *)

CanPop == Worker \notin waiting /\ callback[Worker] = "None"

TakeFront_NotErased ==
  /\ popped' = Append(popped, Head(queue))
  /\ UNCHANGED queue

TakeFront ==
  /\ popped' = Append(popped, Head(queue))
  /\ queue' = Tail(queue)

Pop ==
  /\ CanPop
  /\ queue # <<>>
  /\ TakeFront
  /\ IF Drained(Len(queue')) THEN Signal(Worker, "Normal") ELSE NoSignal
  /\ UNCHANGED <<shutdown, waiting, flushing, offered, accepted, dropped>>

PopWaits ==
  /\ CanPop
  /\ queue = <<>>
  /\ ~shutdown
  /\ waiting' = waiting \cup {Worker}
  /\ UNCHANGED <<queue, currentState, shutdown, flushing, callback, offered,
                 accepted, popped, dropped, overlapped>>

PopReturnsNull ==
  /\ CanPop
  /\ queue = <<>>
  /\ shutdown
  /\ UNCHANGED queueVars

-----------------------------------------------------------------------------
(* flush and shutdown, called by the main thread only. *)

FlushDone_NoWait == TRUE
FlushDone == queue = <<>>

(* The lock is held from shutdown_ = true to the first test of the         *)
(* predicate: flush returns at once or blocks.                             *)
Flush ==
  /\ ~flushing
  /\ shutdown' = TRUE
  /\ IF FlushDone
       THEN NotifyAll /\ UNCHANGED flushing
       ELSE waiting' = {Main} /\ flushing' = TRUE
  /\ UNCHANGED <<queue, currentState, callback, offered, accepted, popped,
                 dropped, overlapped>>

FlushWakes ==
  /\ flushing
  /\ Main \notin waiting
  /\ IF FlushDone
       THEN flushing' = FALSE /\ UNCHANGED waiting
       ELSE waiting' = waiting \cup {Main} /\ UNCHANGED flushing
  /\ UNCHANGED <<queue, currentState, shutdown, callback, offered, accepted,
                 popped, dropped, overlapped>>

(* Called by ~PacketQueue. *)
Shutdown ==
  /\ ~flushing
  /\ shutdown' = TRUE
  /\ queue' = <<>>
  /\ dropped' = dropped \o queue
  /\ NotifyAll
  /\ UNCHANGED <<currentState, flushing, callback, offered, accepted, popped,
                 overlapped>>

-----------------------------------------------------------------------------

QueueNext ==
  \/ \E t \in Producers : PushAccepts(t) \/ PushRefuses(t)
  \/ \E t \in Clients : RunCallback(t)
  \/ \E t \in waiting : SpuriousWakeup(t)
  \/ Pop
  \/ PopWaits
  \/ Flush
  \/ FlushWakes
  \/ Shutdown

QueueSpec == QueueInit /\ [][QueueNext]_queueVars

-----------------------------------------------------------------------------
(* Properties. *)

(* The capacity limit of push() holds whatever the threads interleave: the *)
(* queue never holds more than maxCapacity_ packets.                       *)
WithinCapacity == Len(queue) <= MaxCapacity

(* The hysteresis of push() and pop(): while the state is Normal the queue *)
(* is below the high watermark, while it is Slow the queue is above the    *)
(* low one, unless shutdown() emptied it under the state.                  *)
Hysteresis ==
  /\ currentState = "Normal" => Len(queue) < HighWatermark
  /\ currentState = "Slow" => \/ Len(queue) > LowWatermark
                              \/ shutdown /\ queue = <<>>

(* No packet is lost, duplicated or reordered: what push() accepted is     *)
(* what pop() returned, then what shutdown() discarded, then what waits.   *)
NothingLost == accepted = popped \o dropped \o queue

(* No lost wakeup for the consumer, although cv_ is shared with flush()    *)
(* and push() notifies one waiter only: the worker sleeps only while the   *)
(* queue is empty and open.                                                *)
WorkerSleepsOnlyWhenIdle == Worker \in waiting => queue = <<>> /\ ~shutdown

(* The queue implements the bounded FIFO channel it stands for: push()     *)
(* accepts only below capacity and before shutdown, and pop() hands the    *)
(* packets out in the order of acceptance.                                 *)
Channel == INSTANCE PacketChannel WITH
             Capacity <- MaxCapacity, delivered <- popped, closed <- shutdown

ImplementsChannel == Channel!ChannelSpec
=============================================================================
