--------------------------- MODULE PacketChannel ---------------------------
(***************************************************************************)
(* What the output queue of racecam promises its users (abstract           *)
(* specification): a bounded first-in first-out channel between the        *)
(* encoders and the network writer.  Packets leave in the order in which   *)
(* they were accepted, each at most once; no more than Capacity of them    *)
(* wait; once the channel is closed it accepts nothing more, but what it   *)
(* has accepted may still be delivered.  Refusing a packet, and throwing   *)
(* the undelivered ones away when the channel is destroyed, are stuttering *)
(* steps here: the channel does not promise delivery, only order.          *)
(***************************************************************************)
EXTENDS Naturals, Sequences

CONSTANTS Packet,    \* the packets the encoders may offer
          Capacity   \* how many packets may wait

VARIABLES accepted,  \* every packet accepted so far, in order
          delivered, \* every packet handed to the writer so far, in order
          closed     \* no packet is accepted any more

channelVars == <<accepted, delivered, closed>>

ChannelInit ==
  /\ accepted = <<>>
  /\ delivered = <<>>
  /\ closed = FALSE

Accept ==
  /\ ~closed
  /\ Len(accepted) - Len(delivered) < Capacity
  /\ \E pkt \in Packet : accepted' = Append(accepted, pkt)
  /\ UNCHANGED <<delivered, closed>>

Deliver ==
  /\ Len(delivered) < Len(accepted)
  /\ delivered' = Append(delivered, accepted[Len(delivered) + 1])
  /\ UNCHANGED <<accepted, closed>>

Close ==
  /\ closed' = TRUE
  /\ UNCHANGED <<accepted, delivered>>

ChannelNext == Accept \/ Deliver \/ Close

ChannelSpec == ChannelInit /\ [][ChannelNext]_channelVars
=============================================================================
