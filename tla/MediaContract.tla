--------------------------- MODULE MediaContract ---------------------------
(***************************************************************************)
(* What FFmpeg asks of a program with encoders and muxers (abstract        *)
(* specification).  An encoder keeps up to Delay frames; what it has beyond*)
(* them must be received before it takes another; the null frame is sent   *)
(* once, after all frames, and then everything is to be received.  A muxer *)
(* takes a header, packets, a trailer, in this order, and holds one thread *)
(* at a time; a trailer comes when all encoders are empty and nobody is    *)
(* inside.  The one licence is for a streamed output, to which a thread of *)
(* its own writes: nothing is asked of that thread once the trailer comes. *)
(***************************************************************************)
EXTENDS Naturals, Sequences

CONSTANTS Threads, \* the threads of the program
          Delay    \* how many frames an encoder keeps

VARIABLES muxer,    \* per output, "new", "open", "closing" or "ended"
          inside,   \* the pairs of a thread and the output it is inside of
          frames,   \* per encoder, the frames it holds
          flushed,  \* the encoders that were sent the null frame
          streamed  \* the streamed outputs

mediaVars == <<muxer, inside, frames, flushed, streamed>>

MediaInit ==
  /\ muxer = <<>>
  /\ inside = {}
  /\ frames = <<>>
  /\ flushed = {}
  /\ streamed = {}

(* An output is made, with its encoders. *)
Make ==
  /\ muxer' = Append(muxer, "new")
  /\ DOMAIN frames \subseteq DOMAIN frames'
  /\ frames' = [e \in DOMAIN frames' |-> IF e \in DOMAIN frames THEN frames[e] ELSE 0]
  /\ streamed' \in {streamed, streamed \cup {Len(muxer) + 1}}
  /\ UNCHANGED <<inside, flushed>>

Send(e) ==
  /\ e \notin flushed
  /\ frames[e] <= Delay
  /\ \/ frames' = [frames EXCEPT ![e] = @ + 1] /\ UNCHANGED flushed
     \/ flushed' = flushed \cup {e} /\ UNCHANGED frames
  /\ UNCHANGED <<muxer, inside, streamed>>

Nobody(o) == \A t \in Threads : <<t, o>> \notin inside
Enter(t, o) == Nobody(o) /\ inside' = inside \cup {<<t, o>>}

(* A packet; the first of an output makes the program write the header.    *)
Receive(e) ==
  /\ frames[e] > (IF e \in flushed THEN 0 ELSE Delay)
  /\ frames' = [frames EXCEPT ![e] = @ - 1]
  /\ \/ UNCHANGED inside
     \/ muxer[e[1]] = "new" /\ \E t \in Threads : Enter(t, e[1])
  /\ UNCHANGED <<muxer, flushed, streamed>>

HeaderEnds(t, o) ==
  /\ <<t, o>> \in inside
  /\ muxer[o] = "new"
  /\ muxer' = [muxer EXCEPT ![o] = "open"]
  /\ inside' = inside \ {<<t, o>>}
  /\ UNCHANGED <<frames, flushed, streamed>>

Late(o) == o \in streamed /\ muxer[o] \in {"closing", "ended"}

PacketBegins(t, o) ==
  /\ muxer[o] = "open" \/ Late(o)
  /\ Enter(t, o)
  /\ UNCHANGED <<muxer, frames, flushed, streamed>>

PacketEnds(t, o) ==
  /\ <<t, o>> \in inside
  /\ muxer[o] = "open" \/ Late(o)
  /\ inside' = inside \ {<<t, o>>}
  /\ UNCHANGED <<muxer, frames, flushed, streamed>>

(* The trailer is written, where there is a header; then all is freed.     *)
Closes(o, from, to) ==
  /\ muxer[o] \in from
  /\ muxer' = [muxer EXCEPT ![o] = to]
  /\ flushed = DOMAIN frames
  /\ \A e \in DOMAIN frames : frames[e] = 0
  /\ Nobody(o) \/ o \in streamed
  /\ UNCHANGED <<inside, frames, flushed, streamed>>

TrailerBegins(o) == Closes(o, {"open"}, "closing")
Freed(o) == Closes(o, {"new", "closing"}, "ended")

MediaNext ==
  \/ Make
  \/ \E e \in DOMAIN frames : Send(e) \/ Receive(e)
  \/ \E t \in Threads, o \in DOMAIN muxer :
       HeaderEnds(t, o) \/ PacketBegins(t, o) \/ PacketEnds(t, o)
  \/ \E o \in DOMAIN muxer : TrailerBegins(o) \/ Freed(o)

MediaSpec == MediaInit /\ [][MediaNext]_mediaVars
=============================================================================
