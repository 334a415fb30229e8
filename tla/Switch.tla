------------------------------- MODULE Switch ------------------------------
(***************************************************************************)
(* What the daemon promises who uses the button (abstract specification):  *)
(* the button's events are taken in their order, each once; a release      *)
(* asks for a capture if none runs, and ends the one that runs; a press    *)
(* does nothing; a capture that cannot start, or has ended, is not begun   *)
(* again without a release; and the daemon ends in no capture.  Until it   *)
(* is told to end, what was asked for happens or fails, and what is being  *)
(* stopped stops.                                                          *)
(***************************************************************************)
EXTENDS Sequences

VARIABLES mode,    \* "idle", "asked", "capturing", "stopping" or "ended"
          told,    \* the daemon was told to end
          pending  \* the button's events it has not taken

switchVars == <<mode, told, pending>>

SwitchInit ==
  /\ mode = "idle"
  /\ told = FALSE
  /\ pending = <<>>

Happens ==
  /\ \E e \in {"press", "release"} : pending' = Append(pending, e)
  /\ UNCHANGED <<mode, told>>

(* What is to become of a mode once the daemon knows that it is to end.    *)
GivenUp == CASE mode = "asked" -> "idle"
             [] mode = "capturing" -> "stopping"
             [] OTHER -> mode

(* It may learn of it late. *)
Told ==
  /\ told' = TRUE
  /\ mode' \in {mode, GivenUp}
  /\ UNCHANGED pending

(* It listens only while it is idle or captures. *)
Takes ==
  /\ mode \in {"idle", "capturing"}
  /\ pending # <<>>
  /\ pending' = Tail(pending)
  /\ mode' = CASE told -> GivenUp
               [] ~told /\ Head(pending) = "press" -> mode
               [] ~told /\ Head(pending) = "release" /\ mode = "idle" -> "asked"
               [] OTHER -> "stopping"
  /\ UNCHANGED told

Moves(from, to) ==
  /\ mode = from
  /\ mode' = to
  /\ UNCHANGED <<told, pending>>

Begins == Moves("asked", "capturing")
Fails == Moves("asked", "idle")
Stops == Moves("stopping", "idle")
Ends == told /\ Moves("idle", "ended")

SwitchNext == Happens \/ Told \/ Takes \/ Begins \/ Fails \/ Stops \/ Ends

SwitchSafety == SwitchInit /\ [][SwitchNext]_switchVars

Answered ==
  \A m \in {"asked", "stopping"} : mode = m ~> (mode # m \/ told)

SwitchSpec == SwitchSafety /\ Answered
=============================================================================
