------------------------------- MODULE Daemon -------------------------------
(***************************************************************************)
(* apps/racecamd.cpp: the daemon's main loop, wait_read, the blink thread  *)
(* and the signal handler, over the atomics RunProgram and Capture.        *)
(*                                                                         *)
(* The handler runs between any two steps of the main thread; it makes     *)
(* read() fail only if the thread is blocked in it at that moment.  The    *)
(* button's events wait in the input device until they are read.  "press"  *)
(* stands for every event wait_read skips.                                 *)
(***************************************************************************)
EXTENDS Naturals, Sequences

CONSTANT MaxEvents  \* bound: how many button events occur in a behaviour

ASSUME BoundAssumption == MaxEvents \in Nat

VARIABLES RunProgram,  \* RunProgram
          Capture,     \* Capture
          main,        \* where the main thread is
          site,        \* its wait_read: "capture" inside the if, "idle" after it
          event,       \* the result of the last read()
          loaded,      \* the value of Capture that the toggle has loaded
          blink,       \* the blink thread
          capturing,   \* InitCapture has succeeded and FreeCapture has not run
          events,      \* the input device
          occurred     \* how many button events there were

vars == <<RunProgram, Capture, main, site, event, loaded, blink, capturing,
          events, occurred>>

Event == {"press", "release"}

(* Nothing throws between the start of the blink thread and its join, so   *)
(* std::terminate, which a joinable thread's destructor calls, is no stage.*)
Stage == {"loop", "init", "spawn", "read", "woken", "load", "store", "join",
          "free", "catch", "while", "exited"}

TypeOK ==
  /\ RunProgram \in BOOLEAN
  /\ Capture \in BOOLEAN
  /\ main \in Stage
  /\ site \in {"capture", "idle"}
  /\ event \in Event \cup {"interrupted"}
  /\ loaded \in BOOLEAN
  /\ blink \in {"none", "running", "ended"}
  /\ capturing \in BOOLEAN
  /\ events \in Seq(Event)
  /\ occurred \in 0..MaxEvents

Init ==
  /\ RunProgram = TRUE
  /\ Capture = FALSE
  /\ main = "loop"
  /\ site = "idle"
  /\ event = "press"
  /\ loaded = FALSE
  /\ blink = "none"
  /\ capturing = FALSE
  /\ events = <<>>
  /\ occurred = 0

-----------------------------------------------------------------------------
(* The environment: the button, and SIGTERM or SIGINT. *)

Button(e) ==
  /\ occurred < MaxEvents
  /\ occurred' = occurred + 1
  /\ events' = Append(events, e)
  /\ UNCHANGED <<RunProgram, Capture, main, site, event, loaded, blink,
                 capturing>>

sig_handler ==
  /\ main # "exited"
  /\ RunProgram' = FALSE
  /\ Capture' = FALSE
  /\ IF main = "read" THEN main' = "woken" /\ event' = "interrupted"
                      ELSE UNCHANGED <<main, event>>
  /\ UNCHANGED <<site, loaded, blink, capturing, events, occurred>>

-----------------------------------------------------------------------------
(* The blink thread: the LED is toggled every half second while Capture.   *)

BlinkEnds ==
  /\ blink = "running"
  /\ ~Capture
  /\ blink' = "ended"
  /\ UNCHANGED <<RunProgram, Capture, main, site, event, loaded, capturing,
                 events, occurred>>

-----------------------------------------------------------------------------
(* main: one pass of the loop. *)

TestCapture ==
  /\ main = "loop"
  /\ main' = IF Capture THEN "init" ELSE "read"
  /\ site' = IF Capture THEN "capture" ELSE "idle"
  /\ UNCHANGED <<RunProgram, Capture, event, loaded, blink, capturing, events,
                 occurred>>

InitCapture_ErrorIgnored ==
  /\ main = "init"
  /\ main' = "spawn"
  /\ capturing' \in BOOLEAN
  /\ UNCHANGED <<RunProgram, Capture, site, event, loaded, blink, events,
                 occurred>>

(* The blink thread starts only if InitCapture does not throw.  The throw  *)
(* that ends the process is not here but in Outputs (Throws).              *)
InitCapture ==
  /\ main = "init"
  /\ \/ main' = "spawn" /\ capturing' = TRUE
     \/ main' = "catch" /\ UNCHANGED capturing
  /\ UNCHANGED <<RunProgram, Capture, site, event, loaded, blink, events,
                 occurred>>

Spawn ==
  /\ main = "spawn"
  /\ blink' = "running"
  /\ main' = "read"
  /\ UNCHANGED <<RunProgram, Capture, site, event, loaded, capturing, events,
                 occurred>>

JoinBlink ==
  /\ main = "join"
  /\ blink = "ended"
  /\ blink' = "none"
  /\ main' = "free"
  /\ UNCHANGED <<RunProgram, Capture, site, event, loaded, capturing, events,
                 occurred>>

(* On an exception too, the RCam object is gone afterwards. *)
FreeCapture ==
  /\ main = "free"
  /\ capturing' = FALSE
  /\ \/ main' = "read" /\ site' = "idle"
     \/ main' = "catch" /\ UNCHANGED site
  /\ UNCHANGED <<RunProgram, Capture, event, loaded, blink, events, occurred>>

Catch ==
  /\ main = "catch"
  /\ Capture' = FALSE
  /\ main' = "while"
  /\ UNCHANGED <<RunProgram, site, event, loaded, blink, capturing, events,
                 occurred>>

TestRunProgram ==
  /\ main = "while"
  /\ main' = IF RunProgram THEN "loop" ELSE "exited"
  /\ UNCHANGED <<RunProgram, Capture, site, event, loaded, blink, capturing,
                 events, occurred>>

-----------------------------------------------------------------------------
(* wait_read *)

Read ==
  /\ main = "read"
  /\ events # <<>>
  /\ event' = Head(events)
  /\ events' = Tail(events)
  /\ main' = "woken"
  /\ UNCHANGED <<RunProgram, Capture, site, loaded, blink, capturing,
                 occurred>>

Return == IF site = "capture" THEN "join" ELSE "while"

(* A wait_read that takes a short read for an error, and throws before it  *)
(* tests RunProgram.                                                       *)
Woken_ThrowsIfShort ==
  /\ main = "woken"
  /\ main' = CASE event = "interrupted" /\ site = "capture" -> "terminated"
               [] event = "interrupted" /\ site = "idle" -> "catch"
               [] event # "interrupted" /\ ~RunProgram -> Return
               [] event = "press" /\ RunProgram -> "read"
               [] event = "release" /\ RunProgram -> "load"
  /\ UNCHANGED <<RunProgram, Capture, site, event, loaded, blink, capturing,
                 events, occurred>>

Woken_OnPress ==
  /\ main = "woken"
  /\ \/ ~RunProgram /\ main' = Return
     \/ RunProgram /\ event # "press" /\ main' = "read"
     \/ RunProgram /\ event = "press" /\ main' = "load"
  /\ UNCHANGED <<RunProgram, Capture, site, event, loaded, blink, capturing,
                 events, occurred>>

Woken_IgnoresSignal ==
  /\ main = "woken"
  /\ \/ event # "release" /\ main' = "read"
     \/ event = "release" /\ main' = "load"
  /\ UNCHANGED <<RunProgram, Capture, site, event, loaded, blink, capturing,
                 events, occurred>>

(* After read(): return if the program is to end, else skip the event or   *)
(* go on to invert Capture.                                                *)
Woken ==
  /\ main = "woken"
  /\ \/ ~RunProgram /\ main' = Return
     \/ RunProgram /\ event # "release" /\ main' = "read"
     \/ RunProgram /\ event = "release" /\ main' = "load"
  /\ UNCHANGED <<RunProgram, Capture, site, event, loaded, blink, capturing,
                 events, occurred>>

(* Capture = !Capture.load() is a load and a store, and neither is one     *)
(* step with the test of RunProgram before them.                           *)
Load ==
  /\ main = "load"
  /\ loaded' = Capture
  /\ main' = "store"
  /\ UNCHANGED <<RunProgram, Capture, site, event, blink, capturing, events,
                 occurred>>

Toggle ==
  /\ main = "store"
  /\ Capture' = ~loaded
  /\ main' = Return
  /\ UNCHANGED <<RunProgram, site, event, loaded, blink, capturing, events,
                 occurred>>

-----------------------------------------------------------------------------

MainStep == \/ TestCapture \/ InitCapture \/ Spawn \/ JoinBlink \/ FreeCapture
            \/ Catch \/ TestRunProgram \/ Read \/ Woken \/ Load
            \/ Toggle

Next ==
  \/ \E e \in Event : Button(e)
  \/ sig_handler
  \/ BlinkEnds
  \/ MainStep

(* The two threads are scheduled; neither the button nor a signal is due.  *)
Fairness == WF_vars(MainStep) /\ WF_vars(BlinkEnds)

Spec == Init /\ [][Next]_vars
FairSpec == Spec /\ Fairness

-----------------------------------------------------------------------------
(* Properties that hold. *)

(* While the daemon waits for the switch, and is not told to end, Capture  *)
(* says whether a capture runs, also after captures that failed: the next  *)
(* release does the opposite of what is going on.                          *)
SwitchAgrees ==
  main = "read" /\ RunProgram =>
    (Capture <=> capturing) /\ (capturing <=> site = "capture")

(* Wherever a signal comes, between the test of RunProgram, the load and   *)
(* the store of Capture too, the daemon does not exit in mid capture or    *)
(* with the blink thread running.  It may not exit at all: TurnedOnAgain.  *)
ExitsIdle == main = "exited" => ~capturing /\ blink # "running"

(* The switch works, wait_read and sig_handler: a release that is waiting  *)
(* during a capture ends it, also when the daemon is told to end at any    *)
(* point of the way, with one exception: a signal between the test of      *)
(* RunProgram and the load of Capture makes the toggle turn Capture on     *)
(* again, and main waits for the blink thread until another signal comes.  *)
Released == \E i \in 1..Len(events) : events[i] = "release"
TurnedOnAgain == main = "join" /\ Capture /\ ~RunProgram
ReleaseStopsCapture ==
  (main = "read" /\ capturing /\ Released) ~> (~capturing \/ TurnedOnAgain)

(* A signal that finds the daemon waiting outside a capture ends it.       *)
SignalEndsIdle ==
  (main = "woken" /\ event = "interrupted" /\ site = "idle")
    ~> (main = "exited")

(* main, wait_read, sig_handler: the daemon as a whole is a switch.  Each  *)
(* release it reads, and nothing else, begins or ends a capture, in their  *)
(* order and one at a time, whatever fails and whenever a signal comes     *)
(* between the test of RunProgram and the load and store of Capture; and   *)
(* until it is told to end, what a release asked for comes about.  Nothing *)
(* is promised of the progress of a daemon told to end (TurnedOnAgain).    *)
ReadRelease == main = "woken" /\ event = "release"
Stopping ==
  capturing /\ \/ main \in {"load", "store", "join", "free"}
               \/ ReadRelease
               \/ main = "woken" /\ ~RunProgram
Asked ==
  ~capturing /\ \/ main = "init"
                \/ /\ RunProgram /\ site = "idle"
                   /\ main \in {"load", "store"} \/ ReadRelease
                \/ RunProgram /\ Capture /\ main \in {"while", "loop"}

Mode == CASE main = "exited" -> "ended"
          [] Stopping -> "stopping"
          [] capturing /\ ~Stopping -> "capturing"
          [] Asked -> "asked"
          [] OTHER -> "idle"

Promise == INSTANCE Switch WITH
  mode <- Mode,
  told <- ~RunProgram,
  pending <- events

IsSwitch == Promise!SwitchSpec

-----------------------------------------------------------------------------
(* Properties the documentation states and the code does not have. *)

(* apps/racecamd.cpp:86, "SIGINT and SIGTERM stops read() wait so return": *)
(* a signal ends the daemon.                                               *)
SignalEnds == ~RunProgram ~> (main = "exited")
=============================================================================
