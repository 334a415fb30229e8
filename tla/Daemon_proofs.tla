---------------------------- MODULE Daemon_proofs ----------------------------
(***************************************************************************)
(* Proofs about Daemon: its type invariant, its two safety properties, and *)
(* that every behaviour of it is one Switch allows, for any number of      *)
(* button events.  Switch's progress half is checked by TLC only.          *)
(***************************************************************************)
EXTENDS Daemon, SequenceTheorems, TLAPS

-----------------------------------------------------------------------------
(* Type correctness. *)

(* Every step keeps the type invariant. *)
LEMMA DaemonTypeStep == TypeOK /\ [Next]_vars => TypeOK'
<1> SUFFICES ASSUME TypeOK, [Next]_vars
             PROVE  TypeOK'
  OBVIOUS
<1> USE BoundAssumption DEF TypeOK, Event, Stage
<1>1. ASSUME NEW e \in Event, Button(e)
      PROVE  TypeOK'
  <2>1. events' \in Seq(Event)
    BY <1>1, AppendProperties DEF Button
  <2>2. QED
    BY <1>1, <2>1 DEF Button
<1>2. CASE sig_handler
  BY <1>2 DEF sig_handler
<1>3. CASE BlinkEnds
  BY <1>3 DEF BlinkEnds
<1>4. CASE Read
  <2>1. event' \in Event /\ events' \in Seq(Event)
    BY <1>4, HeadTailProperties DEF Read
  <2>2. QED
    BY <1>4, <2>1 DEF Read
<1>5. CASE TestCapture \/ InitCapture \/ Spawn \/ JoinBlink
  BY <1>5 DEF TestCapture, InitCapture, Spawn, JoinBlink
<1>6. CASE FreeCapture \/ Catch \/ TestRunProgram
  BY <1>6 DEF FreeCapture, Catch, TestRunProgram
<1>7. CASE Woken
  BY <1>7 DEF Woken, Return
<1>8. CASE Load \/ Toggle
  BY <1>8 DEF Load, Toggle, Return
<1>9. CASE UNCHANGED vars
  BY <1>9 DEF vars
<1>10. QED
  BY <1>1, <1>2, <1>3, <1>4, <1>5, <1>6, <1>7, <1>8, <1>9 DEF Next, MainStep

(* The variables of the daemon keep their types.                           *)
THEOREM DaemonTypeCorrect == Spec => []TypeOK
<1>1. Init => TypeOK
  <2>1. 0 \in 0..MaxEvents
    BY BoundAssumption
  <2>2. QED
    BY <2>1, EmptySeq DEF Init, TypeOK, Event, Stage
<1>2. QED
  BY <1>1, DaemonTypeStep, PTL DEF Spec

-----------------------------------------------------------------------------
(* Where in its loop the daemon can have a capture and a blink thread.     *)
(* This holds whatever the signals do.                                     *)

(* Outside the captured stretch of the loop there is neither.              *)
NothingOutside ==
  main \in {"loop", "init", "catch", "while", "exited"}
    => ~capturing /\ blink = "none"

(* The stretch has one way in, by InitCapture, and one way out, through    *)
(* the join of the blink thread and FreeCapture.                           *)
StretchOfCapture ==
  /\ main \in {"init", "spawn", "join"} => site = "capture"
  /\ main \in {"spawn", "free"} => blink = "none"
  /\ main \in {"read", "woken", "load", "store"} /\ site = "idle"
       => ~capturing /\ blink = "none"

Located == NothingOutside /\ StretchOfCapture

(* Every step keeps the capture and the blink thread where the stage says. *)
LEMMA LocatedStep == TypeOK /\ Located /\ [Next]_vars => Located'
<1> SUFFICES ASSUME TypeOK, Located, [Next]_vars
             PROVE  Located'
  OBVIOUS
<1> USE DEF TypeOK, Stage, Located, NothingOutside, StretchOfCapture
<1>1. ASSUME NEW e \in Event, Button(e)
      PROVE  Located'
  BY <1>1 DEF Button
<1>2. CASE sig_handler
  BY <1>2 DEF sig_handler
<1>3. CASE BlinkEnds
  BY <1>3 DEF BlinkEnds
<1>4. CASE TestCapture \/ InitCapture \/ Spawn
  BY <1>4 DEF TestCapture, InitCapture, Spawn
<1>5. CASE JoinBlink \/ FreeCapture \/ Catch
  BY <1>5 DEF JoinBlink, FreeCapture, Catch
<1>6. CASE TestRunProgram \/ Read
  BY <1>6 DEF TestRunProgram, Read
<1>7. CASE Woken \/ Load \/ Toggle
  BY <1>7 DEF Woken, Load, Toggle, Return
<1>8. CASE UNCHANGED vars
  BY <1>8 DEF vars
<1>9. QED
  BY <1>1, <1>2, <1>3, <1>4, <1>5, <1>6, <1>7, <1>8 DEF Next, MainStep

(* The stage tells of the capture and the blink thread in every reachable  *)
(* state.                                                                  *)
LEMMA LocatedHolds == Spec => []Located
<1>1. Init => Located
  BY DEF Init, Located, NothingOutside, StretchOfCapture
<1>2. QED
  BY <1>1, LocatedStep, DaemonTypeCorrect, PTL DEF Spec

(* Wherever a signal comes, between the test of RunProgram and the load    *)
(* and store of Capture too, the daemon exits only with its capture freed  *)
(* and its blink thread joined, if it exits.                               *)
THEOREM ExitsIdleHolds == Spec => []ExitsIdle
<1>1. Located => ExitsIdle
  BY DEF Located, NothingOutside, ExitsIdle
<1>2. QED
  BY <1>1, LocatedHolds, PTL

-----------------------------------------------------------------------------
(* What Capture says at each point of the loop, as long as no signal has   *)
(* come; after one, Capture and the loop may disagree.                     *)

SwitchInStep ==
  RunProgram =>
    /\ main \in {"init", "spawn"} => Capture
    /\ main = "spawn" => capturing
    /\ main \in {"read", "woken", "load", "store"} =>
         (Capture <=> capturing) /\ (capturing <=> site = "capture")
    /\ main = "store" => loaded = Capture
    /\ main \in {"join", "free"} => ~Capture

(* Every step keeps the flag, the copy of it and the stage in agreement.   *)
LEMMA SwitchStep ==
  TypeOK /\ Located /\ SwitchInStep /\ [Next]_vars => SwitchInStep'
<1> SUFFICES ASSUME TypeOK, Located, SwitchInStep, [Next]_vars
             PROVE  SwitchInStep'
  OBVIOUS
<1> USE DEF TypeOK, Stage, Located, NothingOutside, StretchOfCapture,
            SwitchInStep
<1>1. ASSUME NEW e \in Event, Button(e)
      PROVE  SwitchInStep'
  BY <1>1 DEF Button
<1>2. CASE sig_handler
  BY <1>2 DEF sig_handler
<1>3. CASE BlinkEnds
  BY <1>3 DEF BlinkEnds
<1>4. CASE TestCapture \/ InitCapture \/ Spawn
  BY <1>4 DEF TestCapture, InitCapture, Spawn
<1>5. CASE JoinBlink \/ FreeCapture \/ Catch
  BY <1>5 DEF JoinBlink, FreeCapture, Catch
<1>6. CASE TestRunProgram \/ Read
  BY <1>6 DEF TestRunProgram, Read
<1>7. CASE Woken
  BY <1>7 DEF Woken, Return
<1>8. CASE Load \/ Toggle
  BY <1>8 DEF Load, Toggle, Return
<1>9. CASE UNCHANGED vars
  BY <1>9 DEF vars
<1>10. QED
  BY <1>1, <1>2, <1>3, <1>4, <1>5, <1>6, <1>7, <1>8, <1>9 DEF Next, MainStep

(* While the daemon waits for the switch, Capture says whether a capture   *)
(* runs, also after any number of captures that failed to start or stop.   *)
THEOREM SwitchAgreesHolds == Spec => []SwitchAgrees
<1>1. Init => SwitchInStep
  BY DEF Init, SwitchInStep
<1>2. SwitchInStep => SwitchAgrees
  BY DEF SwitchInStep, SwitchAgrees
<1>3. QED
  BY <1>1, <1>2, SwitchStep, LocatedHolds, DaemonTypeCorrect, PTL DEF Spec

-----------------------------------------------------------------------------
(* Refinement: the daemon is a switch.                                     *)

(* Only a signal interrupts read(), and what the loop begins anew with has *)
(* seen none: the handler resets both.                                     *)
InterruptedIsTold ==
  /\ event = "interrupted" => ~RunProgram
  /\ main = "loop" /\ Capture => RunProgram

(* Every step keeps that an interrupted read was told by a signal. *)
LEMMA InterruptedStep == InterruptedIsTold /\ TypeOK /\ [Next]_vars => InterruptedIsTold'
<1> SUFFICES ASSUME InterruptedIsTold, TypeOK, [Next]_vars
             PROVE  InterruptedIsTold'
  OBVIOUS
<1> USE DEF InterruptedIsTold
<1>1. CASE Read
  <2>1. event' \in Event
    BY <1>1, HeadTailProperties DEF Read, TypeOK
  <2>2. QED
    BY <1>1, <2>1 DEF Event, Read
<1>2. CASE ~Read
  BY <1>2 DEF Next, vars, Button, sig_handler, BlinkEnds, MainStep, TestCapture,
     InitCapture, Spawn, JoinBlink, FreeCapture, Catch, TestRunProgram, Woken, Load,
     Toggle, Return
<1>3. QED
  BY <1>1, <1>2

(* The mode, one value at a time. *)
LEMMA ModeIs ==
  ASSUME Located
  PROVE  /\ Mode = "ended" <=> main = "exited"
         /\ Mode = "stopping" <=> Stopping
         /\ Mode = "capturing" <=> capturing /\ ~Stopping
         /\ Mode = "asked" <=> Asked
         /\ Mode = "idle" <=> main # "exited" /\ ~capturing /\ ~Asked
         /\ Mode \in {"idle", "asked", "capturing", "stopping", "ended"}
<1> USE DEF Mode
<1>1. /\ main = "exited" => ~capturing /\ ~Asked
      /\ Stopping => capturing
      /\ Asked => ~capturing
  BY DEF Located, NothingOutside, Stopping, Asked, ReadRelease
<1>2. CASE main = "exited"
  BY <1>1, <1>2
<1>3. CASE main # "exited" /\ capturing
  BY <1>1, <1>3
<1>4. CASE main # "exited" /\ ~capturing
  BY <1>1, <1>4
<1>5. QED
  BY <1>2, <1>3, <1>4

(* Every step of the daemon is a step of the switch, or stutters. *)
LEMMA SwitchNextStep ==
  TypeOK /\ TypeOK' /\ Located /\ Located' /\ SwitchInStep /\ InterruptedIsTold /\ [Next]_vars
    => [Promise!SwitchNext]_(Promise!switchVars)
<1> SUFFICES ASSUME TypeOK, TypeOK', Located, Located', SwitchInStep, InterruptedIsTold,
                    [Next]_vars
             PROVE  Promise!SwitchNext \/ UNCHANGED Promise!switchVars
  OBVIOUS
<1>m. /\ Mode' = "ended" <=> main' = "exited"
      /\ Mode' = "stopping" <=> Stopping'
      /\ Mode' = "capturing" <=> capturing' /\ ~Stopping'
      /\ Mode' = "asked" <=> Asked'
      /\ Mode' = "idle" <=> main' # "exited" /\ ~capturing' /\ ~Asked'
      /\ Mode' \in {"idle", "asked", "capturing", "stopping", "ended"}
  <2>1. ASSUME Located'
        PROVE  /\ Mode' = "ended" <=> main' = "exited"
               /\ Mode' = "stopping" <=> Stopping'
               /\ Mode' = "capturing" <=> capturing' /\ ~Stopping'
               /\ Mode' = "asked" <=> Asked'
               /\ Mode' = "idle" <=> main' # "exited" /\ ~capturing' /\ ~Asked'
               /\ Mode' \in {"idle", "asked", "capturing", "stopping", "ended"}
    BY <2>1 DEF Mode, Located, NothingOutside, Stopping, Asked, ReadRelease
  <2>2. QED
    BY <2>1
<1> USE <1>m, ModeIs DEF Promise!SwitchNext, Promise!switchVars
<1> HIDE DEF Mode
<1>a. ASSUME UNCHANGED <<RunProgram, events, Mode>>
      PROVE  UNCHANGED Promise!switchVars
  BY <1>a
<1>1. ASSUME NEW e \in Event, Button(e)
      PROVE  Promise!Happens
  <2>1. UNCHANGED Mode
    BY <1>1 DEF Button, Stopping, Asked, ReadRelease
  <2>2. QED
    BY <1>1, <2>1 DEF Button, Promise!Happens, Event
<1>2. CASE sig_handler
  <2>1. Mode' = Mode \/ (Mode = "asked" /\ Mode' = "idle")
                     \/ (Mode = "capturing" /\ Mode' = "stopping")
    BY <1>2 DEF sig_handler, Stopping, Asked, ReadRelease, TypeOK,
                Located, NothingOutside, StretchOfCapture
  <2>2. RunProgram' = FALSE /\ UNCHANGED events
    BY <1>2 DEF sig_handler
  <2>3. Promise!Told
    BY <2>1, <2>2 DEF Promise!Told, Promise!GivenUp, TypeOK
  <2>4. QED
    BY <2>3
<1>3. CASE BlinkEnds
  <2>1. UNCHANGED Mode
    BY <1>3 DEF BlinkEnds, Stopping, Asked, ReadRelease
  <2>2. QED
    BY <1>3, <1>a, <2>1 DEF BlinkEnds
<1>4. CASE TestCapture
  <2>1. UNCHANGED Mode
    BY <1>4 DEF TestCapture, Stopping, Asked, ReadRelease, Located, NothingOutside,
                InterruptedIsTold, TypeOK
  <2>2. QED
    BY <1>4, <1>a, <2>1 DEF TestCapture
<1>5. CASE InitCapture
  <2>1. Mode = "asked" /\ Mode' \in {"capturing", "idle"}
    BY <1>5 DEF InitCapture, Stopping, Asked, ReadRelease, Located, NothingOutside
  <2>2. Promise!Begins \/ Promise!Fails
    BY <1>5, <2>1 DEF InitCapture, Promise!Begins, Promise!Fails, Promise!Moves
  <2>3. QED
    BY <2>2
<1>6. CASE Spawn \/ JoinBlink
  <2>1. UNCHANGED Mode
    BY <1>6 DEF Spawn, JoinBlink, Stopping, Asked, ReadRelease
  <2>2. QED
    BY <1>6, <1>a, <2>1 DEF Spawn, JoinBlink
<1>7. CASE FreeCapture
  <2>1. Mode' = "idle" /\ Mode \in {"stopping", "idle"}
    BY <1>7 DEF FreeCapture, Stopping, Asked, ReadRelease
  <2>2. Promise!Stops \/ UNCHANGED Promise!switchVars
    BY <1>7, <2>1 DEF FreeCapture, Promise!Stops, Promise!Moves
  <2>3. QED
    BY <2>2
<1>8. CASE Catch
  <2>1. Mode' = "idle" /\ Mode = "idle"
    BY <1>8 DEF Catch, Stopping, Asked, ReadRelease, Located, NothingOutside
  <2>2. QED
    BY <1>8, <1>a, <2>1 DEF Catch
<1>9. CASE TestRunProgram
  <2>1. CASE RunProgram
    <3>1. UNCHANGED Mode
      BY <1>9, <2>1 DEF TestRunProgram, Stopping, Asked, ReadRelease
    <3>2. QED
      BY <1>9, <1>a, <3>1 DEF TestRunProgram
  <2>2. CASE ~RunProgram
    <3>1. Mode = "idle" /\ Mode' = "ended"
      BY <1>9, <2>2 DEF TestRunProgram, Asked, Located, NothingOutside, ReadRelease
    <3>2. Promise!Ends
      BY <1>9, <2>2, <3>1 DEF TestRunProgram, Promise!Ends, Promise!Moves
    <3>3. QED
      BY <3>2
  <2>3. QED
    BY <2>1, <2>2
<1>10. CASE Read
  <2>1. /\ main = "read" /\ main' = "woken" /\ event' = Head(events)
        /\ events # <<>> /\ events' = Tail(events)
        /\ UNCHANGED <<RunProgram, Capture, site, capturing>>
    BY <1>10 DEF Read
  <2>2. Head(events) \in {"press", "release"}
    BY <2>1, HeadTailProperties DEF TypeOK, Event
  <2>3. Mode = IF capturing THEN "capturing" ELSE "idle"
    BY <2>1 DEF Stopping, Asked, ReadRelease
  <2>4. ~RunProgram => Mode' = IF capturing THEN "stopping" ELSE "idle"
    BY <2>1 DEF Stopping, Asked, ReadRelease
  <2>5. RunProgram /\ Head(events) = "press" => Mode' = Mode
    BY <2>1, <2>3 DEF Stopping, Asked, ReadRelease
  <2>6. RunProgram /\ Head(events) = "release"
          => Mode' = IF capturing THEN "stopping" ELSE "asked"
    BY <2>1 DEF Stopping, Asked, ReadRelease, SwitchInStep, TypeOK
  <2>7. Promise!Takes
    BY <2>1, <2>2, <2>3, <2>4, <2>5, <2>6 DEF Promise!Takes, Promise!GivenUp, TypeOK
  <2>8. QED
    BY <2>7
<1>11. CASE Woken
  <2>1. UNCHANGED Mode
    BY <1>11 DEF Woken, Return, Stopping, Asked, ReadRelease, Located, StretchOfCapture,
                 InterruptedIsTold, SwitchInStep, TypeOK, Event
  <2>2. QED
    BY <1>11, <1>a, <2>1 DEF Woken
<1>12. CASE Load \/ Toggle
  <2>1. UNCHANGED Mode
    BY <1>12 DEF Load, Toggle, Return, Stopping, Asked, ReadRelease, Located, StretchOfCapture,
                 NothingOutside, SwitchInStep, TypeOK
  <2>2. QED
    BY <1>12, <1>a, <2>1 DEF Load, Toggle
<1>13. CASE UNCHANGED vars
  <2>1. UNCHANGED Mode
    BY <1>13 DEF vars, Mode, Stopping, Asked, ReadRelease
  <2>2. QED
    BY <1>13, <1>a, <2>1 DEF vars
<1>14. QED
  BY <1>1, <1>2, <1>3, <1>4, <1>5, <1>6, <1>7, <1>8, <1>9, <1>10, <1>11, <1>12, <1>13
     DEF Next, MainStep

(* Every behaviour of the daemon is one of a switch: a capture begins only *)
(* for a release that was read while none ran, ends with the next or with  *)
(* a signal, and a failed one is not begun again by itself.  A signal may  *)
(* come between the test of RunProgram and the load of Capture: the safety *)
(* half holds there too, and it is all that is promised once told to end.  *)
THEOREM DaemonIsSwitch == Spec => Promise!SwitchSafety
<1>1. Init => Promise!SwitchInit
  BY DEF Init, Promise!SwitchInit, Mode, Stopping, Asked, ReadRelease
<1>2. Init => SwitchInStep /\ InterruptedIsTold
  BY DEF Init, SwitchInStep, InterruptedIsTold
<1>3. QED
  BY <1>1, <1>2, SwitchNextStep, SwitchStep, InterruptedStep, LocatedHolds,
     DaemonTypeCorrect, PTL
     DEF Spec, Promise!SwitchSafety
=============================================================================
