------------------------------- MODULE Logger ------------------------------
(***************************************************************************)
(* The constructor of class Logger (core/logger.hpp): it rotates the log   *)
(* of the processes before this one, one file at a time, and opens its own.*)
(***************************************************************************)
EXTENDS Naturals

CONSTANTS Generations,  \* the last number a rotated log gets (8)
          MaxStarts     \* bound: how many processes are started

ASSUME GenerationsAssumption == Generations \in Nat /\ MaxStarts \in Nat

VARIABLES logs,      \* per number, the process that began the file, 0 if none
          starts,    \* how many processes were started
          rotating,  \* i of the loop plus one, 0 outside it
          lost       \* history: the numbers at which a log was overwritten

logVars == <<logs, starts, rotating, lost>>

LogIndex == 0..(Generations + 1)

LogTypeOK ==
  /\ logs \in [LogIndex -> 0..MaxStarts]
  /\ starts \in 0..MaxStarts
  /\ rotating \in 0..(Generations + 1)
  /\ lost \subseteq LogIndex

LogInit ==
  /\ logs = [i \in LogIndex |-> 0]
  /\ starts = 0
  /\ rotating = 0
  /\ lost = {}

(* From the oldest down, so that a rename never finds a newer file. *)
Source_Ascending(r) == Generations + 1 - r
Source(r) == r - 1

(* One round of the loop.  The removal at the top is of the number above,  *)
(* which no rename ever makes: it is the next rename that overwrites.      *)
RotateOne ==
  /\ rotating > 0
  /\ LET i == Source(rotating) IN
       IF logs[i] = 0
         THEN UNCHANGED <<logs, lost>>
         ELSE /\ lost' = lost \cup {j \in {i + 1} : logs[j] # 0}
              /\ logs' = IF i = Generations
                           THEN [logs EXCEPT ![i + 1] = 0]
                           ELSE [logs EXCEPT ![i + 1] = logs[i], ![i] = 0]
  /\ rotating' = rotating - 1
  /\ UNCHANGED starts

(* The log is rotated if it exists and has reached 512 KiB. *)
StartLogging ==
  /\ starts < MaxStarts
  /\ starts' = starts + 1
  /\ \/ rotating' = 0
     \/ logs[0] # 0 /\ rotating' = Generations + 1
  /\ UNCHANGED <<logs, lost>>

OpenLog_Truncates ==
  /\ rotating = 0
  /\ logs' = [logs EXCEPT ![0] = starts]
  /\ UNCHANGED <<starts, rotating, lost>>

(* The file is opened to append. *)
OpenLog ==
  /\ rotating = 0
  /\ logs' = [logs EXCEPT ![0] = IF @ = 0 THEN starts ELSE @]
  /\ UNCHANGED <<starts, rotating, lost>>

(* Logger: the logs stay ordered by age, and only the one in the last place*)
(* is ever overwritten, even when a process dies amid its renames and      *)
(* leaves a gap the next rotation meets.                                   *)
LogsInOrder ==
  /\ \A i, j \in LogIndex :
       logs[i] # 0 /\ logs[j] # 0 /\ i < j => logs[i] > logs[j]
  /\ lost \subseteq {Generations}

(* Seen from outside, whatever renames are left half done: the archive of  *)
(* logs gains the log of the process that starts, and forgets none but the *)
(* oldest of those it has.                                                 *)
Archive == {logs[i] : i \in LogIndex} \ {0}
OnlyOldestForgotten ==
  [][ \/ Archive' = Archive
      \/ Archive' = Archive \cup {starts} /\ \A n \in Archive : n < starts
      \/ \E n \in Archive : (\A m \in Archive : n <= m) /\ Archive' = Archive \ {n}
    ]_logVars
=============================================================================
