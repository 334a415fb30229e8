------------------------------ MODULE YouTube ------------------------------
(***************************************************************************)
(* class YouTube (core/youtube.cpp): GetAuth, StartStrm and StopStrm, with *)
(* the server's answers, the file of the token and the passing of time.    *)
(*                                                                         *)
(* A call is a sequence of requests; each may fail, or succeed and its     *)
(* answer be lost, and time may pass before it reaches the server.  A      *)
(* token is the time at which the server will refuse it, a broadcast its   *)
(* number.                                                                 *)
(***************************************************************************)
EXTENDS Naturals, JsonFiles

CONSTANTS Life,           \* expires_in of a token
          Margin,         \* how much earlier it is refreshed (300 s)
          MaxDelay,       \* assumed: how long the requests of a call take together
          Polls,          \* expires / intv of the device code
          MaxTime,        \* bound on the clock, in poll intervals
          MaxBroadcasts   \* bound: how many broadcasts are made

(* The requests have no time limit of their own: that they take less than  *)
(* half the margin is what the margin is for.                              *)
ASSUME TimeAssumption ==
  /\ {Life, Margin, MaxDelay, Polls, MaxTime, MaxBroadcasts} \subseteq Nat
  /\ 2 * MaxDelay < Margin
  /\ Margin <= Life

VARIABLES now,         \* time
          call,        \* the function called
          stage,       \* how far it is
          answer,      \* what it returned, until the caller takes it
          waited,      \* time passed in the call, or since its token was issued
          token,       \* access_token: when the server will refuse it
          auth,        \* per place, racecam_auth.json
          dirs,        \* the data directories that exist
          codeAge,     \* age of the device code
          tries,       \* tries
          broadcasts,  \* per broadcast, its status at the server
          inHand,      \* stm.b_id, or the id given to StopStrm; 0 if none
          orphans,     \* history: broadcasts a failure cut off from the program
          gaveUpEarly  \* history: polling timed out while the code was good

ytVars == <<now, call, stage, answer, waited, token, auth, dirs, codeAge,
            tries, broadcasts, inHand, orphans, gaveUpEarly>>

Broadcast == 1..MaxBroadcasts
AuthFile == [state : {"absent", "broken", "good"},
             mtime : 0..MaxTime, dies : 0..(MaxTime + Life)]
Absent == [state |-> "absent", mtime |-> 0, dies |-> 0]
Broken == [state |-> "broken", mtime |-> 0, dies |-> 0]

YouTubeTypeOK ==
  /\ {now, waited, codeAge} \subseteq 0..MaxTime
  /\ call \in {"none", "StartStrm", "StopStrm"}
  /\ stage \in {"none", "auth", "device", "sleep", "poll", "refresh", "write",
                "writing", "insert", "stream", "bind", "complete"}
  /\ answer \in {"none", "ok", "thrown"}
  /\ token \in 0..(MaxTime + Life)
  /\ auth \in [{"home", "etc"} -> AuthFile]
  /\ dirs \subseteq {"home", "etc"}
  /\ tries \in 0..Polls
  /\ broadcasts \in [Broadcast -> {"none", "open", "complete"}]
  /\ inHand \in 0..MaxBroadcasts
  /\ orphans \subseteq Broadcast
  /\ gaveUpEarly \in BOOLEAN

YouTubeInit ==
  /\ now = 0
  /\ call = "none"
  /\ stage = "none"
  /\ answer = "none"
  /\ waited = 0
  /\ token = 0
  /\ auth = [p \in {"home", "etc"} |-> Absent]
  /\ dirs \in SUBSET {"home", "etc"}
  /\ codeAge = 0
  /\ tries = 0
  /\ broadcasts = [b \in Broadcast |-> "none"]
  /\ inHand = 0
  /\ orphans = {}
  /\ gaveUpEarly = FALSE

-----------------------------------------------------------------------------
(* Calls and returns. *)

Begin(c, id) ==
  /\ call = "none"
  /\ answer = "none"
  /\ call' = c
  /\ stage' = "auth"
  /\ waited' = 0
  /\ inHand' = id
  /\ UNCHANGED <<now, answer, token, auth, dirs, codeAge, tries, broadcasts,
                 orphans, gaveUpEarly>>

(* What the call and its exception, or the end of the process, forget.     *)
Forget ==
  /\ call' = "none"
  /\ stage' = "none"
  /\ waited' = 0
  /\ token' = 0
  /\ codeAge' = 0
  /\ tries' = 0

Returns ==
  /\ answer' = "ok"
  /\ Forget
  /\ UNCHANGED <<now, auth, dirs, gaveUpEarly>>

Throw ==
  /\ answer' = "thrown"
  /\ Forget
  /\ inHand' = 0
  /\ orphans' = orphans \cup ({inHand} \ {0})

GoOn(next) ==
  /\ stage' = next
  /\ UNCHANGED <<call, answer>>

(* Time passes: between calls at will, in a call while it keeps to the     *)
(* assumed delay.                                                          *)
Tick ==
  /\ now < MaxTime
  /\ \/ call = "none" /\ UNCHANGED waited
     \/ /\ stage \notin {"none", "sleep"}
        /\ waited < MaxDelay
        /\ waited' = waited + 1
  /\ now' = now + 1
  /\ codeAge' = IF stage = "poll" THEN codeAge + 1 ELSE codeAge
  /\ UNCHANGED <<call, stage, answer, token, auth, dirs, tries, broadcasts,
                 inHand, orphans, gaveUpEarly>>

-----------------------------------------------------------------------------
(* GetAuth. *)

HasAuth == {p \in {"home", "etc"} : auth[p].state # "absent"}
Request == IF call = "StartStrm" THEN "insert" ELSE "complete"

RefreshTime_AtExpiry(mtime) == mtime + Life
RefreshTime(mtime) == mtime + Life - Margin

(* A file cut short is a syntax error; the stat() is of the file getPath   *)
(* finds, which is not where jsonRead found it if that was /etc.           *)
ReadAuth ==
  /\ stage = "auth"
  /\ LET place == JsonReadPlace(HasAuth, FALSE) IN
       \/ place = "none" /\ GoOn("device") /\ UNCHANGED <<token, inHand, orphans, waited, codeAge, tries>>
       \/ /\ place # "none"
          /\ auth[place].state = "broken" \/ GetPathPlace(HasAuth) = "none"
          /\ Throw
       \/ /\ place # "none"
          /\ auth[place].state = "good"
          /\ GetPathPlace(HasAuth) # "none"
          /\ IF now > RefreshTime(auth[place].mtime)
               THEN GoOn("refresh") /\ UNCHANGED token
               ELSE GoOn(Request) /\ token' = auth[place].dies
          /\ UNCHANGED <<inHand, orphans, waited, codeAge, tries>>
  /\ UNCHANGED <<now, auth, dirs, broadcasts, gaveUpEarly>>

AskDeviceCode ==
  /\ stage = "device"
  /\ GoOn("sleep")
  /\ codeAge' = 0
  /\ tries' = Polls
  /\ UNCHANGED <<now, waited, token, auth, dirs, broadcasts, inHand, orphans,
                 gaveUpEarly>>

SleepInterval_Skipped == 0
SleepInterval == 1

Sleep ==
  /\ stage = "sleep"
  /\ now + SleepInterval <= MaxTime
  /\ now' = now + SleepInterval
  /\ codeAge' = codeAge + SleepInterval
  /\ GoOn("poll")
  /\ UNCHANGED <<waited, token, auth, dirs, tries, broadcasts, inHand, orphans,
                 gaveUpEarly>>

(* A token is issued: it lives from now on. *)
Issue ==
  /\ GoOn("write")
  /\ token' = now + Life
  /\ waited' = 0

(* The user has entered the code; or the server answers 428, and tries is  *)
(* decremented after the test.                                             *)
Authorised ==
  /\ stage = "poll"
  /\ codeAge <= Polls
  /\ Issue
  /\ UNCHANGED <<now, auth, dirs, codeAge, tries, broadcasts, inHand, orphans,
                 gaveUpEarly>>

Pending ==
  /\ stage = "poll"
  /\ IF tries = 0
       THEN /\ Throw
            /\ gaveUpEarly' = (gaveUpEarly \/ codeAge <= Polls)
       ELSE /\ GoOn("sleep")
            /\ tries' = tries - 1
            /\ UNCHANGED <<waited, token, codeAge, inHand, orphans, gaveUpEarly>>
  /\ UNCHANGED <<now, auth, dirs, broadcasts>>

Refresh ==
  /\ stage = "refresh"
  /\ Issue
  /\ UNCHANGED <<now, auth, dirs, codeAge, tries, broadcasts, inHand, orphans,
                 gaveUpEarly>>

(* jsonWrite: the file is truncated, then written. *)
WriteAuth ==
  /\ stage = "write"
  /\ LET place == JsonWritePlace(dirs, FALSE) IN
       IF place = "none"
         THEN Throw /\ UNCHANGED auth
         ELSE /\ GoOn("writing")
              /\ auth' = [auth EXCEPT ![place] = Broken]
              /\ UNCHANGED <<waited, token, codeAge, tries, inHand, orphans>>
  /\ dirs' = DirsAfterWrite(dirs, FALSE)
  /\ UNCHANGED <<now, broadcasts, gaveUpEarly>>

WriteAuthEnds ==
  /\ stage = "writing"
  /\ \E p \in HasAuth :
       /\ auth[p].state = "broken"
       /\ auth' = [auth EXCEPT ![p] =
                     [state |-> "good", mtime |-> now, dies |-> token]]
  /\ GoOn(Request)
  /\ UNCHANGED <<now, waited, token, dirs, codeAge, tries, broadcasts, inHand,
                 orphans, gaveUpEarly>>

-----------------------------------------------------------------------------
(* StartStrm and StopStrm. *)

(* The server makes the broadcast; if the answer does not arrive nobody    *)
(* knows its number.                                                       *)
InsertBroadcast ==
  /\ stage = "insert"
  /\ \E b \in Broadcast :
       /\ broadcasts[b] = "none"
       /\ broadcasts' = [broadcasts EXCEPT ![b] = "open"]
       /\ \/ /\ inHand' = b
             /\ GoOn("stream")
             /\ UNCHANGED <<orphans, token, waited, codeAge, tries>>
          \/ /\ answer' = "thrown"
             /\ Forget
             /\ inHand' = 0
             /\ orphans' = orphans \cup {b}
  /\ UNCHANGED <<now, auth, dirs, gaveUpEarly>>

InsertStream ==
  /\ stage = "stream"
  /\ GoOn("bind")
  /\ UNCHANGED <<now, waited, token, auth, dirs, codeAge, tries, broadcasts,
                 inHand, orphans, gaveUpEarly>>

Bind ==
  /\ stage = "bind"
  /\ Returns
  /\ UNCHANGED <<broadcasts, inHand, orphans>>

Complete ==
  /\ stage = "complete"
  /\ broadcasts' = [broadcasts EXCEPT ![inHand] = "complete"]
  /\ inHand' = 0
  /\ Returns
  /\ UNCHANGED orphans

(* A request fails, or is refused: after the expiry of the code or the     *)
(* token, or because no stream was received.                               *)
RequestFails ==
  /\ stage \in {"device", "poll", "refresh", "insert", "stream", "bind",
                "complete"}
  /\ Throw
  /\ UNCHANGED <<now, auth, dirs, broadcasts, gaveUpEarly>>

YouTubeStep ==
  \/ ReadAuth \/ AskDeviceCode \/ Sleep \/ Authorised \/ Pending \/ Refresh
  \/ WriteAuth \/ WriteAuthEnds \/ InsertBroadcast \/ InsertStream \/ Bind
  \/ Complete \/ RequestFails

-----------------------------------------------------------------------------
(* StartStrm, StopStrm: every request that carries a token carries one the *)
(* server still accepts, whether it came from the file or was just issued: *)
(* the age of the file, read once at the start of the call, stands for the *)
(* age of the token.                                                       *)
TokenIsFresh ==
  stage \in {"insert", "stream", "bind", "complete"} => now < token

(* GetAuth: polling does not give up while the user may still enter the    *)
(* code it printed.                                                        *)
PollingOutlastsCode == ~gaveUpEarly
=============================================================================
