------------------------------- MODULE Siren --------------------------------
(***************************************************************************)
(* The looping siren of alertu-daemon/src/sound.rs: the state machine holds*)
(* a handle; a task of its own respawns an external player for as long as  *)
(* the alarm lasts.  Stopping sets a flag, wakes the task if it waits for  *)
(* its player, and aborts it.  tokio drops an aborted task the next time   *)
(* it would be polled: a task parked at an await never runs again, one     *)
(* being polled on another thread runs on to its next await.               *)
(*                                                                         *)
(* The player process and tokio are external.                              *)
(***************************************************************************)
EXTENDS Naturals

CONSTANTS
  None,            \* no siren
  MaxFailures,     \* SIREN_MAX_FAILURES
  PlayerMayFail,   \* the player may exit with an error or not start at all
  MaxSirens        \* bound on the sirens started in a run

ASSUME SirenAssumption ==
  /\ MaxFailures \in Nat \ {0}
  /\ PlayerMayFail \in BOOLEAN
  /\ MaxSirens \in Nat \ {0}
  /\ None \notin Nat

VARIABLES
  handle,     \* SoundPlayer::siren
  detected,   \* SoundPlayer::player is Some
  started,    \* sirens started so far
  siren       \* the task of each siren, its flags and its player

vars == <<handle, detected, started, siren>>

Ids == 1..MaxSirens

(* pc "done": the task ended; "gone": it ended on an error of the system.   *)
(* A task that is not running is parked at an await.  streak and after are  *)
(* history: players that failed in a row, players started after the stop    *)
(* (counted up to two).                                                     *)
Task == [pc       : {"absent", "head", "spawning", "playing", "sleeping",
                     "done", "gone"},
         running  : BOOLEAN,
         stop     : BOOLEAN,
         notified : BOOLEAN,
         aborted  : BOOLEAN,
         failures : Nat,
         player   : {"none", "sounding", "good", "bad"},
         streak   : Nat,
         after    : Nat]

Absent == [pc |-> "absent", running |-> FALSE, stop |-> FALSE,
           notified |-> FALSE, aborted |-> FALSE, failures |-> 0,
           player |-> "none", streak |-> 0, after |-> 0]

Init ==
  /\ handle = None /\ started = 0
  /\ detected \in BOOLEAN
  /\ siren = [i \in Ids |-> Absent]

Ended(t) == t.pc \in {"absent", "done", "gone"}

-----------------------------------------------------------------------------
(* The state machine's side. *)

(* Form that wakes the task and leaves the rest to it. *)
StoppedByNotify(t) ==
  {[t EXCEPT !.notified = (t.pc = "playing")]}

(* stop_siren on the task of the handle.  The wake-up reaches a task that   *)
(* waits for its player; another thread may poll it before the abort.       *)
Stopped(t) ==
  {[t EXCEPT !.stop = TRUE, !.aborted = TRUE, !.running = r,
             !.notified = (t.pc = "playing")]
     : r \in IF t.pc = "playing" THEN {t.running, TRUE} ELSE {t.running}}

StopSiren ==
  /\ handle # None
  /\ \E t \in Stopped(siren[handle]) : siren' = [siren EXCEPT ![handle] = t]
  /\ handle' = None
  /\ UNCHANGED <<detected, started>>

(* What start_siren leaves behind when it stopped an existing siren first.  *)
AfterStop ==
  IF handle = None THEN {siren}
  ELSE {[siren EXCEPT ![handle] = t] : t \in Stopped(siren[handle])}

(* Form that starts a siren beside an existing one. *)
StartSirenBeside ==
  /\ started < MaxSirens /\ detected
  /\ siren' = [siren EXCEPT ![started + 1].pc = "head"]
  /\ handle' = started + 1 /\ started' = started + 1
  /\ UNCHANGED detected

(* An existing siren is stopped first; without a player or a file none is   *)
(* started.                                                                 *)
StartSiren ==
  /\ started < MaxSirens
  /\ \E before \in AfterStop :
       \/ /\ detected
          /\ siren' = [before EXCEPT ![started + 1].pc = "head"]
          /\ handle' = started + 1 /\ started' = started + 1
       \/ /\ siren' = before
          /\ handle' = None /\ UNCHANGED started
  /\ UNCHANGED detected

(* A siren already sounding keeps the player it started with. *)
Reconfigure ==
  /\ detected' = ~detected
  /\ UNCHANGED <<handle, started, siren>>

-----------------------------------------------------------------------------
(* siren_loop, for the siren i. *)

Set(i, t) == siren' = [siren EXCEPT ![i] = t] /\ UNCHANGED <<handle, detected, started>>

(* A parked task runs again when what it waits for is there: it was just    *)
(* spawned, its player exited or the stop woke it, or its delay is over.    *)
Wake(i) ==
  LET t == siren[i]
  IN  /\ ~t.running /\ ~t.aborted
      /\ \/ t.pc = "head"
         \/ t.pc = "playing" /\ (t.notified \/ t.player \in {"good", "bad"})
         \/ t.pc = "sleeping"
      /\ Set(i, [t EXCEPT !.running = TRUE,
                          !.pc = IF @ = "sleeping" THEN "head" ELSE @])

(* An aborted task is dropped where it is parked; its player lives on.      *)
Drop(i) ==
  LET t == siren[i]
  IN  /\ t.aborted /\ ~t.running /\ ~Ended(t)
      /\ Set(i, [t EXCEPT !.pc = "done"])

LoopHead(i) ==
  LET t == siren[i]
  IN  /\ t.running /\ t.pc = "head"
      /\ Set(i, [t EXCEPT !.pc = IF t.stop THEN "done" ELSE "spawning"])

Spawn(i) ==
  LET t == siren[i]
  IN  /\ t.running /\ t.pc = "spawning"
      /\ \/ Set(i, [t EXCEPT !.pc = "playing", !.running = FALSE,
                             !.player = "sounding",
                             !.after = IF handle = i \/ @ = 2 THEN @ ELSE @ + 1])
         \/ PlayerMayFail /\ Set(i, [t EXCEPT !.pc = "gone"])

(* Form that counts every failure of the alarm, successes or not between.   *)
PlayAgainKeepsCount(i) ==
  LET t == siren[i]
  IN  /\ t.running /\ t.pc = "playing" /\ t.player = "good"
      /\ Set(i, [t EXCEPT !.pc = "head", !.player = "none"])

(* Form that plays the file once. *)
PlayAgainNot(i) ==
  LET t == siren[i]
  IN  /\ t.running /\ t.pc = "playing" /\ t.player = "good"
      /\ Set(i, [t EXCEPT !.pc = "done", !.player = "none", !.failures = 0])

(* The file was played to its end. *)
PlayAgain(i) ==
  LET t == siren[i]
  IN  /\ t.running /\ t.pc = "playing" /\ t.player = "good"
      /\ Set(i, [t EXCEPT !.pc = "head", !.player = "none", !.failures = 0])

(* Form that counts before it compares with the wrong end. *)
CountFailureOneMore(i) ==
  LET t == siren[i]
      n == t.failures + 1
  IN  /\ t.running /\ t.pc = "playing" /\ t.player = "bad"
      /\ Set(i, [t EXCEPT !.player = "none", !.failures = n,
                          !.pc = IF n > MaxFailures THEN "done" ELSE "sleeping",
                          !.running = FALSE])

(* The player failed: after MaxFailures in a row the task gives up, before  *)
(* that it waits a second.                                                  *)
CountFailure(i) ==
  LET t == siren[i]
      n == t.failures + 1
  IN  /\ t.running /\ t.pc = "playing" /\ t.player = "bad"
      /\ Set(i, [t EXCEPT !.player = "none", !.failures = n,
                          !.pc = IF n >= MaxFailures THEN "done" ELSE "sleeping",
                          !.running = FALSE])

(* The status of the player cannot be had. *)
CannotWait(i) ==
  LET t == siren[i]
  IN  /\ PlayerMayFail
      /\ t.running /\ t.pc = "playing" /\ t.player \in {"good", "bad"}
      /\ Set(i, [t EXCEPT !.pc = "gone", !.player = "none"])

(* The branch of the wake-up: kill the player and wait for it. *)
Kill(i) ==
  LET t == siren[i]
  IN  /\ t.running /\ t.pc = "playing" /\ t.notified
      /\ Set(i, [t EXCEPT !.pc = "done", !.player = "none"])

(* The player comes to the end of the file, or fails.  Nobody waits for the *)
(* player of a task that is over.                                           *)
PlayerExits(i, how) ==
  LET t == siren[i]
  IN  /\ t.player = "sounding"
      /\ how = "bad" => PlayerMayFail
      /\ Set(i, [t EXCEPT !.player = IF Ended(t) THEN "none" ELSE how,
                          !.streak = IF how = "good" THEN 0 ELSE @ + 1])

TaskStep(i) == Wake(i) \/ Drop(i) \/ LoopHead(i) \/ Spawn(i) \/ PlayAgain(i) \/
               CountFailure(i) \/ CannotWait(i) \/ Kill(i)

Next ==
  \/ StopSiren \/ StartSiren \/ Reconfigure
  \/ \E i \in Ids : TaskStep(i) \/ \E how \in {"good", "bad"} : PlayerExits(i, how)

Spec == Init /\ [][Next]_vars

(* Tasks are scheduled, a sound file has an end. *)
Fairness ==
  \A i \in Ids : /\ WF_vars(TaskStep(i))
                 /\ WF_vars(\E how \in {"good", "bad"} : PlayerExits(i, how))

FairSpec == Spec /\ Fairness

-----------------------------------------------------------------------------
(* Every variable has a value the code could hold; a task that still runs   *)
(* has counted fewer failures than make it give up.                         *)
TypeOK ==
  /\ handle \in Ids \cup {None} /\ detected \in BOOLEAN /\ started \in 0..MaxSirens
  /\ siren \in [Ids -> Task]
  /\ \A i \in Ids : siren[i].failures < MaxFailures \/ siren[i].pc = "done"

(* Two sirens never loop over each other: a task that nobody told to stop   *)
(* is the one of the handle, so the next disarm reaches it.                 *)
OneLoop ==
  \A i \in Ids : Ended(siren[i]) \/ siren[i].stop \/ handle = i

(* However the stop races the task on another thread, a stopped siren       *)
(* starts at most the one player it was about to start.                     *)
StopsSpawning == \A i \in Ids : siren[i].after <= 1

(* A player that keeps failing is not restarted for as long as the alarm    *)
(* lasts; and a siren that nobody stopped falls silent only after           *)
(* MaxFailures players failed in a row (or the system refused it a          *)
(* process): one good loop in between and it carries on.                    *)
GivesUp ==
  \A i \in Ids :
    /\ siren[i].streak <= MaxFailures
    /\ siren[i].pc = "done" /\ handle = i => siren[i].streak = MaxFailures

(* A siren that is not stopped and does not give up sounds again and again. *)
KeepsSounding ==
  \A i \in Ids :
    handle = i ~> \/ handle # i
                  \/ siren[i].player = "sounding"
                  \/ siren[i].pc = "gone"
                  \/ siren[i].streak = MaxFailures

(* A stopped siren is silent in the end, and stays so. *)
FallsSilent ==
  \A i \in Ids :
    (started >= i /\ handle # i) ~> [](siren[i].player # "sounding")

(* Stopping kills the player: once the task of a stopped siren is over,     *)
(* nothing sounds ("disarming cancels everything", config.rs:51).           *)
StoppedMeansSilent ==
  \A i \in Ids :
    siren[i].stop /\ Ended(siren[i]) => siren[i].player # "sounding"
=============================================================================
