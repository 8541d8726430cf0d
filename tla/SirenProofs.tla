---------------------------- MODULE SirenProofs ----------------------------
(***************************************************************************)
(* What Siren guarantees for every number of sirens and every number of    *)
(* failures after which one gives up.                                      *)
(***************************************************************************)
EXTENDS Siren, TLAPS

USE SirenAssumption

(* The task t of siren i when the handle is h and n sirens were started.    *)
(* A task that has been stopped is aborted: once it is parked it stays so,  *)
(* hence the one player after the stop.                                     *)
Belongs(t, i, h, n) ==
  /\ i > n => t = Absent
  /\ i <= n => t.pc # "absent"
  /\ h = i => i <= n /\ ~t.stop /\ ~t.aborted /\ ~t.notified /\ t.after = 0
  /\ h # i /\ i <= n => Ended(t) \/ (t.stop /\ t.aborted)
  /\ t.after <= 1
  /\ t.after = 1 => t.aborted /\ ~t.running

(* The failures the task has counted are those of its players, but for the  *)
(* one it has not looked at yet.                                            *)
Counts(t, i, h) ==
  /\ t.failures < MaxFailures \/ t.pc = "done"
  /\ t.player # "none" => t.pc \in {"playing", "done"}
  /\ t.player = "good" => t.streak = 0
  /\ ~Ended(t) /\ t.player \in {"none", "sounding"} => t.streak = t.failures
  /\ ~Ended(t) /\ t.player = "bad" => t.streak = t.failures + 1
  /\ t.streak <= MaxFailures
  /\ t.pc = "done" /\ t.player = "sounding" => t.streak < MaxFailures
  /\ t.pc = "done" /\ h = i => t.streak = MaxFailures /\ t.player = "none"

Fits(t, i, h, n) == Belongs(t, i, h, n) /\ Counts(t, i, h)

(* The inductive invariant. *)
SirenInv ==
  /\ handle \in Ids \cup {None} /\ detected \in BOOLEAN /\ started \in 0..MaxSirens
  /\ siren \in [Ids -> Task]
  /\ \A i \in Ids : Fits(siren[i], i, handle, started)

-----------------------------------------------------------------------------
(* Steps of a task. *)

(* A step of one task keeps the invariant if the task still fits.           *)
LEMMA TaskChange ==
  ASSUME SirenInv, NEW i \in Ids, NEW t \in Task,
         Fits(t, i, handle, started), Set(i, t)
  PROVE  SirenInv'
<1>1. /\ siren' = [siren EXCEPT ![i] = t]
      /\ handle' = handle /\ detected' = detected /\ started' = started
  BY DEF Set
<1>2. siren' \in [Ids -> Task]
  BY <1>1 DEF SirenInv
<1>3. ASSUME NEW j \in Ids PROVE Fits(siren'[j], j, handle', started')
  BY <1>1 DEF SirenInv
<1> QED BY <1>1, <1>2, <1>3 DEF SirenInv

(* A task that wakes goes on where it was. *)
LEMMA WakeFits == ASSUME SirenInv, NEW i \in Ids, Wake(i) PROVE SirenInv'
<1> DEFINE t == siren[i]
           u == [t EXCEPT !.running = TRUE, !.pc = IF @ = "sleeping" THEN "head" ELSE @]
<1>1. t \in Task /\ Fits(t, i, handle, started) /\ i \in Nat /\ started \in Nat
  BY DEF SirenInv, Ids
<1>2. ~t.aborted /\ ~Ended(t) /\ Set(i, u)
  BY DEF Wake, Ended
<1>3. u \in Task
  BY <1>1 DEF Task
<1>4. Belongs(u, i, handle, started)
  BY <1>1, <1>2 DEF Fits, Belongs, Ended, Task, Absent
<1>5. Counts(u, i, handle)
  BY <1>1, <1>2 DEF Fits, Counts, Ended, Task
<1> QED BY <1>2, <1>3, <1>4, <1>5, TaskChange DEF Fits

(* Only a stopped task is dropped. *)
LEMMA DropFits == ASSUME SirenInv, NEW i \in Ids, Drop(i) PROVE SirenInv'
<1> DEFINE t == siren[i]
           u == [t EXCEPT !.pc = "done"]
<1>1. t \in Task /\ Fits(t, i, handle, started) /\ i \in Nat /\ started \in Nat
  BY DEF SirenInv, Ids
<1>2. t.aborted /\ ~Ended(t) /\ Set(i, u)
  BY DEF Drop
<1>3. u \in Task
  BY <1>1 DEF Task
<1>4. handle # i
  BY <1>1, <1>2 DEF Fits, Belongs
<1>5. Belongs(u, i, handle, started)
  BY <1>1, <1>2, <1>4 DEF Fits, Belongs, Ended, Task, Absent
<1>6. Counts(u, i, handle)
  BY <1>1, <1>2, <1>4 DEF Fits, Counts, Ended, Task
<1> QED BY <1>2, <1>3, <1>5, <1>6, TaskChange DEF Fits

(* The head of the loop ends a stopped task only. *)
LEMMA LoopHeadFits == ASSUME SirenInv, NEW i \in Ids, LoopHead(i) PROVE SirenInv'
<1> DEFINE t == siren[i]
           u == [t EXCEPT !.pc = IF t.stop THEN "done" ELSE "spawning"]
<1>1. t \in Task /\ Fits(t, i, handle, started) /\ i \in Nat /\ started \in Nat
  BY DEF SirenInv, Ids
<1>2. t.running /\ t.pc = "head" /\ ~Ended(t) /\ Set(i, u)
  BY DEF LoopHead, Ended
<1>3. u \in Task
  BY <1>1 DEF Task
<1>4. Belongs(u, i, handle, started)
  BY <1>1, <1>2 DEF Fits, Belongs, Ended, Task, Absent
<1>5. Counts(u, i, handle)
  BY <1>1, <1>2 DEF Fits, Belongs, Counts, Ended, Task
<1> QED BY <1>2, <1>3, <1>4, <1>5, TaskChange DEF Fits

(* A stopped task that still runs spawns its one player and is parked.      *)
LEMMA SpawnFits == ASSUME SirenInv, NEW i \in Ids, Spawn(i) PROVE SirenInv'
<1> DEFINE t == siren[i]
           u == [t EXCEPT !.pc = "playing", !.running = FALSE, !.player = "sounding",
                          !.after = IF handle = i \/ @ = 2 THEN @ ELSE @ + 1]
           v == [t EXCEPT !.pc = "gone"]
<1>1. t \in Task /\ Fits(t, i, handle, started) /\ i \in Nat /\ started \in Nat
  BY DEF SirenInv, Ids
<1>2. t.running /\ t.pc = "spawning" /\ ~Ended(t) /\ t.player = "none"
  BY <1>1 DEF Spawn, Ended, Fits, Counts
<1>3. CASE Set(i, u)
  <2>1. u \in Task
    <3> DEFINE a == IF handle = i \/ t.after = 2 THEN t.after ELSE t.after + 1
    <3>1. a \in Nat
      BY <1>1 DEF Task
    <3> HIDE DEF a
    <3>2. [t EXCEPT !.pc = "playing", !.running = FALSE, !.player = "sounding",
                    !.after = a] \in Task
      BY <1>1, <3>1 DEF Task
    <3> QED BY <3>2 DEF a
  <2>2. t.after = 0 /\ (handle # i => t.aborted)
    BY <1>1, <1>2 DEF Fits, Belongs, Task, Absent
  <2>3. Belongs(u, i, handle, started)
    BY <1>1, <1>2, <2>2 DEF Fits, Belongs, Ended, Task, Absent
  <2>4. Counts(u, i, handle)
    BY <1>1, <1>2 DEF Fits, Counts, Ended, Task
  <2> QED BY <1>3, <2>1, <2>3, <2>4, TaskChange DEF Fits
<1>4. CASE Set(i, v)
  <2>1. v \in Task
    BY <1>1 DEF Task
  <2>2. Belongs(v, i, handle, started)
    BY <1>1, <1>2 DEF Fits, Belongs, Ended, Task, Absent
  <2>3. Counts(v, i, handle)
    BY <1>1, <1>2 DEF Fits, Counts, Ended, Task
  <2> QED BY <1>4, <2>1, <2>2, <2>3, TaskChange DEF Fits
<1> QED BY <1>3, <1>4 DEF Spawn

(* After a player that did well nothing is left of the failures before.     *)
LEMMA PlayAgainFits == ASSUME SirenInv, NEW i \in Ids, PlayAgain(i) PROVE SirenInv'
<1> DEFINE t == siren[i]
           u == [t EXCEPT !.pc = "head", !.player = "none", !.failures = 0]
<1>1. t \in Task /\ Fits(t, i, handle, started) /\ i \in Nat /\ started \in Nat
  BY DEF SirenInv, Ids
<1>2. t.pc = "playing" /\ t.player = "good" /\ ~Ended(t) /\ Set(i, u)
  BY DEF PlayAgain, Ended
<1>3. u \in Task
  BY <1>1 DEF Task
<1>4. Belongs(u, i, handle, started)
  BY <1>1, <1>2 DEF Fits, Belongs, Ended, Task, Absent
<1>5. Counts(u, i, handle)
  BY <1>1, <1>2 DEF Fits, Counts, Ended, Task
<1> QED BY <1>2, <1>3, <1>4, <1>5, TaskChange DEF Fits

(* A failure is counted when its player is looked at.                       *)
LEMMA CountFailureFits ==
  ASSUME SirenInv, NEW i \in Ids, CountFailure(i) PROVE SirenInv'
<1> DEFINE t == siren[i]
           n == t.failures + 1
           u == [t EXCEPT !.player = "none", !.failures = n,
                          !.pc = IF n >= MaxFailures THEN "done" ELSE "sleeping",
                          !.running = FALSE]
<1>1. t \in Task /\ Fits(t, i, handle, started) /\ i \in Nat /\ started \in Nat
  BY DEF SirenInv, Ids
<1>2. t.pc = "playing" /\ t.player = "bad" /\ t.running /\ ~Ended(t) /\ Set(i, u)
  BY DEF CountFailure, Ended
<1>3. n \in Nat /\ u \in Task
  <2> DEFINE p == IF n >= MaxFailures THEN "done" ELSE "sleeping"
  <2>1. n \in Nat /\ p \in {"done", "sleeping"}
    BY <1>1 DEF Task
  <2> HIDE DEF n, p
  <2>2. [t EXCEPT !.player = "none", !.failures = n, !.pc = p, !.running = FALSE] \in Task
    BY <1>1, <2>1 DEF Task
  <2> QED BY <2>1, <2>2 DEF p
<1>4. Belongs(u, i, handle, started)
  BY <1>1, <1>2 DEF Fits, Belongs, Ended, Task, Absent
<1>5. Counts(u, i, handle)
  BY <1>1, <1>2 DEF Fits, Counts, Ended, Task
<1> QED BY <1>2, <1>3, <1>4, <1>5, TaskChange DEF Fits

(* An error of the system ends a task with at most MaxFailures failures.    *)
LEMMA CannotWaitFits == ASSUME SirenInv, NEW i \in Ids, CannotWait(i) PROVE SirenInv'
<1> DEFINE t == siren[i]
           u == [t EXCEPT !.pc = "gone", !.player = "none"]
<1>1. t \in Task /\ Fits(t, i, handle, started) /\ i \in Nat /\ started \in Nat
  BY DEF SirenInv, Ids
<1>2. t.pc = "playing" /\ ~Ended(t) /\ Set(i, u)
  BY DEF CannotWait, Ended
<1>3. u \in Task
  BY <1>1 DEF Task
<1>4. Belongs(u, i, handle, started)
  BY <1>1, <1>2 DEF Fits, Belongs, Ended, Task, Absent
<1>5. Counts(u, i, handle)
  BY <1>1, <1>2 DEF Fits, Counts, Ended, Task
<1> QED BY <1>2, <1>3, <1>4, <1>5, TaskChange DEF Fits

(* Only a stopped task is woken to kill its player.                         *)
LEMMA KillFits == ASSUME SirenInv, NEW i \in Ids, Kill(i) PROVE SirenInv'
<1> DEFINE t == siren[i]
           u == [t EXCEPT !.pc = "done", !.player = "none"]
<1>1. t \in Task /\ Fits(t, i, handle, started) /\ i \in Nat /\ started \in Nat
  BY DEF SirenInv, Ids
<1>2. t.pc = "playing" /\ t.notified /\ ~Ended(t) /\ Set(i, u)
  BY DEF Kill, Ended
<1>3. u \in Task
  BY <1>1 DEF Task
<1>4. handle # i
  BY <1>1, <1>2 DEF Fits, Belongs
<1>5. Belongs(u, i, handle, started)
  BY <1>1, <1>2, <1>4 DEF Fits, Belongs, Ended, Task, Absent
<1>6. Counts(u, i, handle)
  BY <1>1, <1>2, <1>4 DEF Fits, Counts, Ended, Task
<1> QED BY <1>2, <1>3, <1>5, <1>6, TaskChange DEF Fits

(* A player that exits is waited for, or nobody cares any more.             *)
LEMMA PlayerExitsFits ==
  ASSUME SirenInv, NEW i \in Ids, NEW how \in {"good", "bad"}, PlayerExits(i, how)
  PROVE  SirenInv'
<1> DEFINE t == siren[i]
           u == [t EXCEPT !.player = IF Ended(t) THEN "none" ELSE how,
                          !.streak = IF how = "good" THEN 0 ELSE @ + 1]
<1>1. t \in Task /\ Fits(t, i, handle, started) /\ i \in Nat /\ started \in Nat
  BY DEF SirenInv, Ids
<1>2. t.player = "sounding" /\ Set(i, u)
  BY DEF PlayerExits
<1>3. t.pc \in {"playing", "done"} /\ (Ended(t) <=> t.pc = "done") /\ t.streak < MaxFailures
  BY <1>1, <1>2 DEF Fits, Counts, Ended, Task
<1>4. u \in Task
  <2> DEFINE p == IF Ended(t) THEN "none" ELSE how
             s == IF how = "good" THEN 0 ELSE t.streak + 1
  <2>1. p \in {"none", "good", "bad"} /\ s \in Nat
    BY <1>1 DEF Task
  <2> HIDE DEF p, s
  <2>2. [t EXCEPT !.player = p, !.streak = s] \in Task
    BY <1>1, <2>1 DEF Task
  <2> QED BY <2>2 DEF p, s
<1>5. Belongs(u, i, handle, started)
  BY <1>1, <1>2, <1>3 DEF Fits, Belongs, Ended, Task, Absent
<1>6. Counts(u, i, handle)
  BY <1>1, <1>2, <1>3 DEF Fits, Counts, Ended, Task
<1> QED BY <1>2, <1>4, <1>5, <1>6, TaskChange DEF Fits

-----------------------------------------------------------------------------
(* Steps of the state machine. *)

(* The task of the handle, stopped, fits any other handle.                  *)
LEMMA StoppedFits ==
  ASSUME NEW i \in Nat, NEW n \in Nat, NEW h, h # i,
         NEW t \in Task, Fits(t, i, i, n), NEW u \in Stopped(t)
  PROVE  u \in Task /\ Fits(u, i, h, n)
<1>1. PICK r \in BOOLEAN :
        u = [t EXCEPT !.stop = TRUE, !.aborted = TRUE, !.running = r,
                      !.notified = (t.pc = "playing")]
  BY DEF Stopped, Task
<1>2. (t.pc = "playing") \in BOOLEAN
  OBVIOUS
<1>3. u \in Task
  BY <1>1, <1>2 DEF Task
<1>4. Belongs(u, i, h, n)
  BY <1>1 DEF Fits, Belongs, Ended, Task, Absent
<1>5. Counts(u, i, h)
  BY <1>1 DEF Fits, Counts, Ended, Task
<1> QED BY <1>3, <1>4, <1>5 DEF Fits

(* The tasks the handle does not hold fit any handle that is not theirs.    *)
LEMMA OthersFit ==
  ASSUME NEW i \in Nat, NEW n \in Nat, NEW h, h # i, NEW g, g # i,
         NEW t \in Task, Fits(t, i, g, n)
  PROVE  Fits(t, i, h, n)
BY DEF Fits, Belongs, Counts

(* What stopping leaves behind, whether or not there was a siren.           *)
LEMMA AfterStopFits ==
  ASSUME SirenInv, NEW h, h \notin 1..started, NEW before \in AfterStop
  PROVE  /\ before \in [Ids -> Task]
         /\ \A i \in Ids : Fits(before[i], i, h, started) \/ (h = i /\ before[i] = Absent)
<1>1. /\ siren \in [Ids -> Task] /\ started \in Nat /\ Ids \subseteq Nat \ {0}
      /\ \A i \in Ids : siren[i] \in Task /\ Fits(siren[i], i, handle, started)
  BY DEF SirenInv, Ids
<1>2. \A i \in Ids : handle = i => i \in 1..started
  BY <1>1 DEF Fits, Belongs
<1>3. CASE handle = None /\ before = siren
  <2> SUFFICES ASSUME NEW i \in Ids
               PROVE  Fits(siren[i], i, h, started) \/ (h = i /\ siren[i] = Absent)
    BY <1>1, <1>3
  <2>1. i # handle /\ i \in Nat
    BY <1>1, <1>3 DEF Ids
  <2>2. CASE h = i
    BY <1>1, <2>2 DEF Fits, Belongs
  <2>3. CASE h # i
    BY <1>1, <2>1, <2>3, OthersFit
  <2> QED BY <2>2, <2>3
<1>4. CASE handle # None
  <2>1. PICK t \in Stopped(siren[handle]) : before = [siren EXCEPT ![handle] = t]
    BY <1>4 DEF AfterStop
  <2>2. handle \in Ids /\ handle # h
    BY <1>2, <1>4 DEF SirenInv
  <2>3. t \in Task /\ Fits(t, handle, h, started)
    BY <1>1, <2>2, StoppedFits
  <2>4. before \in [Ids -> Task]
    BY <1>1, <2>1, <2>3
  <2> SUFFICES ASSUME NEW i \in Ids
               PROVE  Fits(before[i], i, h, started) \/ (h = i /\ before[i] = Absent)
    BY <2>4
  <2>5. CASE i = handle
    BY <1>1, <2>1, <2>3, <2>5
  <2>6. CASE i # handle /\ h = i
    BY <1>1, <2>1, <2>6 DEF Fits, Belongs
  <2>7. CASE i # handle /\ h # i
    BY <1>1, <2>1, <2>7, OthersFit
  <2> QED BY <2>5, <2>6, <2>7
<1> QED BY <1>3, <1>4 DEF AfterStop

(* Stopping keeps the invariant. *)
LEMMA StopSirenFits == ASSUME SirenInv, StopSiren PROVE SirenInv'
<1>1. siren' \in AfterStop /\ handle' = None /\ detected' = detected /\ started' = started
  BY DEF StopSiren, AfterStop
<1>2. None \notin 1..started /\ None \notin Ids
  BY DEF SirenInv, Ids
<1>3. siren' \in [Ids -> Task] /\ \A i \in Ids : Fits(siren'[i], i, None, started)
  BY <1>1, <1>2, AfterStopFits
<1> QED BY <1>1, <1>3 DEF SirenInv

(* So does starting: the new task is the only one nobody stopped.           *)
LEMMA StartSirenFits == ASSUME SirenInv, StartSiren PROVE SirenInv'
<1>1. PICK before \in AfterStop :
        \/ /\ detected
           /\ siren' = [before EXCEPT ![started + 1].pc = "head"]
           /\ handle' = started + 1 /\ started' = started + 1
        \/ siren' = before /\ handle' = None /\ started' = started
  BY DEF StartSiren
<1>2. detected' = detected /\ started < MaxSirens /\ started \in Nat
  BY DEF StartSiren, SirenInv
<1>3. CASE siren' = before /\ handle' = None /\ started' = started
  <2>1. None \notin 1..started /\ None \notin Ids
    BY DEF SirenInv, Ids
  <2>2. siren' \in [Ids -> Task] /\ \A i \in Ids : Fits(siren'[i], i, None, started)
    BY <1>3, <2>1, AfterStopFits
  <2> QED BY <1>2, <1>3, <2>2 DEF SirenInv
<1>4. CASE /\ siren' = [before EXCEPT ![started + 1].pc = "head"]
           /\ handle' = started + 1 /\ started' = started + 1
  <2> DEFINE h == started + 1
             new == [Absent EXCEPT !.pc = "head"]
  <2>1. h \notin 1..started /\ h \in Ids /\ h \in 0..MaxSirens
    BY <1>2 DEF Ids
  <2>2. /\ before \in [Ids -> Task]
        /\ \A i \in Ids : Fits(before[i], i, h, started) \/ (h = i /\ before[i] = Absent)
    BY <2>1, AfterStopFits
  <2>3. before[h] = Absent
    BY <1>2, <2>1, <2>2 DEF Fits, Belongs
  <2>4. new \in Task /\ Fits(new, h, h, h)
    <3>1. h \in Nat
      BY <1>2
    <3> HIDE DEF h
    <3>2. new \in Task
      BY DEF Absent, Task
    <3>3. Belongs(new, h, h, h)
      BY <3>1 DEF Absent, Belongs, Ended
    <3>4. Counts(new, h, h)
      BY <3>1 DEF Absent, Counts, Ended
    <3> QED BY <3>2, <3>3, <3>4 DEF Fits
  <2>5. siren' = [before EXCEPT ![h] = new]
    BY <1>4, <2>2, <2>3
  <2>6. siren' \in [Ids -> Task]
    BY <2>2, <2>4, <2>5
  <2>7. ASSUME NEW i \in Ids, i # h PROVE Fits(before[i], i, h, h)
    <3>1. i \in Nat /\ (i > started => i > h) /\ (i <= h => i <= started)
      BY <1>2, <2>7 DEF Ids
    <3>2. Fits(before[i], i, h, started)
      BY <2>2, <2>7
    <3>3. (i > h => i > started) /\ (i <= started => i <= h)
      BY <1>2, <3>1
    <3> QED BY <2>7, <3>1, <3>2, <3>3 DEF Fits, Belongs
  <2>8. \A i \in Ids : Fits(siren'[i], i, handle', started')
    BY <1>4, <2>2, <2>4, <2>5, <2>7
  <2> QED BY <1>2, <1>4, <2>1, <2>6, <2>8 DEF SirenInv
<1> QED BY <1>1, <1>3, <1>4

-----------------------------------------------------------------------------
(* The invariant is inductive: each step of the state machine, of a task    *)
(* and of a player keeps it.                                                *)
LEMMA Inductive == Spec => []SirenInv
<1>1. Init => SirenInv
  <2> SUFFICES ASSUME Init PROVE SirenInv
    OBVIOUS
  <2>1. Absent \in Task /\ None \notin Ids
    BY DEF Absent, Task, Ids
  <2>2. siren \in [Ids -> Task] /\ started \in 0..MaxSirens
    BY <2>1 DEF Init
  <2>3. ASSUME NEW i \in Ids PROVE Fits(siren[i], i, handle, started)
    BY <2>1, <2>3 DEF Init, Ids, Fits, Belongs, Counts, Absent, Ended
  <2> QED BY <2>2, <2>3 DEF Init, SirenInv
<1>2. SirenInv /\ [Next]_vars => SirenInv'
  <2> SUFFICES ASSUME SirenInv, [Next]_vars PROVE SirenInv'
    OBVIOUS
  <2>1. CASE StopSiren
    BY <2>1, StopSirenFits
  <2>2. CASE StartSiren
    BY <2>2, StartSirenFits
  <2>3. CASE Reconfigure
    BY <2>3 DEF Reconfigure, SirenInv
  <2>4. CASE \E i \in Ids : TaskStep(i)
    BY <2>4, WakeFits, DropFits, LoopHeadFits, SpawnFits, PlayAgainFits,
       CountFailureFits, CannotWaitFits, KillFits DEF TaskStep
  <2>5. CASE \E i \in Ids : \E how \in {"good", "bad"} : PlayerExits(i, how)
    BY <2>5, PlayerExitsFits
  <2>6. CASE UNCHANGED vars
    BY <2>6 DEF vars, SirenInv
  <2> QED BY <2>1, <2>2, <2>3, <2>4, <2>5, <2>6 DEF Next
<1> QED BY <1>1, <1>2, PTL DEF Spec

(* Type correctness, and that a task which still runs has counted fewer     *)
(* failures than make it give up.                                           *)
THEOREM TypeCorrect == Spec => []TypeOK
<1>1. SirenInv => TypeOK
  BY DEF SirenInv, TypeOK, Fits, Counts
<1> QED BY <1>1, Inductive, PTL

(* However starts, stops, aborts, crashes of the player and wake-ups        *)
(* interleave, a task nobody told to stop is the one the next stop reaches. *)
THEOREM NeverTwoLoops == Spec => []OneLoop
<1>1. SirenInv => OneLoop
  <2> SUFFICES ASSUME SirenInv, NEW i \in Ids
               PROVE  Ended(siren[i]) \/ siren[i].stop \/ handle = i
    BY DEF OneLoop
  <2>1. Belongs(siren[i], i, handle, started) /\ i \in Nat /\ started \in Nat
    BY DEF SirenInv, Fits, Ids
  <2> QED BY <2>1 DEF Belongs, Ended, Absent
<1> QED BY <1>1, Inductive, PTL

(* A stopped siren starts at most the player it was about to start.         *)
THEOREM StopIsPrompt == Spec => []StopsSpawning
<1>1. SirenInv => StopsSpawning
  BY DEF SirenInv, Fits, Belongs, StopsSpawning
<1> QED BY <1>1, Inductive, PTL

(* The siren gives up after MaxFailures failures in a row and for no other  *)
(* reason, while nobody stops it.                                           *)
THEOREM GivesUpInTime == Spec => []GivesUp
<1>1. SirenInv => GivesUp
  BY DEF SirenInv, Fits, Counts, GivesUp
<1> QED BY <1>1, Inductive, PTL
=============================================================================
