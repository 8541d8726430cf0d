---------------------------- MODULE SessionWatch ----------------------------
(***************************************************************************)
(* How the daemon learns that the session was locked or unlocked           *)
(* (alertu-daemon/src/session.rs): a subscription to LockedHint over       *)
(* D-Bus, replaced when a new configuration names another session, and     *)
(* after any failure of the bus a poll of `loginctl` for the rest of the   *)
(* process.  Both put booleans on the channel the state machine reads.     *)
(*                                                                         *)
(* logind, the bus and the users of the sessions are external.             *)
(***************************************************************************)
EXTENDS Naturals, Sequences, FiniteSets

CONSTANTS
  None,        \* no value read yet; no session id resolved
  Sessions,    \* logind sessions
  BusMayDie,   \* the bus may go away while the daemon is subscribed
  MayMove,     \* a configuration may point the daemon at another session
  QueueCap,    \* room in the channel to the machine
  LagCap       \* bound: nobody locks or unlocks while this many signals and
               \* reports are outstanding

ASSUME WatchAssumption ==
  /\ Sessions # {}
  /\ None \notin Sessions /\ None \notin BOOLEAN
  /\ BusMayDie \in BOOLEAN /\ MayMove \in BOOLEAN
  /\ QueueCap \in Nat \ {0} /\ LagCap \in Nat \ {0}

VARIABLES
  hint,      \* LockedHint of each session
  id,        \* SessionCtl::id
  bus,       \* the system bus is up
  pc,        \* where the watcher is: subscribing, subscribed, polling, ...
  watched,   \* the session it subscribed to, or asked loginctl about
  signals,   \* property changes that wait in the subscription's stream
  last,      \* monitor's `last`
  answer,    \* what loginctl answered to the poll
  lockQ,     \* reports on the channel
  machine,   \* the state machine still holds the channel's receiving end
  told,      \* history: the last report
  changed,   \* history: sessions whose hint has changed
  upset      \* history: what has disturbed the watch, of {"bus", "moved"}

watcher == <<pc, watched, signals, last, answer>>
world   == <<hint, bus>>
history == <<told, changed, upset>>
vars    == <<id, watcher, world, lockQ, machine, history>>

Init ==
  /\ hint \in [Sessions -> BOOLEAN]
  /\ id \in Sessions \cup {None}
  /\ bus \in BOOLEAN
  /\ pc = "subscribing" /\ watched = None
  /\ signals = <<>> /\ last = None /\ answer = None
  /\ lockQ = <<>> /\ machine = TRUE
  /\ told = None /\ changed = {} /\ upset = {}

-----------------------------------------------------------------------------
(* The environment. *)

(* A session is locked or unlocked.  Only a live subscription hears of it.  *)
ChangeHint(s) ==
  /\ Len(signals) + Len(lockQ) < LagCap
  /\ hint' = [hint EXCEPT ![s] = ~@]
  /\ changed' = changed \cup {s}
  /\ signals' = IF pc = "subscribed" /\ bus /\ watched = s
                  THEN Append(signals, hint'[s]) ELSE signals
  /\ UNCHANGED <<id, bus, pc, watched, last, answer, lockQ, machine, told, upset>>

BusDies ==
  /\ BusMayDie /\ bus
  /\ bus' = FALSE
  /\ upset' = upset \cup {"bus"}
  /\ UNCHANGED <<id, watcher, hint, lockQ, machine, told, changed>>

(* SessionCtl::update_from, from SetConfig. *)
UpdateFrom(s) ==
  /\ MayMove /\ machine
  /\ s # id
  /\ id' = s
  /\ upset' = upset \cup {"moved"}
  /\ UNCHANGED <<watcher, world, lockQ, machine, told, changed>>

(* The machine takes the oldest report. *)
MachineReads ==
  /\ machine /\ lockQ # <<>>
  /\ lockQ' = Tail(lockQ)
  /\ UNCHANGED <<id, watcher, world, machine, history>>

(* The machine's task ends. *)
MachineEnds ==
  /\ machine
  /\ machine' = FALSE
  /\ lockQ' = <<>>
  /\ UNCHANGED <<id, watcher, world, history>>

-----------------------------------------------------------------------------
(* Form that does not wait for room. *)
ReportUnbounded(v) ==
  /\ machine
  /\ lockQ' = Append(lockQ, v)
  /\ told' = v
  /\ UNCHANGED <<changed, upset>>

(* `tx.send(v).await`: waits for room, fails once the machine is gone.      *)
Report(v) ==
  /\ machine /\ Len(lockQ) < QueueCap
  /\ lockQ' = Append(lockQ, v)
  /\ told' = v
  /\ UNCHANGED <<changed, upset>>

(* dbus_watch: the id is read once; the subscription follows some awaits    *)
(* later, and nothing that changed in between is read.                      *)
ReadId ==
  /\ pc = "subscribing" /\ watched = None
  /\ id # None
  /\ watched' = id
  /\ UNCHANGED <<id, pc, signals, last, answer, world, lockQ, machine, history>>

Subscribe ==
  /\ pc = "subscribing" /\ watched # None
  /\ bus
  /\ pc' = "subscribed"
  /\ UNCHANGED <<id, watched, signals, last, answer, world, lockQ, machine, history>>

(* monitor begins with nothing observed. *)
StartPolling == pc' = "sleeping" /\ watched' = None /\ last' = None

(* No session id; or one of the calls fails: there is no bus, or logind     *)
(* does not know the session.                                               *)
CannotSubscribe ==
  /\ pc = "subscribing"
  /\ watched # None \/ id = None
  /\ StartPolling
  /\ UNCHANGED <<id, signals, answer, world, lockQ, machine, history>>

(* Form that drops the change when the channel has no room. *)
ForwardSignalTry ==
  /\ pc = "subscribed" /\ signals # <<>>
  /\ signals' = Tail(signals)
  /\ \/ Report(Head(signals))
     \/ machine /\ Len(lockQ) = QueueCap /\ UNCHANGED <<lockQ, history>>
  /\ UNCHANGED <<id, pc, watched, last, answer, world, machine>>

ForwardSignal ==
  /\ pc = "subscribed" /\ signals # <<>>
  /\ signals' = Tail(signals)
  /\ Report(Head(signals))
  /\ UNCHANGED <<id, pc, watched, last, answer, world, machine>>

(* Stopped::MachineGone: there is nobody left to observe for. *)
NobodyListens ==
  /\ pc = "subscribed" /\ signals # <<>> /\ ~machine
  /\ pc' = "stopped" /\ watched' = None /\ signals' = <<>>
  /\ UNCHANGED <<id, last, answer, world, lockQ, machine, history>>

(* Form that never notices that the daemon moved to another session. *)
RecheckNever == pc = "subscribed" /\ id # watched /\ UNCHANGED vars

(* Stopped::SessionChanged: what still waits in the old stream goes with it.*)
Recheck ==
  /\ pc = "subscribed" /\ id # watched
  /\ pc' = "subscribing" /\ watched' = None /\ signals' = <<>>
  /\ UNCHANGED <<id, last, answer, world, lockQ, machine, history>>

(* Stopped::StreamEnded, after what was already received. *)
StreamEnds ==
  /\ pc = "subscribed" /\ ~bus /\ signals = <<>>
  /\ StartPolling
  /\ UNCHANGED <<id, signals, answer, world, lockQ, machine, history>>

-----------------------------------------------------------------------------
(* monitor: one round is sleep, ask loginctl, compare. *)

Ask ==
  /\ pc = "sleeping" /\ id # None
  /\ pc' = "asking" /\ watched' = id
  /\ UNCHANGED <<id, signals, last, answer, world, lockQ, machine, history>>

(* loginctl answers, or fails and the round ends. *)
Answered ==
  /\ pc = "asking"
  /\ watched' = watched
  /\ \/ pc' = "comparing" /\ answer' = hint[watched]
     \/ pc' = "sleeping" /\ answer' = None
  /\ UNCHANGED <<id, signals, last, world, lockQ, machine, history>>

(* Form that swallows every change as if it were the first observation.     *)
ObserveAll ==
  /\ pc = "comparing"
  /\ last' = answer /\ pc' = "sleeping" /\ answer' = None
  /\ UNCHANGED <<id, watched, signals, world, lockQ, machine, history>>

(* Nothing new, or the first observation: it is remembered, not reported.   *)
Observe ==
  /\ pc = "comparing"
  /\ last \in {None, answer}
  /\ last' = answer /\ pc' = "sleeping" /\ answer' = None
  /\ UNCHANGED <<id, watched, signals, world, lockQ, machine, history>>

(* Form that forgets to remember what it reported. *)
ReportChangeForgets ==
  /\ pc = "comparing"
  /\ last \notin {None, answer}
  /\ Report(answer)
  /\ pc' = "sleeping" /\ answer' = None
  /\ UNCHANGED <<id, watched, signals, last, world, machine>>

(* Form that reports its first observation as if it were a change. *)
ReportChangeFirst ==
  /\ pc = "comparing"
  /\ last # answer
  /\ Report(answer)
  /\ last' = answer /\ pc' = "sleeping" /\ answer' = None
  /\ UNCHANGED <<id, watched, signals, world, machine>>

ReportChange ==
  /\ pc = "comparing"
  /\ last \notin {None, answer}
  /\ Report(answer)
  /\ last' = answer /\ pc' = "sleeping" /\ answer' = None
  /\ UNCHANGED <<id, watched, signals, world, machine>>

(* The send fails and monitor returns. *)
StopPolling ==
  /\ pc = "comparing" /\ ~machine
  /\ last \notin {None, answer}
  /\ pc' = "stopped" /\ answer' = None
  /\ UNCHANGED <<id, watched, signals, last, world, lockQ, machine, history>>

-----------------------------------------------------------------------------
WatchStep == ReadId \/ Subscribe \/ CannotSubscribe \/ ForwardSignal \/
             NobodyListens \/ Recheck \/ StreamEnds \/ Ask \/ Answered \/
             Observe \/ ReportChange \/ StopPolling

Next ==
  \/ WatchStep
  \/ MachineReads \/ MachineEnds \/ BusDies
  \/ \E s \in Sessions : ChangeHint(s)
  \/ \E s \in Sessions \cup {None} : UpdateFrom(s)

Spec == Init /\ [][Next]_vars

(* The watcher's task is scheduled, its recheck timer fires although the    *)
(* stream may be ready too, loginctl does not fail for ever, and a live     *)
(* machine drains its channel.                                              *)
Fairness ==
  /\ WF_vars(WatchStep)
  /\ SF_vars(Recheck)
  /\ SF_vars(Answered /\ pc' = "comparing")
  /\ WF_vars(MachineReads)

FairSpec == Spec /\ Fairness

-----------------------------------------------------------------------------
Value == BOOLEAN \cup {None}

(* Every variable has a value the code could hold; the channel keeps to its *)
(* capacity.                                                                *)
TypeOK ==
  /\ hint \in [Sessions -> BOOLEAN] /\ bus \in BOOLEAN /\ machine \in BOOLEAN
  /\ id \in Sessions \cup {None} /\ watched \in Sessions \cup {None}
  /\ pc \in {"subscribing", "subscribed", "sleeping", "asking", "comparing", "stopped"}
  /\ signals \in Seq(BOOLEAN)
  /\ lockQ \in Seq(BOOLEAN) /\ Len(lockQ) <= QueueCap
  /\ last \in Value /\ answer \in Value /\ told \in Value
  /\ changed \subseteq Sessions /\ upset \subseteq {"bus", "moved"}

(* The watch has caught up with the session it is to watch. *)
AtRest ==
  /\ id # None /\ machine
  /\ \/ pc = "subscribed" /\ bus /\ watched = id /\ signals = <<>>
     \/ pc = "sleeping" /\ last = hint[id]

Informed == AtRest => told \in {None, hint[id]}

(* A watch that nothing disturbed, D-Bus or polling, never rests on a       *)
(* report that is out of date: no order of changes, sends and polls loses   *)
(* the last one.                                                            *)
InformedWhenSteady == upset = {} => Informed

(* The same after any failure of the bus, which "falls back to the poll     *)
(* loop rather than leaving the daemon blind", session.rs:196.              *)
InformedAfterFallback == upset \subseteq {"bus"} => Informed

Reports == Len(lockQ') > Len(lockQ)

(* An undisturbed watch never reports the same value twice in a row: a      *)
(* repeated unlock would disarm a guard armed in between.                   *)
NoRepeats == [][Reports /\ upset = {} => told' # told]_vars

(* An unlock is reported only of a session that was unlocked: "the machine  *)
(* only reacts to genuine transitions (e.g. a password unlock while         *)
(* armed)", session.rs:144.                                                 *)
GenuineReports == [][Reports /\ ~told' => watched \in changed]_vars

(* The same, of locks too, as long as the daemon is not pointed at another  *)
(* session.                                                                 *)
GenuineWhenNotMoved == [][Reports /\ "moved" \notin upset => watched \in changed]_vars

(* After a reconfiguration the watch follows to the new session.            *)
FollowsSession ==
  \A s \in Sessions : id = s ~> watched = s \/ id # s \/ pc = "stopped"

(* A session that stays unlocked after its lock was reported is reported    *)
(* unlocked.                                                                *)
UnlockReported ==
  \A s \in Sessions :
    (id = s /\ told = TRUE /\ ~hint[s])
      ~> (told = FALSE \/ hint[s] \/ upset # {} \/ ~machine)

-----------------------------------------------------------------------------
(* The promise of module LockReports.  What the watch has yet to report is  *)
(* what waits in the stream or, of a poll, how the answer it holds differs  *)
(* from the last value it remembers, and the session from both.             *)

Mode ==
  IF ~machine THEN "gone"
  ELSE IF pc = "subscribed" THEN "subscribed"
  ELSE IF last # None \/ answer # None THEN "polled" ELSE "blind"

Locked == IF id \in Sessions THEN hint[id] ELSE FALSE

(* The report a poll makes of value v if it remembers u. *)
Differs(u, v) == IF u = None \/ v = u THEN <<>> ELSE <<v>>

Unreported ==
  IF pc = "subscribed" THEN signals
  ELSE IF answer = None THEN Differs(last, Locked)
  ELSE Differs(last, answer) \o Differs(answer, Locked)

Line == IF machine THEN lockQ \o Unreported ELSE <<>>

Trust ==
  IF "moved" \in upset THEN "none" ELSE IF upset = {} THEN "whole" ELSE "gaps"

Promised == INSTANCE LockReports WITH
  locked <- Locked, mode <- Mode, line <- Line, trust <- Trust

(* The watch keeps the promise of module LockReports: nothing it has seen   *)
(* is lost, repeated, made up or put out of order on its way to the         *)
(* machine, by D-Bus or by polling, whatever waits for room in the channel, *)
(* and a failure of the bus costs it only what changes until it has begun   *)
(* to poll.                                                                 *)
KeepsReports == Promised!RSpec
=============================================================================
