------------------------------ MODULE Machine ------------------------------
(***************************************************************************)
(* The state machine of the alertU daemon (alertu-daemon/src/machine.rs):  *)
(* one task that selects among watched-device signals, lock-state changes, *)
(* client commands and its own timers, runs the chosen event through       *)
(* `decide` (module Transitions) and carries out the effects one by one.   *)
(* Effects take time: while `loginctl` runs, signals queue up, the clock   *)
(* moves on, the screen locker acts and the process may die.               *)
(*                                                                         *)
(* Timers hold the ticks left before their instant instead of the instant, *)
(* so `now >= deadline` is `= 0`.                                          *)
(*                                                                         *)
(* The session manager and the screen locker are external: `loginctl` only *)
(* queues a request, the locker serves requests in order, and each change  *)
(* of LockedHint is reported to the daemon in order.                       *)
(***************************************************************************)
EXTENDS Naturals, Sequences, Transitions

CONSTANTS
  None,             \* Option::None
  Configs,          \* configurations a client may set
  WarningInterval,  \* ticks between two warnings
  Signals,          \* signals the device readers of this model send
  Ops,              \* commands the clients of this model send
  QueueCap,         \* bound on the signal and command channels
  HintCap           \* bound: nobody acts while the locker and its reports lag
                    \* this far behind

Op == {"Toggle", "Arm", "Disarm", "Rescan", "SetConfig", "Read"}

ASSUME MachineAssumption ==
  /\ Configs # {} /\ Configs \subseteq [grace : Nat, delay : Nat]
  /\ None \notin Configs /\ None \notin Nat /\ None \notin Event
  /\ WarningInterval \in Nat \ {0}
  /\ Signals \subseteq {"RemoteToggle", "Activity"}
  /\ Ops \subseteq Op
  /\ QueueCap \in Nat \ {0} /\ HintCap \in Nat \ {0}

VARIABLES
  state,          \* Machine::state
  published,      \* last value sent on the watch channel the clients read
  pc,             \* where the task is: selecting, or inside a handler
  event,          \* the event whose transition is being carried out
  done,           \* number of its effects already performed
  graceUntil, alarmDeadline, nextWarning,
  siren,          \* the sound player holds a siren task
  sigQ, lockQ, ctrlQ,
  cfg,            \* Machine::cfg
  setting,        \* the configuration apply_config is putting in place
  disk,           \* the configuration file
  readersCfg,     \* configuration the device readers were spawned from
  locked,         \* LockedHint of the session
  requests,       \* lock and unlock requests the locker has not served
  warnings,       \* history: warnings played in this countdown
  countdown,      \* history: length of this countdown
  unlockSeen,     \* history: the session was unlocked since the guard is active
  leftOpen        \* history: the lock the present watch began with did not get
                  \* through, and the session has been open ever since

timers  == <<graceUntil, alarmDeadline, nextWarning>>
queues  == <<sigQ, lockQ, ctrlQ>>
configs == <<cfg, setting, disk, readersCfg>>
desktop == <<locked, requests>>
history == <<warnings, countdown, unlockSeen, leftOpen>>
control == <<state, published, pc, event, done>>
vars == <<control, timers, siren, queues, configs, desktop, history>>

ControlMsg == {[op |-> o, cfg |-> None] : o \in Ops \ {"SetConfig"}} \cup
              {[op |-> o, cfg |-> c] : o \in Ops \cap {"SetConfig"}, c \in Configs}

Has(q, x) == \E i \in DOMAIN q : q[i] = x

(* One tick off a pending timer; an expired one stays expired. *)
Elapse(t) == IF t \in {None, 0} THEN t ELSE t - 1

Due(t) == t = 0

Boot(c) ==
  /\ state = "Idle" /\ published = "Idle"
  /\ pc = "select" /\ event = None /\ done = 0
  /\ graceUntil = None /\ alarmDeadline = None /\ nextWarning = None
  /\ siren = FALSE
  /\ sigQ = <<>> /\ lockQ = <<>> /\ ctrlQ = <<>>
  /\ cfg = c /\ setting = None /\ disk = c /\ readersCfg = c
  /\ warnings = 0 /\ countdown = 0 /\ unlockSeen = FALSE /\ leftOpen = FALSE

Init ==
  /\ \E c \in Configs : Boot(c)
  /\ locked \in BOOLEAN
  /\ requests = <<>>

-----------------------------------------------------------------------------
(* The environment: readers, clients, the user at the keyboard, the locker. *)

(* Bound: the user and the clients wait while this many lock requests and   *)
(* reports are outstanding.                                                 *)
KeepsUp == Len(lockQ) + Len(requests) < HintCap

SendSignal(sig) ==
  /\ KeepsUp /\ Len(sigQ) < QueueCap
  /\ sigQ' = Append(sigQ, sig)
  /\ UNCHANGED <<control, timers, siren, lockQ, ctrlQ, configs, desktop, history>>

SendControl(msg) ==
  /\ KeepsUp /\ Len(ctrlQ) < QueueCap
  /\ ctrlQ' = Append(ctrlQ, msg)
  /\ UNCHANGED <<control, timers, siren, sigQ, lockQ, configs, desktop, history>>

(* LockedHint takes value v; only a change is reported. *)
SetHint(v) ==
  /\ locked' = v
  /\ lockQ' = IF v = locked THEN lockQ ELSE Append(lockQ, v)
  /\ unlockSeen' = (unlockSeen \/ (locked /\ ~v /\ IsActive(state)))
  /\ leftOpen' = (leftOpen /\ ~v)
  /\ UNCHANGED <<control, timers, siren, sigQ, ctrlQ, configs, warnings, countdown>>

(* The locker serves the oldest request. *)
ServeRequest ==
  /\ requests # <<>>
  /\ SetHint(Head(requests) = "lock")
  /\ requests' = Tail(requests)

(* The user locks the session, or unlocks it with the password. *)
UserSetsLock(v) ==
  /\ KeepsUp /\ v # locked
  /\ SetHint(v)
  /\ UNCHANGED requests

(* One tick; only pending timers make it visible. *)
Tick ==
  /\ \E t \in {graceUntil, alarmDeadline, nextWarning} : t \notin {None, 0}
  /\ graceUntil' = Elapse(graceUntil)
  /\ alarmDeadline' = Elapse(alarmDeadline)
  /\ nextWarning' = Elapse(nextWarning)
  /\ UNCHANGED <<control, siren, queues, configs, desktop, history>>

-----------------------------------------------------------------------------
(* Machine::apply: enter a transition, or return if `decide` has none. *)

Apply(e) ==
  \/ /\ Decides(state, e)
     /\ pc' = "effects" /\ event' = e /\ done' = 0
     /\ UNCHANGED <<state, published>>
  \/ /\ ~Decides(state, e)
     /\ UNCHANGED control

(* Form without the grace period. *)
CountsAsIntrusionAnyTime == state = "Armed"

(* An Activity signal counts only while armed, and past the grace period as *)
(* it stands when the signal is handled.                                    *)
CountsAsIntrusion == state = "Armed" /\ (graceUntil = None \/ Due(graceUntil))

OnInput ==
  /\ pc = "select"
  /\ sigQ # <<>>
  /\ sigQ' = Tail(sigQ)
  /\ \/ Head(sigQ) = "RemoteToggle" /\ Apply("Toggle")
     \/ Head(sigQ) = "Activity" /\ CountsAsIntrusion /\ Apply("Intrusion")
     \/ Head(sigQ) = "Activity" /\ ~CountsAsIntrusion /\ UNCHANGED control
  /\ UNCHANGED <<timers, siren, lockQ, ctrlQ, configs, desktop, history>>

(* Form that notices an unlock only before the guard has tripped. *)
OnLockArmedOnly ==
  /\ pc = "select"
  /\ lockQ # <<>>
  /\ lockQ' = Tail(lockQ)
  /\ \/ ~Head(lockQ) /\ state = "Armed" /\ Apply("SessionUnlocked")
     \/ (Head(lockQ) \/ state # "Armed") /\ UNCHANGED control
  /\ UNCHANGED <<timers, siren, sigQ, ctrlQ, configs, desktop, history>>

(* Only an unlock matters, and only while the alarm is engaged. *)
OnLock ==
  /\ pc = "select"
  /\ lockQ # <<>>
  /\ lockQ' = Tail(lockQ)
  /\ \/ ~Head(lockQ) /\ IsActive(state) /\ Apply("SessionUnlocked")
     \/ (Head(lockQ) \/ ~IsActive(state)) /\ UNCHANGED control
  /\ UNCHANGED <<timers, siren, sigQ, ctrlQ, configs, desktop, history>>

Receive(o) ==
  /\ pc = "select"
  /\ ctrlQ # <<>>
  /\ Head(ctrlQ).op = o
  /\ ctrlQ' = Tail(ctrlQ)
  /\ UNCHANGED <<timers, siren, sigQ, lockQ, desktop, history>>

OnToggle == Receive("Toggle") /\ Apply("Toggle")      /\ UNCHANGED configs
OnArm    == Receive("Arm")    /\ Apply("ForceArm")    /\ UNCHANGED configs

(* Form in which a disarm no longer reaches a guard that is sounding. *)
OnDisarmBeforeAlarm ==
  /\ Receive("Disarm")
  /\ \/ state # "Alarm" /\ Apply("ForceDisarm")
     \/ state = "Alarm" /\ UNCHANGED control
  /\ UNCHANGED configs

OnDisarm == Receive("Disarm") /\ Apply("ForceDisarm") /\ UNCHANGED configs

(* Hotplug: the readers are respawned from the current configuration. *)
OnRescan ==
  /\ Receive("Rescan")
  /\ readersCfg' = cfg
  /\ UNCHANGED <<control, cfg, setting, disk>>

(* GetConfig, TestSound and LearnRemote answer, play or start a detached    *)
(* task; none of them changes the machine.                                  *)
OnRead == Receive("Read") /\ UNCHANGED <<control, configs>>

(* Form that puts the configuration in force before trying to save it. *)
OnSetConfigRefusedLate ==
  /\ Receive("SetConfig")
  /\ cfg' = Head(ctrlQ).cfg
  /\ UNCHANGED <<control, setting, disk, readersCfg>>

(* apply_config, refused: the configuration is invalid or was not saved. *)
OnSetConfigRefused ==
  /\ Receive("SetConfig")
  /\ UNCHANGED <<control, configs>>

(* apply_config: validated and saved, not yet in force. *)
OnSetConfig ==
  /\ Receive("SetConfig")
  /\ disk' = Head(ctrlQ).cfg
  /\ setting' = Head(ctrlQ).cfg
  /\ pc' = "saved"
  /\ UNCHANGED <<state, published, event, done, cfg, readersCfg>>

AdoptConfig ==
  /\ pc = "saved"
  /\ cfg' = setting
  /\ pc' = "adopted"
  /\ UNCHANGED <<state, published, event, done, setting, disk, readersCfg>>
  /\ UNCHANGED <<timers, siren, queues, desktop, history>>

(* The session id was looked up again, the player re-detected; last, the    *)
(* readers are respawned.                                                   *)
FinishConfig ==
  /\ pc = "adopted"
  /\ readersCfg' = cfg
  /\ setting' = None
  /\ pc' = "select"
  /\ UNCHANGED <<state, published, event, done, cfg, disk>>
  /\ UNCHANGED <<timers, siren, queues, desktop, history>>

(* Form that leaves a warning due after playing it. *)
RescheduleNever(t) == t

(* A warning that was due is put off by one interval. *)
Reschedule(t) == IF Due(t) THEN WarningInterval ELSE t

(* The timer branch: a warning that is due plays and is rescheduled, and    *)
(* then, in the same call, a countdown that is over raises the alarm.  The  *)
(* guard on `state` is the handler's early return.                          *)
OnTimer ==
  /\ pc = "select"
  /\ Due(alarmDeadline) \/ Due(nextWarning)
  /\ state = "Triggered"
  /\ nextWarning' = Reschedule(nextWarning)
  /\ warnings' = IF Due(nextWarning) THEN warnings + 1 ELSE warnings
  /\ \/ Due(alarmDeadline) /\ Apply("CountdownElapsed")
     \/ ~Due(alarmDeadline) /\ UNCHANGED control
  /\ UNCHANGED <<graceUntil, alarmDeadline, siren, queues, configs, desktop,
                 countdown, unlockSeen, leftOpen>>

-----------------------------------------------------------------------------
(* run_effect: one effect of the transition in progress. *)

Pending == Effects(state, event)

(* The effects carried out so far. *)
Performed == IF pc = "effects" THEN {Pending[i] : i \in 1..done} ELSE {}

Perform(eff) ==
  /\ pc = "effects"
  /\ done < Len(Pending)
  /\ Pending[done + 1] = eff
  /\ done' = done + 1
  /\ UNCHANGED <<state, published, pc, event>>
  /\ UNCHANGED <<queues, configs, locked, unlockSeen>>

(* SessionCtl::run: every failure of loginctl is logged and forgotten. *)
Loginctl(request) ==
  requests' \in {requests, Append(requests, request)}

LockSession ==
  /\ Perform("LockSession")
  /\ Loginctl("lock")
  /\ leftOpen' = (~locked /\ requests' = requests)
  /\ UNCHANGED <<timers, siren, warnings, countdown>>

UnlockSession ==
  /\ Perform("UnlockSession")
  /\ Loginctl("unlock")
  /\ UNCHANGED <<timers, siren, warnings, countdown, leftOpen>>

(* Fire-and-forget effects: the chirp, the picture, the webhook. *)
Detached ==
  /\ \E eff \in {"PlayBeep", "Snapshot", "Webhook"} : Perform(eff)
  /\ UNCHANGED <<requests, timers, siren, warnings, countdown, leftOpen>>

(* No siren task is started without a player or a siren file. *)
StartSiren ==
  /\ Perform("StartSiren")
  /\ siren' \in BOOLEAN
  /\ UNCHANGED <<requests, timers, warnings, countdown, leftOpen>>

StopSiren ==
  /\ Perform("StopSiren")
  /\ siren' = FALSE
  /\ UNCHANGED <<requests, timers, warnings, countdown, leftOpen>>

StartGrace ==
  /\ Perform("StartGrace")
  /\ graceUntil' = cfg.grace
  /\ UNCHANGED <<requests, alarmDeadline, nextWarning, siren, warnings, countdown,
                 leftOpen>>

(* Form that takes a pending grace timer for a countdown already running.   *)
StartCountdownOnce ==
  /\ Perform("StartCountdown")
  /\ alarmDeadline' = IF graceUntil = None THEN cfg.delay ELSE alarmDeadline
  /\ nextWarning' = IF graceUntil = None THEN 0 ELSE nextWarning
  /\ warnings' = 0
  /\ countdown' = cfg.delay
  /\ UNCHANGED <<requests, graceUntil, siren, leftOpen>>

(* Form that warns once, an interval before the end. *)
StartCountdownLateWarning ==
  /\ Perform("StartCountdown")
  /\ alarmDeadline' = cfg.delay
  /\ nextWarning' = cfg.delay - WarningInterval
  /\ warnings' = 0
  /\ countdown' = cfg.delay
  /\ UNCHANGED <<requests, graceUntil, siren, leftOpen>>

StartCountdown ==
  /\ Perform("StartCountdown")
  /\ alarmDeadline' = cfg.delay
  /\ nextWarning' = 0
  /\ warnings' = 0
  /\ countdown' = cfg.delay
  /\ UNCHANGED <<requests, graceUntil, siren, leftOpen>>

ClearTimers ==
  /\ Perform("ClearTimers")
  /\ graceUntil' = None
  /\ alarmDeadline' = None
  /\ nextWarning' = None
  /\ UNCHANGED <<requests, siren, warnings, countdown, leftOpen>>

(* set_state: the new state is committed and published. *)
Commit ==
  /\ pc = "effects"
  /\ done = Len(Pending)
  /\ state' = NextState(state, event)
  /\ published' = NextState(state, event)
  /\ pc' = "select" /\ event' = None /\ done' = 0
  /\ unlockSeen' = (unlockSeen /\ IsActive(state) /\ IsActive(state'))
  /\ leftOpen' = (leftOpen /\ IsActive(state'))
  /\ UNCHANGED <<timers, siren, queues, configs, desktop, warnings, countdown>>

(* The process dies and systemd starts a new one: everything but the file,  *)
(* the session and the locker's own queue is gone, child players included.  *)
Restart ==
  /\ state' = "Idle" /\ published' = "Idle"
  /\ pc' = "select" /\ event' = None /\ done' = 0
  /\ graceUntil' = None /\ alarmDeadline' = None /\ nextWarning' = None
  /\ siren' = FALSE
  /\ sigQ' = <<>> /\ lockQ' = <<>> /\ ctrlQ' = <<>>
  /\ cfg' = disk /\ setting' = None /\ disk' = disk /\ readersCfg' = disk
  /\ warnings' = 0 /\ countdown' = 0 /\ unlockSeen' = FALSE /\ leftOpen' = FALSE
  /\ UNCHANGED desktop

-----------------------------------------------------------------------------
ControlStep == OnToggle \/ OnArm \/ OnDisarm \/ OnRescan \/ OnRead \/
               OnSetConfigRefused \/ OnSetConfig

HandlerStep == AdoptConfig \/ FinishConfig \/ LockSession \/ UnlockSession \/
               Detached \/ StartSiren \/ StopSiren \/ StartGrace \/
               StartCountdown \/ ClearTimers \/ Commit

MachineStep == OnInput \/ OnLock \/ ControlStep \/ OnTimer \/ HandlerStep

Environment == \/ \E sig \in Signals : SendSignal(sig)
               \/ \E msg \in ControlMsg : SendControl(msg)
               \/ \E v \in BOOLEAN : UserSetsLock(v)
               \/ ServeRequest
               \/ Tick

Next == MachineStep \/ Environment \/ Restart

(* A handler runs to its end.  tokio's `select!` polls its branches in      *)
(* random order, so a branch that is ready again and again is taken: strong *)
(* fairness for each.  Time passes and the locker answers; users, clients   *)
(* and crashes owe nothing.                                                 *)
Fairness ==
  /\ WF_vars(HandlerStep)
  /\ SF_vars(OnInput) /\ SF_vars(OnLock)
  /\ SF_vars(ControlStep) /\ SF_vars(OnTimer)
  /\ WF_vars(Tick) /\ WF_vars(ServeRequest)

Spec == Init /\ [][Next]_vars

FairSpec == Spec /\ Fairness

-----------------------------------------------------------------------------
Ticks == Nat \cup {None}

(* Every variable has a value the code could hold. *)
TypeOK ==
  /\ state \in GuardState /\ published \in GuardState
  /\ pc \in {"select", "effects", "saved", "adopted"}
  /\ event \in Event \cup {None} /\ done \in 0..4
  /\ graceUntil \in Ticks /\ alarmDeadline \in Ticks /\ nextWarning \in Ticks
  /\ siren \in BOOLEAN
  /\ sigQ \in Seq(Signals) /\ lockQ \in Seq(BOOLEAN) /\ ctrlQ \in Seq(ControlMsg)
  /\ cfg \in Configs /\ setting \in Configs \cup {None}
  /\ disk \in Configs /\ readersCfg \in Configs
  /\ locked \in BOOLEAN /\ requests \in Seq({"lock", "unlock"})
  /\ warnings \in Nat /\ countdown \in Nat
  /\ unlockSeen \in BOOLEAN /\ leftOpen \in BOOLEAN

(* Between two handlers the timers that are set are exactly those of the    *)
(* state: the grace period from arming on, the countdown and its warning    *)
(* while triggered, nothing when idle or when the siren is on.  A leftover  *)
(* timer would wake the loop for ever or cut the next grace period.         *)
TimersMatchState ==
  pc = "select" =>
    /\ (graceUntil # None)    <=> (state \in {"Armed", "Triggered"})
    /\ (alarmDeadline # None) <=> (state = "Triggered")
    /\ (nextWarning # None)   <=> (state = "Triggered")

(* A siren task exists only in the alarm, and while a disarm is silencing   *)
(* it; no interleaving of disarm, unlock, toggle and expiry leaves one      *)
(* behind in an idle or re-armed guard.                                     *)
SirenOnlyInAlarm ==
  siren => \/ state = "Alarm"
           \/ pc = "effects" /\ event = "CountdownElapsed"

(* The siren never sounds unannounced: its countdown played one warning at  *)
(* least, no more than one per interval begun, and at most one more when    *)
(* the end of the countdown is handled late.                                *)
WarningsPaced ==
  siren => warnings \in 1..((countdown + WarningInterval - 1) \div WarningInterval + 1)

(* Whatever was refused, saved or interrupted, between two handlers the     *)
(* configuration in force is the one on disk and the one the readers were   *)
(* spawned from, and clients have been told the state.                      *)
SettledWhenSelecting ==
  pc = "select" => cfg = disk /\ readersCfg = cfg /\ published = state

(* An unlock disarms only a guard during whose watch the session was        *)
(* unlocked: "the machine only reacts to genuine transitions (e.g. a        *)
(* password unlock while armed)", session.rs:144.                           *)
UnlockIsGenuine ==
  [][pc = "select" /\ event' = "SessionUnlocked" => unlockSeen]_vars

(* An engaged guard over an unlocked session is about to notice (an unlock  *)
(* is on its way to it) or about to be locked (its request is), unless the  *)
(* very lock it began with did not get through and the session has been     *)
(* open since: no other failure, and no order of locks, unlocks, disarms    *)
(* and alarms, leaves the session open and armed.  This speaks of a watch   *)
(* that is subscribed; a poll may miss a lock and its unlock (LockReports). *)
ArmedMeansLocked ==
  pc = "select" /\ IsActive(state) /\ ~locked =>
    Has(lockQ, FALSE) \/ Has(requests, "lock") \/ leftOpen

-----------------------------------------------------------------------------
(* The inductive invariant behind the four properties above.  Inside a      *)
(* handler the timers, the siren and the session already belong to the next *)
(* state once the effect that concerns them has been carried out.           *)

StateAfter(effects) ==
  IF Performed \cap effects # {} THEN NextState(state, event) ELSE state

HandlerShape ==
  IF pc = "effects"
    THEN event \in Event /\ Decides(state, event) /\ done <= Len(Pending)
    ELSE event = None /\ done = 0

TimersFit ==
  LET s == StateAfter({"StartGrace", "StartCountdown", "ClearTimers"})
  IN  /\ (graceUntil # None)    <=> (s \in {"Armed", "Triggered"})
      /\ (alarmDeadline # None) <=> (s = "Triggered")
      /\ (nextWarning # None)   <=> (s = "Triggered")

SirenFits == siren => StateAfter({"StartSiren", "StopSiren"}) = "Alarm"

(* The guard watches over the session: it is engaged and stays so, or it is *)
(* being armed and has asked for the lock.                                  *)
Guarding ==
  IF pc = "effects" /\ ~IsActive(state) THEN "LockSession" \in Performed
  ELSE IsActive(state) /\ (pc = "effects" => IsActive(NextState(state, event)))

LockFits ==
  Guarding /\ ~locked => Has(lockQ, FALSE) \/ Has(requests, "lock") \/ leftOpen

ConfigsFit ==
  /\ pc \in {"select", "effects"} => cfg = disk /\ readersCfg = cfg
  /\ pc \in {"saved", "adopted"} => setting = disk
  /\ pc = "adopted" => cfg = setting
  /\ published = state

IInv == TypeOK /\ HandlerShape /\ TimersFit /\ SirenFits /\ LockFits /\ ConfigsFit

-----------------------------------------------------------------------------
(* The abstract guard, read off the machine: a transition counts from the   *)
(* effect that makes it felt.                                               *)
Decisive == {"StartGrace", "StartCountdown", "StartSiren", "StopSiren"}

FeltState == StateAfter(Decisive)

Promise == INSTANCE Guard WITH
  GraceChoices <- {c.grace : c \in Configs},
  DelayChoices <- {c.delay : c \in Configs},
  guard     <- FeltState,
  graceLeft <- IF FeltState = "Armed" /\ graceUntil # None THEN graceUntil ELSE 0,
  delayLeft <- IF FeltState = "Triggered" /\ alarmDeadline # None
                 THEN alarmDeadline ELSE 0,
  sounding  <- siren

(* The daemon keeps the promise of module Guard: no trip inside the grace   *)
(* period, no siren before the end of the countdown, everything put back by *)
(* a disarm, and a tripped guard left alone does sound.                     *)
KeepsPromise == Promise!GSpec

(* A countdown ends: the guard is disarmed or the alarm is raised, whatever *)
(* commands, signals and reconfigurations compete with the timer.           *)
CountdownEnds == state = "Triggered" ~> state \in {"Idle", "Alarm"}

(* A disarm that reached the command channel takes effect, even if the      *)
(* alarm goes off first.                                                    *)
DisarmHonoured ==
  (\E i \in DOMAIN ctrlQ : ctrlQ[i].op = "Disarm") ~> state = "Idle"

(* A password unlock reported while the guard is engaged disarms it.        *)
UnlockHonoured ==
  (IsActive(state) /\ Has(lockQ, FALSE)) ~> state = "Idle"
=============================================================================
