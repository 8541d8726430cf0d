--------------------------- MODULE PromiseProofs ----------------------------
(***************************************************************************)
(* That the state machine keeps the promise of module Guard step by step,  *)
(* and that no siren sounds unannounced, for every set of configurations   *)
(* and every warning interval.                                             *)
(***************************************************************************)
EXTENDS MachineProofs

USE MachineAssumption

-----------------------------------------------------------------------------
(* Which state each transition leaves.                                      *)
LEMMA EventOf ==
  ASSUME NEW s \in GuardState, NEW e \in Event, Decides(s, e)
  PROVE  /\ e = "Intrusion" => s = "Armed" /\ NextState(s, e) = "Triggered"
         /\ e = "CountdownElapsed" => s = "Triggered" /\ NextState(s, e) = "Alarm"
         /\ NextState(s, e) = "Triggered" => e = "Intrusion"
         /\ NextState(s, e) = "Alarm" => e = "CountdownElapsed"
BY DEF Decides, NextState, IsActive, GuardState, Event

(* What has been performed of a transition when one of its effects comes up.*)
LEMMA Progress ==
  ASSUME TypeOK, HandlerShape, NEW eff, Perform(eff)
  PROVE  /\ eff \in {"StartGrace", "StartCountdown", "StartSiren", "StopSiren"}
              => Performed \cap Decisive = {}
         /\ eff = "ClearTimers" /\ NextState(state, event) = "Idle"
              => "StopSiren" \in Performed
         /\ eff = "ClearTimers" /\ NextState(state, event) = "Alarm"
              => Performed = {}
<1>1. /\ event \in Event /\ Decides(state, event) /\ state \in GuardState
      /\ pc = "effects" /\ done \in 0..4 /\ done < Len(Pending) /\ Pending[done + 1] = eff
  BY PerformShape DEF TypeOK, Perform
<1>2. Performed = {Pending[i] : i \in 1..done}
  BY <1>1 DEF Performed
<1>3. /\ 1..0 = {} /\ 1..1 = {1} /\ 1..2 = {1, 2} /\ 1..3 = {1, 2, 3}
  OBVIOUS
<1>4. done = 0 \/ done = 1 \/ done = 2 \/ done = 3 \/ done = 4
  BY <1>1
<1>5. CASE Pending = <<"LockSession", "PlayBeep", "StartGrace">>
  <2>1. NextState(state, event) = "Armed"
    BY <1>1, <1>5, DecideCases DEF Pending
  <2>2. eff = "StartGrace" => done = 2
    BY <1>1, <1>4, <1>5
  <2>3. done = 2 => Performed = {"LockSession", "PlayBeep"}
    BY <1>2, <1>3, <1>5
  <2>4. eff \in {"LockSession", "PlayBeep", "StartGrace"}
    BY <1>1, <1>4, <1>5
  <2> QED BY <2>1, <2>2, <2>3, <2>4 DEF Decisive
<1>6. CASE Pending = <<"StartCountdown">>
  <2>1. NextState(state, event) = "Triggered"
    BY <1>1, <1>6, DecideCases DEF Pending
  <2>2. done = 0
    BY <1>1, <1>4, <1>6
  <2> QED BY <1>2, <1>3, <2>1, <2>2
<1>7. CASE Pending = <<"ClearTimers", "StartSiren", "Snapshot", "Webhook">>
  <2>1. NextState(state, event) = "Alarm"
    BY <1>1, <1>7, DecideCases DEF Pending
  <2>2. (eff = "ClearTimers" => done = 0) /\ (eff = "StartSiren" => done = 1)
    BY <1>1, <1>4, <1>7
  <2>3. (done = 0 => Performed = {}) /\ (done = 1 => Performed = {"ClearTimers"})
    BY <1>2, <1>3, <1>7
  <2>4. eff \in {"ClearTimers", "StartSiren", "Snapshot", "Webhook"}
    BY <1>1, <1>4, <1>7
  <2> QED BY <2>1, <2>2, <2>3, <2>4 DEF Decisive
<1>8. CASE Pending = <<"StopSiren", "ClearTimers", "PlayBeep">>
  <2>1. NextState(state, event) = "Idle"
    BY <1>1, <1>8, DecideCases DEF Pending
  <2>2. (eff = "StopSiren" => done = 0) /\ (eff = "ClearTimers" => done = 1)
    BY <1>1, <1>4, <1>8
  <2>3. (done = 0 => Performed = {}) /\ (done = 1 => Performed = {"StopSiren"})
    BY <1>2, <1>3, <1>8
  <2>4. eff \in {"StopSiren", "ClearTimers", "PlayBeep"}
    BY <1>1, <1>4, <1>8
  <2> QED BY <2>1, <2>2, <2>3, <2>4 DEF Decisive
<1>9. CASE Pending = <<"UnlockSession", "StopSiren", "ClearTimers", "PlayBeep">>
  <2>1. NextState(state, event) = "Idle"
    BY <1>1, <1>9, DecideCases DEF Pending
  <2>2. (eff = "StopSiren" => done = 1) /\ (eff = "ClearTimers" => done = 2)
    BY <1>1, <1>4, <1>9
  <2>3. /\ done = 1 => Performed = {"UnlockSession"}
        /\ done = 2 => Performed = {"UnlockSession", "StopSiren"}
    BY <1>2, <1>3, <1>9
  <2>4. eff \in {"UnlockSession", "StopSiren", "ClearTimers", "PlayBeep"}
    BY <1>1, <1>4, <1>9
  <2> QED BY <2>1, <2>2, <2>3, <2>4 DEF Decisive
<1> QED BY <1>1, <1>5, <1>6, <1>7, <1>8, <1>9, DecideCases DEF Pending

-----------------------------------------------------------------------------
(* A trip is under way only past the grace period, an alarm only past the   *)
(* countdown: what the select loop checked still holds while the handler    *)
(* runs.                                                                    *)
DueFits ==
  pc = "effects" =>
    /\ event = "Intrusion" => graceUntil \in {None, 0}
    /\ event = "CountdownElapsed" => alarmDeadline \in {None, 0}

(* Steps that neither start a timer nor enter a transition.                 *)
LEMMA DueKept ==
  ASSUME DueFits, UNCHANGED <<graceUntil, alarmDeadline, pc, event>> PROVE DueFits'
BY DEF DueFits

(* Entering a transition.                                                   *)
LEMMA DueApply ==
  ASSUME DueFits, TypeOK, HandlerShape, pc = "select", NEW e \in Event, Apply(e),
         UNCHANGED <<graceUntil, alarmDeadline>>,
         e = "Intrusion" => graceUntil \in {None, 0},
         e = "CountdownElapsed" => alarmDeadline \in {None, 0}
  PROVE  DueFits'
BY ApplyShape DEF DueFits

(* Every step keeps it.                                                     *)
LEMMA DueInductive == IInv /\ DueFits /\ [Next]_vars => DueFits'
<1> SUFFICES ASSUME IInv, DueFits, [Next]_vars PROVE DueFits'
  OBVIOUS
<1>1. TypeOK /\ HandlerShape
  BY DEF IInv
<1>2. CASE Environment
  <2>1. CASE Tick
    BY <2>1 DEF Tick, Elapse, DueFits, control
  <2> QED BY <1>2, <2>1, DueKept DEF Environment, SendSignal, SendControl, UserSetsLock,
             ServeRequest, SetHint, control, timers
<1>3. CASE OnInput
  <2>1. pc = "select" /\ UNCHANGED <<graceUntil, alarmDeadline>>
    BY <1>3 DEF OnInput, timers
  <2>2. ASSUME Apply("Toggle") PROVE DueFits'
    BY <1>1, <2>1, <2>2, DueApply DEF Event
  <2>3. ASSUME CountsAsIntrusion, Apply("Intrusion") PROVE DueFits'
    BY <1>1, <2>1, <2>3, DueApply DEF Event, CountsAsIntrusion, Due
  <2>4. ASSUME UNCHANGED control PROVE DueFits'
    BY <2>1, <2>4, DueKept DEF control
  <2> QED BY <1>3, <2>2, <2>3, <2>4 DEF OnInput
<1>4. CASE OnLock
  <2>1. pc = "select" /\ UNCHANGED <<graceUntil, alarmDeadline>>
    BY <1>4 DEF OnLock, timers
  <2>2. ASSUME Apply("SessionUnlocked") PROVE DueFits'
    BY <1>1, <2>1, <2>2, DueApply DEF Event
  <2>3. ASSUME UNCHANGED control PROVE DueFits'
    BY <2>1, <2>3, DueKept DEF control
  <2> QED BY <1>4, <2>2, <2>3 DEF OnLock
<1>5. CASE ControlStep
  <2>1. pc = "select" /\ UNCHANGED <<graceUntil, alarmDeadline>>
    BY <1>5 DEF ControlStep, OnToggle, OnArm, OnDisarm, OnRescan, OnRead, OnSetConfigRefused,
           OnSetConfig, Receive, timers
  <2>2. ASSUME NEW e \in {"Toggle", "ForceArm", "ForceDisarm"}, Apply(e) PROVE DueFits'
    BY <1>1, <2>1, <2>2, DueApply DEF Event
  <2>3. ASSUME UNCHANGED control PROVE DueFits'
    BY <2>1, <2>3, DueKept DEF control
  <2>4. ASSUME OnSetConfig PROVE DueFits'
    BY <2>4 DEF OnSetConfig, DueFits
  <2> QED BY <1>5, <2>2, <2>3, <2>4 DEF ControlStep, OnToggle, OnArm, OnDisarm, OnRescan,
             OnRead, OnSetConfigRefused
<1>6. CASE OnTimer
  <2>1. pc = "select" /\ UNCHANGED <<graceUntil, alarmDeadline>>
    BY <1>6 DEF OnTimer
  <2>2. ASSUME Due(alarmDeadline), Apply("CountdownElapsed") PROVE DueFits'
    BY <1>1, <2>1, <2>2, DueApply DEF Event, Due
  <2>3. ASSUME UNCHANGED control PROVE DueFits'
    BY <2>1, <2>3, DueKept DEF control
  <2> QED BY <1>6, <2>2, <2>3 DEF OnTimer
<1>7. CASE AdoptConfig \/ FinishConfig \/ Commit \/ Restart
  BY <1>7 DEF AdoptConfig, FinishConfig, Commit, Restart, DueFits
<1>8. CASE LockSession \/ UnlockSession \/ Detached \/ StartSiren \/ StopSiren
  BY <1>8, DueKept DEF LockSession, UnlockSession, Detached, StartSiren, StopSiren, Perform,
     timers
<1>9. CASE StartGrace
  <2>1. Perform("StartGrace")
    BY <1>9 DEF StartGrace
  <2>2. event \in Event /\ Decides(state, event) /\ state = "Idle" /\ state \in GuardState
    BY <1>1, <2>1, EffectOf, PerformShape DEF TypeOK
  <2> QED BY <1>9, <2>2, EventOf DEF StartGrace, Perform, DueFits
<1>10. CASE StartCountdown
  <2>1. Perform("StartCountdown")
    BY <1>10 DEF StartCountdown
  <2>2. event \in Event /\ Decides(state, event) /\ state = "Armed" /\ state \in GuardState
    BY <1>1, <2>1, EffectOf, PerformShape DEF TypeOK
  <2> QED BY <1>10, <2>2, EventOf DEF StartCountdown, Perform, DueFits
<1>11. CASE ClearTimers
  BY <1>11 DEF ClearTimers, Perform, DueFits
<1>12. CASE UNCHANGED vars
  BY <1>12, DueKept DEF vars, control, timers
<1> QED BY <1>2, <1>3, <1>4, <1>5, <1>6, <1>7, <1>8, <1>9, <1>10, <1>11, <1>12
        DEF Next, MachineStep, HandlerStep

-----------------------------------------------------------------------------
(* The refinement. *)

(* The abstract timers, as the mapping reads them off. *)
Grace == IF FeltState = "Armed" /\ graceUntil # None THEN graceUntil ELSE 0
Delay == IF FeltState = "Triggered" /\ alarmDeadline # None THEN alarmDeadline ELSE 0

(* The abstract guard stutters. *)
Stutters == FeltState' = FeltState /\ Grace' = Grace /\ Delay' = Delay /\ siren' = siren

(* A step of the abstract guard, or none. *)
Keeps == Promise!GNext \/ Stutters

(* With the timers, the siren and the felt state nothing changes.           *)
LEMMA StepStutters ==
  ASSUME FeltState' = FeltState,
         UNCHANGED <<graceUntil, alarmDeadline, siren>>
  PROVE  Stutters
BY DEF Stutters, Grace, Delay

(* A process that starts maps to a guard that starts.                       *)
LEMMA InitRefines == Init => Promise!GInit
<1> SUFFICES ASSUME NEW c \in Configs, Boot(c) PROVE Promise!GInit
  BY DEF Init
<1>1. FeltState = "Idle"
  BY DEF Boot, FeltState, StateAfter, Performed
<1> QED BY <1>1 DEF Boot, Promise!GInit

(* Nothing is felt of an event before its first effect.                     *)
LEMMA ApplyStutters ==
  ASSUME IInv, pc = "select", NEW e \in Event, Apply(e),
         UNCHANGED <<graceUntil, alarmDeadline, siren>>
  PROVE  Stutters
<1>1. state' = state /\ Performed' = {} /\ Performed = {}
  BY ApplyShape DEF IInv
<1> QED BY <1>1, StepStutters DEF FeltState, StateAfter

(* Nor of a step that leaves the control state alone.                       *)
LEMMA SameStutters ==
  ASSUME UNCHANGED control, UNCHANGED <<graceUntil, alarmDeadline, siren>> PROVE Stutters
BY SameControl, StepStutters DEF FeltState

(* Nor of the environment, but for the clock.                               *)
LEMMA EnvironmentRefines == ASSUME IInv, Environment PROVE Keeps
<1>1. CASE Tick
  <2>1. /\ graceUntil \in Ticks /\ alarmDeadline \in Ticks
        /\ graceUntil' = Elapse(graceUntil) /\ alarmDeadline' = Elapse(alarmDeadline)
        /\ siren' = siren /\ FeltState' = FeltState
    BY <1>1, SameControl DEF Tick, FeltState, IInv, TypeOK
  <2>2. ASSUME NEW t \in Ticks
        PROVE  /\ Elapse(t) = None <=> t = None
               /\ t # None => t \in Nat /\ Elapse(t) = IF t = 0 THEN 0 ELSE t - 1
    BY DEF Elapse, Ticks
  <2>3. Grace \in Nat /\ Grace' = IF Grace = 0 THEN 0 ELSE Grace - 1
    BY <2>1, <2>2 DEF Grace
  <2>4. Delay \in Nat /\ Delay' = IF Delay = 0 THEN 0 ELSE Delay - 1
    BY <2>1, <2>2 DEF Delay
  <2>5. CASE Grace > 0 \/ Delay > 0
    BY <2>1, <2>3, <2>4, <2>5 DEF Keeps, Promise!GNext, Promise!GTick, Promise!Less, Grace, Delay
  <2>6. CASE ~(Grace > 0 \/ Delay > 0)
    BY <2>1, <2>3, <2>4, <2>6 DEF Keeps, Stutters
  <2> QED BY <2>5, <2>6
<1>2. CASE ~Tick
  BY <1>2, SameStutters DEF Environment, SendSignal, SendControl, UserSetsLock, ServeRequest,
     SetHint, timers, Keeps
<1> QED BY <1>1, <1>2

(* Nor of the select loop.                                                  *)
LEMMA SelectRefines ==
  ASSUME IInv, OnInput \/ OnLock \/ ControlStep \/ OnTimer PROVE Stutters
<1>1. pc = "select" /\ UNCHANGED <<graceUntil, alarmDeadline, siren>>
  BY DEF OnInput, OnLock, ControlStep, OnTimer, OnToggle, OnArm, OnDisarm, OnRescan, OnRead,
         OnSetConfigRefused, OnSetConfig, Receive, timers
<1>2. ASSUME NEW e \in Event, Apply(e) PROVE Stutters
  BY <1>1, <1>2, ApplyStutters
<1>3. ASSUME UNCHANGED control PROVE Stutters
  BY <1>1, <1>3, SameStutters
<1>4. ASSUME OnSetConfig PROVE Stutters
  <2>1. FeltState' = FeltState
    BY <1>1, <1>4, ConfigStepShape DEF OnSetConfig, FeltState, IInv
  <2> QED BY <1>1, <2>1, StepStutters
<1>5. \/ \E e \in Event : Apply(e)
      \/ UNCHANGED control \/ OnSetConfig
  BY DEF OnInput, OnLock, ControlStep, OnTimer, OnToggle, OnArm, OnDisarm, OnRescan, OnRead,
         OnSetConfigRefused, Event
<1> QED BY <1>2, <1>3, <1>4, <1>5

(* Nor of a reconfiguration: a new delay counts from the next countdown on. *)
LEMMA ConfigRefines == ASSUME IInv, AdoptConfig \/ FinishConfig PROVE Stutters
<1>1. UNCHANGED <<graceUntil, alarmDeadline, siren>> /\ FeltState' = FeltState
  BY ConfigStepShape DEF AdoptConfig, FinishConfig, timers, FeltState, IInv
<1> QED BY <1>1, StepStutters

(* An effect that is not decisive is not felt.                              *)
LEMMA EffectStutters ==
  ASSUME IInv, NEW eff, Perform(eff), eff \notin Decisive,
         UNCHANGED <<graceUntil, alarmDeadline, siren>>
  PROVE  Stutters
BY EffectShape, StepStutters DEF FeltState, IInv

(* A decisive one is felt: the guard moves from its state to the next.      *)
LEMMA DecisiveEffect ==
  ASSUME IInv, NEW eff \in Decisive, Perform(eff)
  PROVE  FeltState = state /\ FeltState' = NextState(state, event)
BY Progress, EffectShape DEF FeltState, StateAfter, IInv, Decisive

(* Arming opens the grace period.                                           *)
LEMMA StartGraceRefines == ASSUME IInv, StartGrace PROVE Promise!GArm
<1>1. Perform("StartGrace") /\ graceUntil' = cfg.grace
      /\ UNCHANGED <<alarmDeadline, siren>>
  BY DEF StartGrace
<1>2. FeltState = "Idle" /\ FeltState' = "Armed"
  BY <1>1, DecisiveEffect, EffectOf DEF Decisive, IInv
<1>3. cfg.grace \in {c.grace : c \in Configs} /\ cfg.grace # None
  BY DEF IInv, TypeOK
<1>4. siren' = siren
  BY <1>1
<1> QED BY <1>1, <1>2, <1>3, <1>4 DEF Promise!GArm

(* Tripping starts the countdown, and only past the grace period.           *)
LEMMA StartCountdownRefines == ASSUME IInv, DueFits, StartCountdown PROVE Promise!GTrip
<1>1. Perform("StartCountdown") /\ alarmDeadline' = cfg.delay
      /\ UNCHANGED <<graceUntil, siren>>
  BY DEF StartCountdown
<1>2. FeltState = "Armed" /\ FeltState' = "Triggered"
  BY <1>1, DecisiveEffect, EffectOf DEF Decisive, IInv
<1>3. cfg.delay \in {c.delay : c \in Configs} /\ cfg.delay # None
  BY DEF IInv, TypeOK
<1>4. graceUntil \in {None, 0}
  <2>1. /\ event \in Event /\ Decides(state, event) /\ state \in GuardState
        /\ pc = "effects" /\ NextState(state, event) = "Triggered"
    BY <1>1, PerformShape, EffectOf DEF IInv, TypeOK
  <2> QED BY <2>1, EventOf DEF DueFits
<1> QED BY <1>1, <1>2, <1>3, <1>4 DEF Promise!GTrip

(* The alarm sounds only past the countdown.                                *)
LEMMA StartSirenRefines == ASSUME IInv, DueFits, StartSiren PROVE Promise!GSound
<1>1. Perform("StartSiren") /\ siren' \in BOOLEAN /\ UNCHANGED <<graceUntil, alarmDeadline>>
  BY DEF StartSiren, timers
<1>2. FeltState = "Triggered" /\ FeltState' = "Alarm"
  BY <1>1, DecisiveEffect, EffectOf DEF Decisive, IInv
<1>3. alarmDeadline \in {None, 0}
  <2>1. /\ event \in Event /\ Decides(state, event) /\ state \in GuardState
        /\ pc = "effects" /\ NextState(state, event) = "Alarm"
    BY <1>1, PerformShape, EffectOf DEF IInv, TypeOK
  <2> QED BY <2>1, EventOf DEF DueFits
<1> QED BY <1>1, <1>2, <1>3 DEF Promise!GSound

(* Every disarm stops the siren first.                                      *)
LEMMA StopSirenRefines == ASSUME IInv, StopSiren PROVE Promise!GDisarm
<1>1. Perform("StopSiren") /\ siren' = FALSE
  BY DEF StopSiren
<1>2. FeltState # "Idle" /\ FeltState' = "Idle"
  BY <1>1, DecisiveEffect, EffectOf DEF Decisive, IInv, IsActive
<1> QED BY <1>1, <1>2 DEF Promise!GDisarm

(* Timers are cleared when they no longer count.                            *)
LEMMA ClearTimersRefines == ASSUME IInv, DueFits, ClearTimers PROVE Stutters
<1>1. Perform("ClearTimers") /\ graceUntil' = None /\ alarmDeadline' = None /\ siren' = siren
  BY DEF ClearTimers
<1>2. FeltState' = FeltState
  BY <1>1, EffectShape DEF FeltState, IInv, Decisive
<1>3. /\ event \in Event /\ Decides(state, event) /\ state \in GuardState /\ pc = "effects"
      /\ NextState(state, event) = "Alarm" \/ NextState(state, event) = "Idle"
  BY <1>1, PerformShape, EffectOf DEF IInv, TypeOK
<1>4. CASE NextState(state, event) = "Idle"
  <2>1. FeltState = "Idle"
    BY <1>1, <1>4, Progress DEF FeltState, StateAfter, Decisive, IInv
  <2> QED BY <1>1, <1>2, <2>1 DEF Stutters, Grace, Delay
<1>5. CASE NextState(state, event) = "Alarm"
  <2>1. FeltState = state /\ state = "Triggered"
    BY <1>1, <1>3, <1>5, Progress, EventOf DEF FeltState, StateAfter, IInv
  <2>2. alarmDeadline \in {None, 0}
    BY <1>3, <1>5, EventOf DEF DueFits
  <2> QED BY <1>1, <1>2, <2>1, <2>2 DEF Stutters, Grace, Delay
<1> QED BY <1>3, <1>4, <1>5

(* Committing the state shows what was felt.                                *)
LEMMA CommitRefines == ASSUME IInv, Commit PROVE Stutters
<1>1. state' = NextState(state, event) /\ UNCHANGED <<graceUntil, alarmDeadline, siren>>
      /\ pc' = "select"
  BY DEF Commit, timers
<1>2. FeltState = NextState(state, event)
  BY CommitShape DEF Commit, IInv, FeltState, StateAfter, Decisive
<1>3. FeltState' = state'
  BY <1>1 DEF FeltState, StateAfter, Performed
<1> QED BY <1>1, <1>2, <1>3, StepStutters

(* The end of the process disarms: an idle guard has no siren.              *)
LEMMA RestartRefines == ASSUME IInv, Restart PROVE Keeps
<1>1. FeltState' = "Idle" /\ siren' = FALSE
  BY DEF Restart, FeltState, StateAfter, Performed
<1>2. CASE FeltState # "Idle"
  BY <1>1, <1>2 DEF Keeps, Promise!GNext, Promise!GDisarm
<1>3. CASE FeltState = "Idle"
  <2>1. siren = FALSE
    <3> SUFFICES ASSUME siren = TRUE PROVE FALSE
      BY DEF IInv, TypeOK
    <3>1. StateAfter({"StartSiren", "StopSiren"}) = "Alarm"
      BY DEF IInv, SirenFits
    <3>2. CASE state = "Alarm" /\ Performed \cap {"StartSiren", "StopSiren"} = {}
      <4>1. Performed \cap Decisive # {} /\ NextState(state, event) = "Idle" /\ pc = "effects"
        BY <1>3, <3>2 DEF FeltState, StateAfter, Performed
      <4>2. /\ event \in Event /\ Decides(state, event) /\ state \in GuardState
            /\ done \in 0..4 /\ done <= Len(Pending)
        BY <4>1 DEF IInv, HandlerShape, TypeOK
      <4>3. \/ Pending = <<"StopSiren", "ClearTimers", "PlayBeep">>
            \/ Pending = <<"UnlockSession", "StopSiren", "ClearTimers", "PlayBeep">>
        BY <4>1, <4>2, DecideCases DEF Pending
      <4>4. \A i \in 1..Len(Pending) :
              Pending[i] \in {"UnlockSession", "StopSiren", "ClearTimers", "PlayBeep"}
        BY <4>3
      <4>5. Performed \subseteq {"UnlockSession", "StopSiren", "ClearTimers", "PlayBeep"}
        BY <4>1, <4>2, <4>3, <4>4 DEF Performed
      <4> QED BY <3>2, <4>1, <4>5 DEF Decisive
    <3>3. CASE NextState(state, event) = "Alarm" /\ Performed \cap {"StartSiren", "StopSiren"} # {}
      BY <1>3, <3>3 DEF FeltState, StateAfter, Decisive
    <3> QED BY <3>1, <3>2, <3>3 DEF StateAfter
  <2> QED BY <1>1, <1>3, <2>1 DEF Keeps, Stutters, Grace, Delay
<1> QED BY <1>2, <1>3

(* Every step of the state machine, of its clients, of the user and of the  *)
(* locker is one of the guard's, or none.                                   *)
LEMMA StepRefines == IInv /\ DueFits /\ [Next]_vars => Keeps
<1> SUFFICES ASSUME IInv, DueFits, [Next]_vars PROVE Keeps
  OBVIOUS
<1>1. CASE Environment
  BY <1>1, EnvironmentRefines
<1>2. CASE OnInput \/ OnLock \/ ControlStep \/ OnTimer
  BY <1>2, SelectRefines DEF Keeps
<1>3. CASE HandlerStep
  <2>1. CASE AdoptConfig \/ FinishConfig
    BY <2>1, ConfigRefines DEF Keeps
  <2>2. CASE LockSession \/ UnlockSession \/ Detached
    <3>1. PICK eff \in {"LockSession", "UnlockSession", "PlayBeep", "Snapshot", "Webhook"} :
             Perform(eff)
      BY <2>2 DEF LockSession, UnlockSession, Detached
    <3>2. UNCHANGED <<graceUntil, alarmDeadline, siren>> /\ eff \notin Decisive
      BY <2>2 DEF LockSession, UnlockSession, Detached, timers, Decisive
    <3> QED BY <3>1, <3>2, EffectStutters DEF Keeps
  <2>3. CASE ClearTimers \/ Commit
    BY <2>3, ClearTimersRefines, CommitRefines DEF Keeps
  <2>4. CASE StartGrace \/ StartCountdown \/ StartSiren \/ StopSiren
    BY <2>4, StartGraceRefines, StartCountdownRefines, StartSirenRefines, StopSirenRefines
       DEF Keeps, Promise!GNext
  <2> QED BY <1>3, <2>1, <2>2, <2>3, <2>4 DEF HandlerStep
<1>4. CASE Restart
  BY <1>4, RestartRefines
<1>5. CASE UNCHANGED vars
  BY <1>5, SameStutters DEF vars, control, timers, Keeps
<1> QED BY <1>1, <1>2, <1>3, <1>4, <1>5 DEF Next, MachineStep

(* The state machine keeps the safety part of the promise KeepsPromise: it  *)
(* starts as the guard does, and each of its steps arms, trips, sounds,     *)
(* disarms or ticks as the guard may, or is not felt at all.  No trip falls *)
(* inside the grace period and no siren precedes its countdown, whatever    *)
(* time passes between the effects of `apply`.                              *)
THEOREM SafetyOfPromise == Spec => Promise!GInit /\ [][Promise!GNext]_(Promise!gvars)
<1>1. IInv /\ DueFits /\ [Next]_vars => [Promise!GNext]_(Promise!gvars)
  BY StepRefines DEF Keeps, Stutters, Grace, Delay, Promise!gvars
<1>2. Init => DueFits
  BY DEF Init, Boot, DueFits
<1> QED BY <1>1, <1>2, InitRefines, Invariance, DueInductive, PTL DEF Spec

-----------------------------------------------------------------------------
(* Warnings. *)

W == WarningInterval

(* The countdown's end has been handled. *)
Over == (pc = "effects" /\ event = "CountdownElapsed") \/ state = "Alarm"

(* While a countdown runs a warning that has not played is due, each that   *)
(* did started an interval before the end, and until the end comes due they *)
(* are an interval apart.                                                   *)
Pacing ==
  alarmDeadline # None /\ ~Over =>
    /\ alarmDeadline <= countdown
    /\ warnings = 0 => nextWarning = 0
    /\ warnings # 0 => (warnings - 1) * W < countdown
    /\ alarmDeadline > 0 => warnings * W <= countdown - alarmDeadline + nextWarning

(* Once it is over at most one more was added. *)
Paced == Over => warnings # 0 /\ (warnings = 1 \/ (warnings - 2) * W < countdown)

PaceInv == IInv /\ Pacing /\ Paced

(* One more interval.                                                       *)
LEMMA OneMore ==
  ASSUME NEW n \in Nat, NEW w \in Nat \ {0}
  PROVE  /\ (n + 1) * w = n * w + w
         /\ n * w \in Nat /\ (n - 1) * w = n * w - w /\ (n - 2) * w = n * w - 2 * w
OBVIOUS

(* How many intervals a countdown begins.                                   *)
LEMMA WithinIntervals ==
  ASSUME NEW n \in Nat \ {0}, NEW c \in Nat, NEW w \in Nat \ {0},
         n = 1 \/ (n - 2) * w < c
  PROVE  n \in 1..((c + w - 1) \div w + 1)
<1> DEFINE q == (c + w - 1) \div w
           r == (c + w - 1) % w
<1>1. c + w - 1 = w * q + r /\ r \in 0..(w - 1) /\ q \in Nat
  OBVIOUS
<1> HIDE DEF q, r
<1>2. n - 1 <= q
  <2> SUFFICES ASSUME q < n - 1 PROVE FALSE
    BY <1>1
  <2>1. q \in Nat /\ q + 1 <= n - 1
    BY <1>1
  <2>2. w * (q + 1) = w * q + w
    BY <2>1
  <2>3. w * (q + 1) <= w * (n - 1)
    BY <2>1
  <2>4. w * (n - 1) = (n - 2) * w + w
    BY <2>1
  <2>5. (n - 2) * w < c
    BY <1>1, <2>1
  <2> QED BY <1>1, <2>2, <2>3, <2>4, <2>5
<1> QED BY <1>1, <1>2 DEF q

(* The siren sounds only once the end of the countdown was handled.         *)
LEMMA SirenIsOver ==
  ASSUME IInv, siren PROVE (pc = "effects" /\ event = "CountdownElapsed") \/ state = "Alarm"
<1>1. CASE state # "Alarm"
  <2>1. pc = "effects" /\ NextState(state, event) = "Alarm"
    BY <1>1 DEF IInv, SirenFits, StateAfter, Performed
  <2>2. event \in Event /\ state \in GuardState /\ Decides(state, event)
    BY <2>1 DEF IInv, TypeOK, HandlerShape
  <2> QED BY <2>1, <2>2, EventOf
<1> QED BY <1>1

(* The timers of a guard that is counting down.                             *)
LEMMA CountingDown ==
  ASSUME IInv, alarmDeadline # None
  PROVE  /\ alarmDeadline \in Nat /\ nextWarning \in Nat
         /\ W \in Nat \ {0} /\ warnings \in Nat /\ countdown \in Nat
BY DEF IInv, TypeOK, TimersFit, Ticks, W

(* Steps that move none of what the pace depends on.                        *)
LEMMA PaceKept ==
  ASSUME PaceInv, UNCHANGED <<alarmDeadline, nextWarning, warnings, countdown>>, Over' <=> Over
  PROVE  Pacing' /\ Paced'
BY DEF PaceInv, Pacing, Paced, W

(* Entering a transition other than the end of the countdown.               *)
LEMMA PaceApply ==
  ASSUME PaceInv, pc = "select", NEW e \in Event, Apply(e), e # "CountdownElapsed",
         UNCHANGED <<alarmDeadline, nextWarning, warnings, countdown>>
  PROVE  Pacing' /\ Paced'
<1>1. Over' <=> Over
  BY ApplyShape DEF PaceInv, IInv, Over
<1> QED BY <1>1, PaceKept

(* The timer branch plays a warning that is due and, in the same call, ends *)
(* a countdown that is over.                                                *)
LEMMA PaceTimer == ASSUME PaceInv, OnTimer PROVE Pacing' /\ Paced'
<1>1. /\ pc = "select" /\ state = "Triggered" /\ ~Over
      /\ alarmDeadline # None /\ nextWarning # None
  BY DEF OnTimer, Over, PaceInv, IInv, TimersFit, StateAfter, Performed
<1>2. /\ alarmDeadline \in Nat /\ nextWarning \in Nat
      /\ W \in Nat \ {0} /\ warnings \in Nat /\ countdown \in Nat
  BY <1>1, CountingDown DEF PaceInv
<1>3. /\ alarmDeadline <= countdown
      /\ warnings = 0 => nextWarning = 0
      /\ warnings # 0 => (warnings - 1) * W < countdown
      /\ alarmDeadline > 0 => warnings * W <= countdown - alarmDeadline + nextWarning
  BY <1>1 DEF PaceInv, Pacing
<1>4. /\ alarmDeadline' = alarmDeadline /\ countdown' = countdown
      /\ nextWarning' = IF nextWarning = 0 THEN W ELSE nextWarning
      /\ warnings' = IF nextWarning = 0 THEN warnings + 1 ELSE warnings
  BY DEF OnTimer, Reschedule, Due, W
<1>5. CASE alarmDeadline = 0
  <2>1. Over'
    <3>1. Apply("CountdownElapsed") /\ Decides(state, "CountdownElapsed")
      BY <1>1, <1>5 DEF OnTimer, Due, Decides, NextState, IsActive
    <3> QED BY <3>1 DEF Apply, Over
  <2>2. warnings' # 0
    BY <1>2, <1>3, <1>4
  <2>3. ASSUME warnings' # 1 PROVE (warnings' - 2) * W < countdown
    <3>1. CASE nextWarning = 0
      <4>1. warnings # 0 /\ warnings' - 2 = warnings - 1
        BY <1>2, <1>4, <2>3, <3>1
      <4> QED BY <1>3, <4>1
    <3>2. CASE nextWarning # 0
      <4>1. warnings # 0 /\ warnings' = warnings
        BY <1>3, <1>4, <3>2
      <4>2. (warnings - 1) * W = warnings * W - W /\ (warnings - 2) * W = warnings * W - 2 * W
            /\ warnings * W \in Nat
        BY <1>2, OneMore
      <4> QED BY <1>2, <1>3, <4>1, <4>2
    <3> QED BY <3>1, <3>2
  <2> QED BY <1>4, <2>1, <2>2, <2>3 DEF Pacing, Paced, W
<1>6. CASE alarmDeadline # 0
  <2>1. ~Over' /\ nextWarning = 0
    BY <1>1, <1>6 DEF OnTimer, Due, Over, control
  <2>2. /\ warnings' = warnings + 1 /\ nextWarning' = W
        /\ warnings * W <= countdown - alarmDeadline
    BY <1>2, <1>3, <1>4, <1>6, <2>1
  <2>3. /\ (warnings + 1) * W = warnings * W + W /\ warnings * W \in Nat
        /\ warnings' - 1 = warnings
    BY <1>2, <2>2, OneMore
  <2>4. /\ alarmDeadline <= countdown /\ warnings' # 0
        /\ (warnings' - 1) * W < countdown
        /\ warnings' * W <= countdown - alarmDeadline + nextWarning'
    BY <1>2, <1>3, <1>6, <2>2, <2>3
  <2> QED BY <1>4, <2>1, <2>4 DEF Pacing, Paced, W
<1> QED BY <1>5, <1>6

(* The clock.                                                               *)
LEMMA PaceTick == ASSUME PaceInv, Tick PROVE Pacing' /\ Paced'
<1>1. (Over' <=> Over) /\ UNCHANGED <<warnings, countdown>>
  BY DEF Tick, Over, control, history
<1>2. ASSUME alarmDeadline' # None, ~Over
      PROVE  /\ alarmDeadline' <= countdown
             /\ warnings = 0 => nextWarning' = 0
             /\ warnings # 0 => (warnings - 1) * W < countdown
             /\ alarmDeadline' > 0 => warnings * W <= countdown - alarmDeadline' + nextWarning'
  <2>1. alarmDeadline # None
    BY <1>2 DEF Tick, Elapse
  <2>2. /\ alarmDeadline \in Nat /\ nextWarning \in Nat
        /\ W \in Nat \ {0} /\ warnings \in Nat /\ countdown \in Nat
    BY <2>1, CountingDown DEF PaceInv
  <2>3. /\ alarmDeadline' = IF alarmDeadline = 0 THEN 0 ELSE alarmDeadline - 1
        /\ nextWarning' = IF nextWarning = 0 THEN 0 ELSE nextWarning - 1
    BY <2>2 DEF Tick, Elapse
  <2>4. /\ alarmDeadline <= countdown
        /\ warnings = 0 => nextWarning = 0
        /\ warnings # 0 => (warnings - 1) * W < countdown
        /\ alarmDeadline > 0 => warnings * W <= countdown - alarmDeadline + nextWarning
    BY <1>2, <2>1 DEF PaceInv, Pacing
  <2>5. warnings * W \in Nat
    BY <2>2, OneMore
  <2> QED BY <2>2, <2>3, <2>4, <2>5
<1> QED BY <1>1, <1>2 DEF PaceInv, Pacing, Paced, W

(* A countdown begins with a warning due.                                   *)
LEMMA PaceStartCountdown == ASSUME PaceInv, StartCountdown PROVE Pacing' /\ Paced'
<1>1. Perform("StartCountdown") /\ cfg.delay \in Nat
  BY DEF StartCountdown, PaceInv, IInv, TypeOK
<1>2. /\ event \in Event /\ Decides(state, event) /\ state \in GuardState /\ state = "Armed"
  BY <1>1, PerformShape, EffectOf DEF PaceInv, IInv, TypeOK
<1>3. ~Over'
  BY <1>1, <1>2, EventOf DEF Perform, Over
<1>4. /\ alarmDeadline' = cfg.delay /\ nextWarning' = 0 /\ warnings' = 0 /\ countdown' = cfg.delay
      /\ W \in Nat
  BY DEF StartCountdown, W
<1>5. 0 * W = 0
  BY <1>4
<1> QED BY <1>1, <1>3, <1>4, <1>5 DEF Pacing, Paced, W

(* The end of a transition.                                                 *)
LEMMA PaceCommit == ASSUME PaceInv, Commit PROVE Pacing' /\ Paced'
<1>1. /\ pc = "effects" /\ pc' = "select" /\ state' = NextState(state, event)
      /\ UNCHANGED <<alarmDeadline, nextWarning, warnings, countdown>>
  BY DEF Commit, timers
<1>2. event \in Event /\ Decides(state, event) /\ state \in GuardState
  BY <1>1 DEF PaceInv, IInv, HandlerShape, TypeOK
<1>3. CASE event = "CountdownElapsed"
  <2>1. Over /\ Over'
    BY <1>1, <1>2, <1>3, EventOf DEF Over
  <2> QED BY <1>1, <2>1, PaceKept
<1>4. CASE event # "CountdownElapsed"
  <2>1. ~Over'
    BY <1>1, <1>2, <1>4, EventOf DEF Over
  <2>2. CASE ~Over
    BY <1>1, <2>1, <2>2, PaceKept
  <2>3. CASE Over
    <3>1. state = "Alarm" /\ NextState(state, event) = "Idle"
      BY <1>2, <1>4, <2>3, DecideCases DEF Over
    <3>2. alarmDeadline = None
      <4>1. "ClearTimers" \in Performed
        BY <3>1, CommitShape DEF Commit, PaceInv, IInv
      <4> QED BY <3>1, <4>1 DEF PaceInv, IInv, TimersFit, StateAfter
    <3> QED BY <1>1, <2>1, <3>2 DEF Pacing, Paced
  <2> QED BY <2>2, <2>3
<1> QED BY <1>3, <1>4

(* Every step keeps the pace.                                               *)
LEMMA PaceInductive == PaceInv /\ [Next]_vars => PaceInv'
<1> SUFFICES ASSUME PaceInv, [Next]_vars, IInv' PROVE Pacing' /\ Paced'
  BY IInvInductive DEF PaceInv
<1>1. CASE Environment
  <2>1. CASE ~Tick
    <3>1. (Over' <=> Over) /\ UNCHANGED <<alarmDeadline, nextWarning, warnings, countdown>>
      BY <1>1, <2>1 DEF Environment, SendSignal, SendControl, UserSetsLock, ServeRequest,
         SetHint, Over, control, timers, history
    <3> QED BY <3>1, PaceKept
  <2> QED BY <1>1, <2>1, PaceTick
<1>2. CASE OnInput \/ OnLock \/ ControlStep
  <2>1. pc = "select" /\ UNCHANGED <<alarmDeadline, nextWarning, warnings, countdown>>
    BY <1>2 DEF OnInput, OnLock, ControlStep, OnToggle, OnArm, OnDisarm, OnRescan, OnRead,
           OnSetConfigRefused, OnSetConfig, Receive, timers, history
  <2>2. ASSUME NEW e \in Event \ {"CountdownElapsed"}, Apply(e) PROVE Pacing' /\ Paced'
    BY <2>1, <2>2, PaceApply
  <2>3. ASSUME UNCHANGED control \/ OnSetConfig PROVE Pacing' /\ Paced'
    <3>1. Over' <=> Over
      BY <2>1, <2>3 DEF OnSetConfig, Over, control
    <3> QED BY <2>1, <3>1, PaceKept
  <2>4. \/ \E e \in Event \ {"CountdownElapsed"} : Apply(e)
        \/ UNCHANGED control \/ OnSetConfig
    BY <1>2 DEF OnInput, OnLock, ControlStep, OnToggle, OnArm, OnDisarm, OnRescan, OnRead,
           OnSetConfigRefused, Event
  <2> QED BY <2>2, <2>3, <2>4
<1>3. CASE OnTimer
  BY <1>3, PaceTimer
<1>4. CASE HandlerStep
  <2>1. CASE AdoptConfig \/ FinishConfig
    <3>1. (Over' <=> Over) /\ UNCHANGED <<alarmDeadline, nextWarning, warnings, countdown>>
      BY <2>1 DEF AdoptConfig, FinishConfig, Over, timers, history
    <3> QED BY <3>1, PaceKept
  <2>2. CASE LockSession \/ UnlockSession \/ Detached \/ StartSiren \/ StopSiren \/ StartGrace
    <3>1. (Over' <=> Over) /\ UNCHANGED <<alarmDeadline, nextWarning, warnings, countdown>>
      BY <2>2 DEF LockSession, UnlockSession, Detached, StartSiren, StopSiren, StartGrace,
             Perform, Over, timers
    <3> QED BY <3>1, PaceKept
  <2>3. CASE ClearTimers
    <3>1. (Over' <=> Over) /\ alarmDeadline' = None /\ UNCHANGED <<warnings, countdown>>
      BY <2>3 DEF ClearTimers, Perform, Over
    <3> QED BY <3>1 DEF PaceInv, Pacing, Paced, W
  <2> QED BY <1>4, <2>1, <2>2, <2>3, PaceStartCountdown, PaceCommit DEF HandlerStep
<1>5. CASE Restart
  BY <1>5 DEF Restart, Over, Pacing, Paced
<1>6. CASE UNCHANGED vars
  <2>1. (Over' <=> Over) /\ UNCHANGED <<alarmDeadline, nextWarning, warnings, countdown>>
    BY <1>6 DEF vars, Over, control, timers, history
  <2> QED BY <2>1, PaceKept
<1> QED BY <1>1, <1>2, <1>3, <1>4, <1>5, <1>6 DEF Next, MachineStep

(* The siren never sounds unannounced, and warnings keep to their interval: *)
(* a countdown whose end is handled late plays one warning more at most.    *)
THEOREM WarningsInTime == Spec => []WarningsPaced
<1>1. Init => PaceInv
  BY InitIInv DEF Init, Boot, PaceInv, Pacing, Paced, Over
<1>2. PaceInv => WarningsPaced
  <2> SUFFICES ASSUME PaceInv, siren
               PROVE  warnings \in 1..((countdown + W - 1) \div W + 1)
    BY DEF WarningsPaced, W
  <2>1. Over
    BY SirenIsOver DEF PaceInv, Over
  <2>2. W \in Nat \ {0} /\ warnings \in Nat \ {0} /\ countdown \in Nat
        /\ (warnings = 1 \/ (warnings - 2) * W < countdown)
    BY <2>1 DEF PaceInv, IInv, TypeOK, Paced, W
  <2> QED BY <2>2, WithinIntervals
<1> QED BY <1>1, <1>2, PaceInductive, PTL DEF Spec
=============================================================================
