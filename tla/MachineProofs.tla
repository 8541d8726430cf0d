--------------------------- MODULE MachineProofs ---------------------------
(***************************************************************************)
(* What Machine guarantees for every set of configurations, every warning  *)
(* interval and every bound on its channels.                               *)
(***************************************************************************)
EXTENDS Machine, TLAPS

USE MachineAssumption

-----------------------------------------------------------------------------
(* Queues. *)

(* A queue holds the element just appended. *)
LEMMA HasNew ==
  ASSUME NEW S, NEW q \in Seq(S), NEW y \in S
  PROVE  Has(Append(q, y), y)
<1>1. Len(q) + 1 \in DOMAIN Append(q, y) /\ Append(q, y)[Len(q) + 1] = y
  OBVIOUS
<1> QED BY <1>1 DEF Has

(* Appending loses nothing. *)
LEMMA HasKept ==
  ASSUME NEW S, NEW q \in Seq(S), NEW y \in S, NEW x, Has(q, x)
  PROVE  Has(Append(q, y), x)
BY DEF Has

(* The element at the head of a queue and the rest of it. *)
LEMMA HeadTail ==
  ASSUME NEW S, NEW q \in Seq(S), q # <<>>
  PROVE  Head(q) \in S /\ Tail(q) \in Seq(S)
OBVIOUS

(* What a queue becomes when an element is added. *)
LEMMA AppendType ==
  ASSUME NEW S, NEW q \in Seq(S), NEW y \in S PROVE Append(q, y) \in Seq(S)
OBVIOUS

(* Taking the first element away loses at most that element. *)
LEMMA HasTail ==
  ASSUME NEW S, NEW q \in Seq(S), q # <<>>, NEW x
  PROVE  Has(q, x) => x = Head(q) \/ Has(Tail(q), x)
<1> SUFFICES ASSUME Has(q, x), x # Head(q) PROVE Has(Tail(q), x)
  OBVIOUS
<1>1. PICK i \in DOMAIN q : q[i] = x
  BY DEF Has
<1>2. i # 1 /\ i \in 1..Len(q)
  BY <1>1
<1>3. i - 1 \in DOMAIN Tail(q) /\ Tail(q)[i - 1] = x
  BY <1>1, <1>2
<1> QED BY <1>3 DEF Has

-----------------------------------------------------------------------------
(* The transition table. *)

(* `decide` answers with a state of the lifecycle. *)
LEMMA NextStateType ==
  ASSUME NEW s \in GuardState, NEW e PROVE NextState(s, e) \in GuardState
BY DEF NextState, GuardState, IsActive

(* The transitions there are, each with its effects. *)
LEMMA DecideCases ==
  ASSUME NEW s \in GuardState, NEW e \in Event, Decides(s, e)
  PROVE  \/ /\ s = "Idle" /\ NextState(s, e) = "Armed"
            /\ Effects(s, e) = <<"LockSession", "PlayBeep", "StartGrace">>
         \/ /\ s = "Armed" /\ NextState(s, e) = "Triggered"
            /\ Effects(s, e) = <<"StartCountdown">>
         \/ /\ s = "Triggered" /\ NextState(s, e) = "Alarm"
            /\ e = "CountdownElapsed"
            /\ Effects(s, e) = <<"ClearTimers", "StartSiren", "Snapshot", "Webhook">>
         \/ /\ IsActive(s) /\ NextState(s, e) = "Idle" /\ e = "SessionUnlocked"
            /\ Effects(s, e) = <<"StopSiren", "ClearTimers", "PlayBeep">>
         \/ /\ IsActive(s) /\ NextState(s, e) = "Idle" /\ e # "SessionUnlocked"
            /\ Effects(s, e) = <<"UnlockSession", "StopSiren", "ClearTimers", "PlayBeep">>
<1> USE DEF Decides, IsActive, GuardState, Event
<1>1. CASE s = "Idle" /\ e \in {"Toggle", "ForceArm"}
  <2>1. NextState(s, e) = "Armed" BY <1>1 DEF NextState
  <2> QED BY <1>1, <2>1 DEF Effects
<1>2. CASE s # "Idle" /\ e \in {"Toggle", "ForceDisarm", "SessionUnlocked"}
  <2>1. NextState(s, e) = "Idle" BY <1>2 DEF NextState
  <2> QED BY <1>2, <2>1 DEF Effects
<1>3. CASE s = "Armed" /\ e = "Intrusion"
  <2>1. NextState(s, e) = "Triggered" BY <1>3 DEF NextState
  <2> QED BY <1>3, <2>1 DEF Effects
<1>4. CASE s = "Triggered" /\ e = "CountdownElapsed"
  <2>1. NextState(s, e) = "Alarm" BY <1>4 DEF NextState
  <2> QED BY <1>4, <2>1 DEF Effects
<1>5. CASE /\ ~(s = "Idle" /\ e \in {"Toggle", "ForceArm"})
           /\ ~(s # "Idle" /\ e \in {"Toggle", "ForceDisarm", "SessionUnlocked"})
           /\ ~(s = "Armed" /\ e = "Intrusion")
           /\ ~(s = "Triggered" /\ e = "CountdownElapsed")
  BY <1>5 DEF NextState
<1> QED BY <1>1, <1>2, <1>3, <1>4, <1>5

-----------------------------------------------------------------------------
(* The control state. *)

(* Entering a transition starts with nothing performed; ignoring an event   *)
(* leaves the control state alone.                                          *)
LEMMA ApplyShape ==
  ASSUME TypeOK, HandlerShape, pc = "select", NEW e \in Event, Apply(e)
  PROVE  /\ HandlerShape'
         /\ state' = state /\ published' = published
         /\ pc' \in {"select", "effects"} /\ event' \in Event \cup {None}
         /\ done' \in 0..4
         /\ Performed' = {} /\ Performed = {}
         /\ pc' = "effects" => event' = e
<1>1. CASE Decides(state, e) /\ pc' = "effects" /\ event' = e /\ done' = 0
           /\ UNCHANGED <<state, published>>
  <2>1. Len(Pending') \in Nat
    BY <1>1, DecideCases DEF TypeOK, Pending
  <2>2. Performed' = {}
    BY <1>1 DEF Performed
  <2> QED BY <1>1, <2>1, <2>2 DEF HandlerShape, Performed, Pending
<1>2. CASE ~Decides(state, e) /\ UNCHANGED control
  BY <1>2 DEF control, HandlerShape, Performed
<1> QED BY <1>1, <1>2 DEF Apply

(* A performed effect is one of the transition's, and is added to those     *)
(* performed; the transition stays the same.                                *)
LEMMA PerformShape ==
  ASSUME TypeOK, HandlerShape, NEW eff, Perform(eff)
  PROVE  /\ HandlerShape'
         /\ pc = "effects" /\ event \in Event /\ Decides(state, event)
         /\ \E i \in 1..Len(Pending) : Pending[i] = eff
         /\ Performed' = Performed \cup {eff}
         /\ UNCHANGED <<state, published, pc, event, queues, configs, locked, unlockSeen>>
         /\ NextState(state, event)' = NextState(state, event)
         /\ done' \in 0..4
<1> USE DEF Perform
<1>1. event \in Event /\ Decides(state, event) /\ done \in 0..4 /\ state \in GuardState
  BY DEF HandlerShape, TypeOK
<1>2. Len(Pending) \in 0..4
  BY <1>1, DecideCases DEF Pending
<1>3. Pending' = Pending /\ NextState(state, event)' = NextState(state, event)
  BY DEF Pending
<1>4. done + 1 \in 1..Len(Pending) /\ done' \in 0..4
  BY <1>1, <1>2
<1>5. 1..done' = (1..done) \cup {done'}
  BY <1>1
<1>6. Performed' = Performed \cup {eff}
  BY <1>3, <1>5 DEF Performed
<1>7. HandlerShape'
  BY <1>1, <1>3, <1>4 DEF HandlerShape
<1> QED BY <1>1, <1>3, <1>4, <1>6, <1>7

(* When everything has been performed, the effects that were can be read    *)
(* off the state the transition leads to.                                   *)
LEMMA CommitShape ==
  ASSUME TypeOK, HandlerShape, pc = "effects", done = Len(Pending)
  PROVE  /\ state \in GuardState /\ Decides(state, event)
         /\ \/ /\ state = "Idle" /\ NextState(state, event) = "Armed"
               /\ Performed = {"LockSession", "PlayBeep", "StartGrace"}
            \/ /\ state = "Armed" /\ NextState(state, event) = "Triggered"
               /\ Performed = {"StartCountdown"}
            \/ /\ state = "Triggered" /\ NextState(state, event) = "Alarm"
               /\ Performed = {"ClearTimers", "StartSiren", "Snapshot", "Webhook"}
            \/ /\ IsActive(state) /\ NextState(state, event) = "Idle"
               /\ {"StopSiren", "ClearTimers"} \subseteq Performed
               /\ "StartSiren" \notin Performed
<1>1. event \in Event /\ Decides(state, event) /\ state \in GuardState
  BY DEF HandlerShape, TypeOK
<1>2. Performed = {Pending[i] : i \in 1..Len(Pending)}
  BY DEF Performed
<1>3. CASE Pending = <<"LockSession", "PlayBeep", "StartGrace">>
  <2>1. 1..Len(Pending) = {1, 2, 3} BY <1>3
  <2>2. Performed = {"LockSession", "PlayBeep", "StartGrace"} BY <1>2, <1>3, <2>1
  <2> QED BY <1>1, <1>3, <2>2, DecideCases DEF Pending
<1>4. CASE Pending = <<"StartCountdown">>
  <2>1. 1..Len(Pending) = {1} BY <1>4
  <2>2. Performed = {"StartCountdown"} BY <1>2, <1>4, <2>1
  <2> QED BY <1>1, <1>4, <2>2, DecideCases DEF Pending
<1>5. CASE Pending = <<"ClearTimers", "StartSiren", "Snapshot", "Webhook">>
  <2>1. 1..Len(Pending) = {1, 2, 3, 4} BY <1>5
  <2>2. Performed = {"ClearTimers", "StartSiren", "Snapshot", "Webhook"} BY <1>2, <1>5, <2>1
  <2> QED BY <1>1, <1>5, <2>2, DecideCases DEF Pending
<1>6. CASE Pending = <<"StopSiren", "ClearTimers", "PlayBeep">>
  <2>1. 1..Len(Pending) = {1, 2, 3} BY <1>6
  <2>2. Performed = {"StopSiren", "ClearTimers", "PlayBeep"} BY <1>2, <1>6, <2>1
  <2> QED BY <1>1, <1>6, <2>2, DecideCases DEF Pending
<1>7. CASE Pending = <<"UnlockSession", "StopSiren", "ClearTimers", "PlayBeep">>
  <2>1. 1..Len(Pending) = {1, 2, 3, 4} BY <1>7
  <2>2. Performed = {"UnlockSession", "StopSiren", "ClearTimers", "PlayBeep"} BY <1>2, <1>7, <2>1
  <2> QED BY <1>1, <1>7, <2>2, DecideCases DEF Pending
<1> QED BY <1>1, <1>3, <1>4, <1>5, <1>6, <1>7, DecideCases DEF Pending

-----------------------------------------------------------------------------
(* The initial states. *)
(* A started process satisfies the invariant.                               *)
LEMMA InitIInv == Init => IInv
<1> SUFFICES ASSUME NEW c \in Configs, Boot(c), locked \in BOOLEAN, requests = <<>>
             PROVE  IInv
  BY DEF Init
<1>1. /\ sigQ \in Seq(Signals) /\ lockQ \in Seq(BOOLEAN)
      /\ ctrlQ \in Seq(ControlMsg) /\ requests \in Seq({"lock", "unlock"})
  BY DEF Boot
<1>2. warnings \in Nat /\ countdown \in Nat /\ done \in 0..4
  BY DEF Boot
<1>3. TypeOK
  BY <1>1, <1>2 DEF Boot, TypeOK, Ticks, GuardState
<1>4. HandlerShape /\ Performed = {} /\ ~Guarding
  BY DEF Boot, HandlerShape, Performed, Guarding, IsActive
<1> QED BY <1>3, <1>4 DEF Boot, IInv, TimersFit, SirenFits, LockFits, ConfigsFit,
          StateAfter

-----------------------------------------------------------------------------
(* Steps that leave the control state alone. *)

(* Nothing that depends on the control state changes with it unchanged. *)
LEMMA SameControl ==
  ASSUME UNCHANGED control, NEW S
  PROVE  /\ (HandlerShape <=> HandlerShape') /\ Performed' = Performed
         /\ StateAfter(S)' = StateAfter(S) /\ (Guarding <=> Guarding')
<1>1. Pending' = Pending /\ NextState(state, event)' = NextState(state, event)
  BY DEF control, Pending
<1>2. Performed' = Performed
  BY <1>1 DEF control, Performed
<1> QED BY <1>1, <1>2 DEF control, HandlerShape, StateAfter, Guarding

(* A reader sends a signal.                                                 *)
LEMMA SendSignalKeeps ==
  ASSUME IInv, NEW sig \in Signals, SendSignal(sig) PROVE IInv'
<1> USE DEF SendSignal, timers, configs, desktop, history
<1>1. TypeOK'
  BY DEF IInv, TypeOK, control
<1> QED BY <1>1, SameControl DEF IInv, TimersFit, SirenFits, LockFits, ConfigsFit, control

(* A client sends a command.                                                *)
LEMMA SendControlKeeps ==
  ASSUME IInv, NEW msg \in ControlMsg, SendControl(msg) PROVE IInv'
<1> USE DEF SendControl, timers, configs, desktop, history
<1>1. TypeOK'
  BY DEF IInv, TypeOK, control
<1> QED BY <1>1, SameControl DEF IInv, TimersFit, SirenFits, LockFits, ConfigsFit, control

(* A change of LockedHint reports itself: an unlock is on its way as soon   *)
(* as the session is open, whatever was pending before.                     *)
LEMMA SetHintKeeps ==
  ASSUME IInv, NEW v \in BOOLEAN, SetHint(v), requests' \in Seq({"lock", "unlock"}),
         ~v /\ Has(requests, "lock") => Has(requests', "lock")
  PROVE  IInv'
<1> USE DEF SetHint, timers, configs, history
<1>1. TypeOK'
  <2>1. lockQ \in Seq(BOOLEAN)
    BY DEF IInv, TypeOK
  <2>2. lockQ' = lockQ \/ lockQ' = Append(lockQ, v)
    OBVIOUS
  <2>3. lockQ' \in Seq(BOOLEAN)
    BY <2>1, <2>2, AppendType
  <2>4. unlockSeen' \in BOOLEAN /\ leftOpen' \in BOOLEAN
    BY DEF IInv, TypeOK
  <2> QED BY <2>3, <2>4 DEF IInv, TypeOK, control
<1>2. LockFits'
  <2> SUFFICES ASSUME Guarding, ~v
               PROVE  Has(lockQ', FALSE) \/ Has(requests', "lock") \/ leftOpen'
    BY SameControl DEF LockFits
  <2>1. CASE v = locked
    BY <2>1 DEF IInv, LockFits
  <2>2. CASE v # locked
    <3>1. lockQ' = Append(lockQ, v) /\ lockQ \in Seq(BOOLEAN)
      BY <2>2 DEF IInv, TypeOK
    <3>2. v = FALSE
      OBVIOUS
    <3>3. Has(Append(lockQ, v), v)
      BY <3>1, HasNew
    <3> QED BY <3>1, <3>2, <3>3, Zenon
  <2> QED BY <2>1, <2>2
<1> QED BY <1>1, <1>2, SameControl DEF IInv, TimersFit, SirenFits, ConfigsFit, control

(* The user locks or unlocks the session.                                   *)
LEMMA UserSetsLockKeeps ==
  ASSUME IInv, NEW v \in BOOLEAN, UserSetsLock(v) PROVE IInv'
BY SetHintKeeps DEF UserSetsLock, IInv, TypeOK

(* The locker serves its oldest request.                                    *)
LEMMA ServeRequestKeeps ==
  ASSUME IInv, ServeRequest PROVE IInv'
<1> USE DEF ServeRequest
<1>1. requests \in Seq({"lock", "unlock"}) /\ requests' \in Seq({"lock", "unlock"})
  BY DEF IInv, TypeOK
<1>2. Head(requests) # "lock" /\ Has(requests, "lock") => Has(requests', "lock")
  BY <1>1, HasTail
<1> QED BY <1>1, <1>2, SetHintKeeps

(* The clock only moves timers that are set, and unsets none. *)
LEMMA TickKeeps ==
  ASSUME IInv, Tick PROVE IInv'
<1> USE DEF Tick, queues, configs, desktop, history
<1>1. ASSUME NEW t \in Ticks PROVE Elapse(t) \in Ticks /\ (Elapse(t) = None <=> t = None)
  BY DEF Ticks, Elapse
<1>2. graceUntil \in Ticks /\ alarmDeadline \in Ticks /\ nextWarning \in Ticks
  BY DEF IInv, TypeOK
<1>3. TypeOK'
  BY <1>1, <1>2 DEF IInv, TypeOK, control
<1>4. TimersFit'
  BY <1>1, <1>2, SameControl DEF IInv, TimersFit
<1> QED BY <1>3, <1>4, SameControl DEF IInv, SirenFits, LockFits, ConfigsFit, control

-----------------------------------------------------------------------------
(* Steps of the select loop. *)

(* Entering a transition disturbs nothing yet, and watches over nothing new.*)
LEMMA ApplyKeeps ==
  ASSUME IInv, pc = "select", NEW e \in Event, Apply(e),
         UNCHANGED <<graceUntil, alarmDeadline, siren, configs>>,
         nextWarning' = None <=> nextWarning = None
  PROVE  /\ HandlerShape' /\ TimersFit' /\ SirenFits' /\ ConfigsFit'
         /\ Guarding' => Guarding
         /\ pc' = "effects" => event' = e
<1>1. TypeOK /\ HandlerShape
  BY DEF IInv
<1> DEFINE Shape == /\ HandlerShape'
                    /\ state' = state /\ published' = published
                    /\ pc' \in {"select", "effects"}
                    /\ Performed' = {} /\ Performed = {}
                    /\ pc' = "effects" => event' = e
<1>2. Shape
  BY <1>1, ApplyShape
<1>3. \A S : StateAfter(S)' = state /\ StateAfter(S) = state
  BY <1>2 DEF StateAfter
<1>4. TimersFit' /\ SirenFits'
  BY <1>3 DEF IInv, TimersFit, SirenFits
<1>5. Guarding' => Guarding
  BY <1>2 DEF Guarding
<1>6. ConfigsFit'
  BY <1>2 DEF IInv, ConfigsFit, configs
<1> QED BY <1>2, <1>4, <1>5, <1>6

(* A signal enters a transition or is ignored.                              *)
LEMMA OnInputKeeps == ASSUME IInv, OnInput PROVE IInv'
<1> USE DEF OnInput, timers, desktop, history
<1>1. sigQ' \in Seq(Signals)
  BY DEF IInv, TypeOK
<1>2. ASSUME NEW e \in Event, Apply(e) PROVE IInv'
  <2>1. /\ HandlerShape' /\ TimersFit' /\ SirenFits' /\ ConfigsFit'
        /\ Guarding' => Guarding
    BY <1>2, ApplyKeeps
  <2>2. TypeOK'
    BY <1>1, <1>2, ApplyShape DEF IInv, TypeOK, configs
  <2> QED BY <2>1, <2>2 DEF IInv, LockFits
<1>3. CASE UNCHANGED control
  <2>1. TypeOK'
    BY <1>1, <1>3 DEF IInv, TypeOK, configs, control
  <2> QED BY <1>3, <2>1, SameControl DEF IInv, TimersFit, SirenFits, LockFits, ConfigsFit,
             configs, control
<1> QED BY <1>2, <1>3 DEF Event

(* An unlock taken from the channel is either the disarm of an engaged      *)
(* guard, which then watches over nothing, or of no concern to an idle one. *)
LEMMA OnLockKeeps == ASSUME IInv, OnLock PROVE IInv'
<1> USE DEF OnLock, timers, desktop, history
<1>1. lockQ \in Seq(BOOLEAN) /\ lockQ' \in Seq(BOOLEAN) /\ Head(lockQ) \in BOOLEAN
  <2>1. lockQ \in Seq(BOOLEAN) /\ lockQ # <<>> /\ lockQ' = Tail(lockQ)
    BY DEF IInv, TypeOK
  <2>2. Head(lockQ) \in BOOLEAN /\ Tail(lockQ) \in Seq(BOOLEAN)
    BY <2>1, HeadTail
  <2> QED BY <2>1, <2>2
<1>2. CASE ~Head(lockQ) /\ IsActive(state) /\ Apply("SessionUnlocked")
  <2>1. "SessionUnlocked" \in Event
    BY DEF Event
  <2>2. /\ HandlerShape' /\ TimersFit' /\ SirenFits' /\ ConfigsFit'
    BY <1>2, <2>1, ApplyKeeps
  <2>3. TypeOK'
    BY <1>1, <1>2, <2>1, ApplyShape DEF IInv, TypeOK, configs
  <2>4. ~Guarding'
    <3>1. state \in GuardState /\ NextState(state, "SessionUnlocked") = "Idle"
      BY <1>2 DEF IInv, TypeOK, NextState, IsActive
    <3>2. pc' = "effects" /\ event' = "SessionUnlocked" /\ state' = state
      BY <1>2, <3>1 DEF Apply, Decides, IsActive
    <3>3. NextState(state, event)' = "Idle"
      BY <3>1, <3>2
    <3> QED BY <1>2, <3>2, <3>3 DEF Guarding, IsActive
  <2> QED BY <2>2, <2>3, <2>4 DEF IInv, LockFits
<1>3. CASE (Head(lockQ) \/ ~IsActive(state)) /\ UNCHANGED control
  <2>1. TypeOK'
    BY <1>1, <1>3 DEF IInv, TypeOK, configs, control
  <2>2. Guarding => (Has(lockQ, FALSE) => Has(lockQ', FALSE))
    BY <1>1, <1>3, HasTail DEF Guarding
  <2>3. LockFits'
    BY <1>3, <2>2, SameControl DEF IInv, LockFits
  <2> QED BY <1>3, <2>1, <2>3, SameControl DEF IInv, TimersFit, SirenFits, ConfigsFit,
             configs, control
<1> QED BY <1>2, <1>3

(* Receiving a command shortens the channel and touches little else. *)
LEMMA ReceiveShape ==
  ASSUME TypeOK, NEW o, Receive(o)
  PROVE  /\ ctrlQ' \in Seq(ControlMsg) /\ pc = "select"
         /\ UNCHANGED <<graceUntil, alarmDeadline, nextWarning, siren, sigQ, lockQ,
                        locked, requests, warnings, countdown, unlockSeen, leftOpen>>
<1>1. ctrlQ \in Seq(ControlMsg) /\ ctrlQ # <<>>
  BY DEF TypeOK, Receive
<1>2. ctrlQ' \in Seq(ControlMsg)
  BY <1>1, HeadTail DEF Receive
<1> QED BY <1>2 DEF Receive, timers, desktop, history

(* The commands that go through the transition table. *)
LEMMA CommandKeeps ==
  ASSUME IInv, OnToggle \/ OnArm \/ OnDisarm PROVE IInv'
<1>1. PICK o \in {"Toggle", "Arm", "Disarm"}, e \in Event :
         Receive(o) /\ Apply(e) /\ UNCHANGED configs
  BY DEF OnToggle, OnArm, OnDisarm, Event
<1>2. /\ ctrlQ' \in Seq(ControlMsg) /\ pc = "select"
      /\ UNCHANGED <<graceUntil, alarmDeadline, nextWarning, siren, sigQ, lockQ,
                     locked, requests, warnings, countdown, unlockSeen, leftOpen>>
  BY <1>1, ReceiveShape DEF IInv
<1>3. /\ HandlerShape' /\ TimersFit' /\ SirenFits' /\ ConfigsFit'
      /\ Guarding' => Guarding
  BY <1>1, <1>2, ApplyKeeps
<1>4. TypeOK'
  BY <1>1, <1>2, ApplyShape DEF IInv, TypeOK, configs
<1> QED BY <1>2, <1>3, <1>4 DEF IInv, LockFits

(* Commands that leave the machine as it is, or respawn the readers. *)
LEMMA QuietCommandKeeps ==
  ASSUME IInv, OnRescan \/ OnRead \/ OnSetConfigRefused PROVE IInv'
<1>1. /\ \E o \in {"Rescan", "Read", "SetConfig"} : Receive(o)
      /\ UNCHANGED <<control, cfg, setting, disk>>
      /\ readersCfg' \in {readersCfg, cfg}
  BY DEF OnRescan, OnRead, OnSetConfigRefused, configs
<1>2. /\ ctrlQ' \in Seq(ControlMsg) /\ pc = "select"
      /\ UNCHANGED <<graceUntil, alarmDeadline, nextWarning, siren, sigQ, lockQ,
                     locked, requests, warnings, countdown, unlockSeen, leftOpen>>
  BY <1>1, ReceiveShape DEF IInv
<1>3. TypeOK'
  BY <1>1, <1>2 DEF IInv, TypeOK, control
<1>4. ConfigsFit'
  BY <1>1, <1>2 DEF IInv, ConfigsFit, control
<1> QED BY <1>1, <1>2, <1>3, <1>4, SameControl DEF IInv, TimersFit, SirenFits, LockFits

-----------------------------------------------------------------------------
(* apply_config. *)

(* A step of apply_config moves only `pc` of the control state, and never   *)
(* from or to a transition in progress.                                     *)
LEMMA ConfigStepShape ==
  ASSUME HandlerShape, pc # "effects", pc' # "effects",
         UNCHANGED <<state, published, event, done>>
  PROVE  /\ HandlerShape' /\ (Guarding' <=> Guarding)
         /\ \A S : StateAfter(S)' = StateAfter(S)
<1>1. Performed = {} /\ Performed' = {}
  BY DEF Performed
<1> QED BY <1>1 DEF HandlerShape, Guarding, StateAfter

(* A configuration is saved.                                                *)
LEMMA OnSetConfigKeeps == ASSUME IInv, OnSetConfig PROVE IInv'
<1> USE DEF OnSetConfig, Receive, timers, desktop, history
<1>1. ctrlQ \in Seq(ControlMsg) /\ ctrlQ # <<>> /\ Head(ctrlQ).op = "SetConfig"
  BY DEF IInv, TypeOK
<1>2. Head(ctrlQ) \in ControlMsg /\ ctrlQ' \in Seq(ControlMsg)
  BY <1>1, HeadTail
<1>3. Head(ctrlQ).cfg \in Configs
  BY <1>1, <1>2 DEF ControlMsg
<1>4. TypeOK'
  BY <1>2, <1>3 DEF IInv, TypeOK
<1>5. ConfigsFit'
  BY DEF IInv, ConfigsFit
<1> QED BY <1>4, <1>5, ConfigStepShape DEF IInv, TimersFit, SirenFits, LockFits

(* It comes into force.                                                     *)
LEMMA AdoptConfigKeeps == ASSUME IInv, AdoptConfig PROVE IInv'
<1> USE DEF AdoptConfig, timers, queues, desktop, history
<1>1. setting = disk /\ disk \in Configs
  BY DEF IInv, ConfigsFit, TypeOK
<1>2. TypeOK'
  BY <1>1 DEF IInv, TypeOK
<1>3. ConfigsFit'
  BY DEF IInv, ConfigsFit
<1> QED BY <1>2, <1>3, ConfigStepShape DEF IInv, TimersFit, SirenFits, LockFits

(* The readers follow it.                                                   *)
LEMMA FinishConfigKeeps == ASSUME IInv, FinishConfig PROVE IInv'
<1> USE DEF FinishConfig, timers, queues, desktop, history
<1>1. TypeOK'
  BY DEF IInv, TypeOK
<1>2. ConfigsFit'
  BY DEF IInv, ConfigsFit
<1> QED BY <1>1, <1>2, ConfigStepShape DEF IInv, TimersFit, SirenFits, LockFits

-----------------------------------------------------------------------------
(* The timer branch. *)

(* The timer plays a warning, or ends the countdown.                        *)
LEMMA OnTimerKeeps == ASSUME IInv, OnTimer PROVE IInv'
<1> USE DEF OnTimer, queues, desktop
<1>1. nextWarning' \in Ticks /\ (nextWarning' = None <=> nextWarning = None)
  BY DEF IInv, TypeOK, Ticks, Reschedule, Due
<1>2. warnings' \in Nat
  BY DEF IInv, TypeOK
<1>3. CASE Apply("CountdownElapsed")
  <2>1. "CountdownElapsed" \in Event /\ UNCHANGED <<graceUntil, alarmDeadline, siren, configs>>
    BY DEF Event
  <2>2. /\ HandlerShape' /\ TimersFit' /\ SirenFits' /\ ConfigsFit'
        /\ Guarding' => Guarding
    BY <1>1, <1>3, <2>1, ApplyKeeps
  <2>3. TypeOK'
    BY <1>1, <1>2, <1>3, <2>1, ApplyShape DEF IInv, TypeOK, configs
  <2> QED BY <2>2, <2>3 DEF IInv, LockFits
<1>4. CASE UNCHANGED control
  <2>1. TypeOK'
    BY <1>1, <1>2, <1>4 DEF IInv, TypeOK, configs, control
  <2> QED BY <1>1, <1>4, <2>1, SameControl DEF IInv, TimersFit, SirenFits, LockFits,
             ConfigsFit, configs, control
<1> QED BY <1>3, <1>4

-----------------------------------------------------------------------------
(* The effects of a transition. *)

(* An effect that is none of those a part of the invariant waits for leaves *)
(* that part's state where it was; the others move it to the next state.    *)
LEMMA EffectShape ==
  ASSUME TypeOK, HandlerShape, NEW eff, Perform(eff), NEW S
  PROVE  /\ eff \notin S => StateAfter(S)' = StateAfter(S)
         /\ eff \in S => StateAfter(S)' = NextState(state, event)
BY PerformShape DEF StateAfter

(* Which transitions an effect belongs to. *)
LEMMA EffectOf ==
  ASSUME TypeOK, HandlerShape, NEW eff, Perform(eff)
  PROVE  /\ eff \in {"LockSession", "StartGrace"} =>
              state = "Idle" /\ NextState(state, event) = "Armed"
         /\ eff = "StartCountdown" =>
              state = "Armed" /\ NextState(state, event) = "Triggered"
         /\ eff = "StartSiren" =>
              state = "Triggered" /\ NextState(state, event) = "Alarm"
         /\ eff \in {"UnlockSession", "StopSiren"} =>
              IsActive(state) /\ NextState(state, event) = "Idle"
         /\ eff = "ClearTimers" =>
              \/ state = "Triggered" /\ NextState(state, event) = "Alarm"
              \/ IsActive(state) /\ NextState(state, event) = "Idle"
<1>1. /\ event \in Event /\ Decides(state, event) /\ state \in GuardState
      /\ \E i \in 1..Len(Pending) : Pending[i] = eff
  BY PerformShape DEF TypeOK
<1>2. CASE Pending = <<"LockSession", "PlayBeep", "StartGrace">>
  BY <1>1, <1>2, DecideCases DEF Pending
<1>3. CASE Pending = <<"StartCountdown">>
  BY <1>1, <1>3, DecideCases DEF Pending
<1>4. CASE Pending = <<"ClearTimers", "StartSiren", "Snapshot", "Webhook">>
  BY <1>1, <1>4, DecideCases DEF Pending
<1>5. CASE Pending = <<"StopSiren", "ClearTimers", "PlayBeep">>
  BY <1>1, <1>5, DecideCases DEF Pending
<1>6. CASE Pending = <<"UnlockSession", "StopSiren", "ClearTimers", "PlayBeep">>
  BY <1>1, <1>6, DecideCases DEF Pending
<1> QED BY <1>1, <1>2, <1>3, <1>4, <1>5, <1>6, DecideCases DEF Pending

(* The invariant survives an effect whose own variables come out right. *)
LEMMA EffectKeeps ==
  ASSUME IInv, NEW eff, Perform(eff), TimersFit', SirenFits',
         graceUntil' \in Ticks, alarmDeadline' \in Ticks, nextWarning' \in Ticks,
         siren' \in BOOLEAN, requests' \in Seq({"lock", "unlock"}),
         warnings' \in Nat, countdown' \in Nat, leftOpen' \in BOOLEAN,
         Guarding' => \/ Guarding /\ (leftOpen => leftOpen')
                      \/ locked \/ Has(requests', "lock") \/ leftOpen',
         Has(requests, "lock") => Has(requests', "lock")
  PROVE  IInv'
<1>1. /\ HandlerShape' /\ pc = "effects" /\ done' \in 0..4
      /\ UNCHANGED <<state, published, pc, event, queues, configs, locked, unlockSeen>>
  BY PerformShape DEF IInv
<1>2. TypeOK'
  BY <1>1 DEF IInv, TypeOK, queues, configs
<1>3. LockFits'
  BY <1>1 DEF IInv, LockFits, queues
<1>4. ConfigsFit'
  BY <1>1 DEF IInv, ConfigsFit, configs
<1> QED BY <1>1, <1>2, <1>3, <1>4 DEF IInv

(* Performing anything but the lock watches over nothing new. *)
LEMMA EffectGuards ==
  ASSUME TypeOK, HandlerShape, NEW eff, eff # "LockSession", Perform(eff)
  PROVE  Guarding' => Guarding
BY PerformShape DEF Guarding

(* Effects that leave timers and siren alone: they concern neither. *)
LEMMA OtherEffectKeeps ==
  ASSUME IInv, NEW eff, Perform(eff),
         eff \notin {"StartGrace", "StartCountdown", "ClearTimers", "StartSiren", "StopSiren"},
         UNCHANGED <<timers, siren>>
  PROVE  TimersFit' /\ SirenFits'
BY EffectShape DEF IInv, TimersFit, SirenFits, timers

(* The lock is requested; from then on the guard watches over the session.  *)
LEMMA LockSessionKeeps == ASSUME IInv, LockSession PROVE IInv'
<1> USE DEF LockSession, timers
<1>1. requests \in Seq({"lock", "unlock"}) /\ Perform("LockSession")
  BY DEF IInv, TypeOK
<1>2. \/ requests' = Append(requests, "lock")
      \/ requests' = requests /\ (locked \/ leftOpen')
  BY DEF Loginctl
<1>3. Has(Append(requests, "lock"), "lock") /\ Append(requests, "lock") \in Seq({"lock", "unlock"})
  BY <1>1, HasNew, AppendType
<1>4. TimersFit' /\ SirenFits'
  BY <1>1, OtherEffectKeeps
<1>5. leftOpen' \in BOOLEAN
  OBVIOUS
<1> QED BY <1>1, <1>2, <1>3, <1>4, <1>5, EffectKeeps DEF IInv, TypeOK

(* The unlock is requested, behind any lock still wanted.                   *)
LEMMA UnlockSessionKeeps == ASSUME IInv, UnlockSession PROVE IInv'
<1> USE DEF UnlockSession, timers
<1>1. requests \in Seq({"lock", "unlock"}) /\ Perform("UnlockSession")
  BY DEF IInv, TypeOK
<1>2. requests' \in {requests, Append(requests, "unlock")}
  BY DEF Loginctl
<1>3. Append(requests, "unlock") \in Seq({"lock", "unlock"})
  BY <1>1, AppendType
<1>4. Has(requests, "lock") => Has(Append(requests, "unlock"), "lock")
  BY <1>1, HasKept
<1>5. TimersFit' /\ SirenFits' /\ (Guarding' => Guarding)
  BY <1>1, OtherEffectKeeps, EffectGuards DEF IInv
<1> QED BY <1>1, <1>2, <1>3, <1>4, <1>5, EffectKeeps DEF IInv, TypeOK

(* Effects that leave no trace in the machine.                              *)
LEMMA DetachedKeeps == ASSUME IInv, Detached PROVE IInv'
<1> USE DEF Detached, timers
<1>1. PICK eff \in {"PlayBeep", "Snapshot", "Webhook"} : Perform(eff)
  OBVIOUS
<1>2. TimersFit' /\ SirenFits' /\ (Guarding' => Guarding)
  BY <1>1, OtherEffectKeeps, EffectGuards DEF IInv
<1> QED BY <1>1, <1>2, EffectKeeps DEF IInv, TypeOK

(* The siren starts on the way to the alarm. *)
LEMMA StartSirenKeeps == ASSUME IInv, StartSiren PROVE IInv'
<1> USE DEF StartSiren, timers
<1>1. Perform("StartSiren") /\ TypeOK /\ HandlerShape
  BY DEF IInv
<1>2. SirenFits'
  BY <1>1, EffectShape, EffectOf DEF SirenFits
<1>3. TimersFit' /\ (Guarding' => Guarding)
  BY <1>1, EffectShape, EffectGuards DEF IInv, TimersFit
<1> QED BY <1>1, <1>2, <1>3, EffectKeeps DEF IInv, TypeOK

(* The siren stops on the way to idle.                                      *)
LEMMA StopSirenKeeps == ASSUME IInv, StopSiren PROVE IInv'
<1> USE DEF StopSiren, timers
<1>1. Perform("StopSiren") /\ TypeOK /\ HandlerShape
  BY DEF IInv
<1>2. SirenFits'
  BY DEF SirenFits
<1>3. TimersFit' /\ (Guarding' => Guarding)
  BY <1>1, EffectShape, EffectGuards DEF IInv, TimersFit
<1> QED BY <1>1, <1>2, <1>3, EffectKeeps DEF IInv, TypeOK

(* Starting or clearing timers gives the timers of the next state. *)
LEMMA StartGraceKeeps == ASSUME IInv, StartGrace PROVE IInv'
<1> USE DEF StartGrace
<1>1. Perform("StartGrace") /\ TypeOK /\ HandlerShape
  BY DEF IInv
<1>2. cfg \in Configs /\ cfg.grace \in Nat /\ cfg.grace # None
  BY <1>1 DEF TypeOK
<1>3. alarmDeadline = None /\ nextWarning = None
  BY <1>1, EffectOf DEF IInv, TimersFit, StateAfter
<1>4. TimersFit'
  BY <1>1, <1>2, <1>3, EffectShape, EffectOf DEF TimersFit
<1>5. SirenFits' /\ (Guarding' => Guarding)
  BY <1>1, EffectShape, EffectGuards DEF IInv, SirenFits
<1> QED BY <1>1, <1>2, <1>4, <1>5, EffectKeeps DEF IInv, TypeOK, Ticks

(* The countdown starts beside an expired grace period.                     *)
LEMMA StartCountdownKeeps == ASSUME IInv, StartCountdown PROVE IInv'
<1> USE DEF StartCountdown
<1>1. Perform("StartCountdown") /\ TypeOK /\ HandlerShape
  BY DEF IInv
<1>2. cfg \in Configs /\ cfg.delay \in Nat /\ cfg.delay # None /\ 0 # None
  BY <1>1 DEF TypeOK
<1>3. graceUntil # None
  BY <1>1, EffectOf DEF IInv, TimersFit, StateAfter
<1>4. TimersFit'
  BY <1>1, <1>2, <1>3, EffectShape, EffectOf DEF TimersFit
<1>5. SirenFits' /\ (Guarding' => Guarding)
  BY <1>1, EffectShape, EffectGuards DEF IInv, SirenFits
<1> QED BY <1>1, <1>2, <1>4, <1>5, EffectKeeps DEF IInv, TypeOK, Ticks

(* All timers go.                                                           *)
LEMMA ClearTimersKeeps == ASSUME IInv, ClearTimers PROVE IInv'
<1> USE DEF ClearTimers
<1>1. Perform("ClearTimers") /\ TypeOK /\ HandlerShape
  BY DEF IInv
<1>2. TimersFit'
  BY <1>1, EffectShape, EffectOf DEF TimersFit
<1>3. SirenFits' /\ (Guarding' => Guarding)
  BY <1>1, EffectShape, EffectGuards DEF IInv, SirenFits
<1> QED BY <1>1, <1>2, <1>3, EffectKeeps DEF IInv, TypeOK, Ticks

-----------------------------------------------------------------------------
(* The end of a transition, and the end of the process. *)

(* Everything has moved to the next state before it is committed. *)
LEMMA CommitKeeps == ASSUME IInv, Commit PROVE IInv'
<1> USE DEF Commit, timers, queues, configs, desktop
<1>1. TypeOK /\ HandlerShape /\ pc = "effects" /\ done = Len(Pending)
  BY DEF IInv
<1>2. NextState(state, event) \in GuardState
  BY <1>1, NextStateType DEF TypeOK
<1>3. TypeOK'
  BY <1>1, <1>2 DEF TypeOK
<1>4. HandlerShape' /\ Performed' = {}
  BY DEF HandlerShape, Performed
<1>5. \A S : StateAfter(S)' = NextState(state, event)
  BY <1>4 DEF StateAfter
<1>6. StateAfter({"StartGrace", "StartCountdown", "ClearTimers"}) = NextState(state, event)
  BY <1>1, CommitShape DEF StateAfter
<1>7. TimersFit'
  BY <1>5, <1>6 DEF IInv, TimersFit
<1>8. SirenFits'
  BY <1>1, <1>5, CommitShape DEF IInv, SirenFits, StateAfter, IsActive
<1>9. Guarding' => Guarding /\ (leftOpen => leftOpen')
  BY <1>1, CommitShape DEF Guarding, IsActive
<1>10. LockFits'
  BY <1>9 DEF IInv, LockFits
<1>11. ConfigsFit'
  BY <1>1 DEF IInv, ConfigsFit
<1> QED BY <1>3, <1>4, <1>7, <1>8, <1>10, <1>11 DEF IInv

(* A new process starts idle.                                               *)
LEMMA RestartKeeps == ASSUME IInv, Restart PROVE IInv'
<1> USE DEF Restart, desktop
<1>1. sigQ' \in Seq(Signals) /\ lockQ' \in Seq(BOOLEAN) /\ ctrlQ' \in Seq(ControlMsg)
  OBVIOUS
<1>2. warnings' \in Nat /\ countdown' \in Nat /\ done' \in 0..4
  OBVIOUS
<1>3. TypeOK'
  BY <1>1, <1>2 DEF IInv, TypeOK, Ticks, GuardState
<1>4. HandlerShape' /\ Performed' = {} /\ ~Guarding'
  BY DEF HandlerShape, Performed, Guarding, IsActive
<1> QED BY <1>3, <1>4 DEF IInv, TimersFit, SirenFits, LockFits, ConfigsFit, StateAfter

-----------------------------------------------------------------------------
(* The theorems. *)

(* Every step of the daemon, of its clients, of the user and of the locker  *)
(* preserves the invariant.                                                 *)
LEMMA IInvInductive == IInv /\ [Next]_vars => IInv'
<1> SUFFICES ASSUME IInv, [Next]_vars PROVE IInv'
  OBVIOUS
<1>1. CASE Environment
  BY <1>1, SendSignalKeeps, SendControlKeeps, UserSetsLockKeeps, ServeRequestKeeps,
     TickKeeps DEF Environment
<1>2. CASE OnInput \/ OnLock \/ ControlStep \/ OnTimer
  BY <1>2, OnInputKeeps, OnLockKeeps, CommandKeeps, QuietCommandKeeps,
     OnSetConfigKeeps, OnTimerKeeps DEF ControlStep
<1>3. CASE HandlerStep
  BY <1>3, AdoptConfigKeeps, FinishConfigKeeps, LockSessionKeeps, UnlockSessionKeeps,
     DetachedKeeps, StartSirenKeeps, StopSirenKeeps, StartGraceKeeps,
     StartCountdownKeeps, ClearTimersKeeps, CommitKeeps DEF HandlerStep
<1>4. CASE Restart
  BY <1>4, RestartKeeps
<1>5. CASE UNCHANGED vars
  <2>1. UNCHANGED <<control, timers, siren, queues, configs, desktop, history>>
    BY <1>5 DEF vars
  <2>2. TypeOK'
    BY <2>1 DEF IInv, TypeOK, control, timers, queues, configs, desktop, history
  <2> QED BY <2>1, <2>2, SameControl DEF IInv, TimersFit, SirenFits, LockFits, ConfigsFit,
             control, timers, queues, configs, desktop, history
<1> QED BY <1>1, <1>2, <1>3, <1>4, <1>5 DEF Next, MachineStep

(* The invariant holds initially and every step preserves it.               *)
THEOREM Invariance == Spec => []IInv
BY InitIInv, IInvInductive, PTL DEF Spec

(* Every variable keeps a value the code could hold, however the channels   *)
(* fill up and whatever configurations are set.                             *)
THEOREM TypeCorrect == Spec => []TypeOK
<1>1. IInv => TypeOK
  BY DEF IInv
<1> QED BY <1>1, Invariance, PTL

(* Between two handlers the timers set are exactly those of the state.      *)
THEOREM TimersCorrect == Spec => []TimersMatchState
<1>1. IInv => TimersMatchState
  BY DEF IInv, TimersFit, TimersMatchState, StateAfter, Performed
<1> QED BY <1>1, Invariance, PTL

(* The siren task exists only in the alarm or on its way into it.           *)
THEOREM SirenCorrect == Spec => []SirenOnlyInAlarm
<1>1. IInv => SirenOnlyInAlarm
  <2> SUFFICES ASSUME IInv, siren, state # "Alarm"
               PROVE  pc = "effects" /\ event = "CountdownElapsed"
    BY DEF SirenOnlyInAlarm
  <2>1. pc = "effects" /\ NextState(state, event) = "Alarm"
    BY DEF IInv, SirenFits, StateAfter, Performed
  <2>2. event \in Event /\ state \in GuardState /\ Decides(state, event)
    BY <2>1 DEF IInv, TypeOK, HandlerShape
  <2> QED BY <2>1, <2>2, DecideCases
<1> QED BY <1>1, Invariance, PTL

(* SoundPlayer's only caller never starts a siren while one sounds: in the  *)
(* machine no transition reaches `start_siren` twice without `stop_siren`   *)
(* between, whatever signals, reports and commands wait (sound.rs:166).     *)
THEOREM NeverStartedTwice == Spec => [][StartSiren => ~siren]_vars
<1>1. ASSUME IInv, StartSiren PROVE ~siren
  <2>1. /\ pc = "effects" /\ done < Len(Pending) /\ Pending[done + 1] = "StartSiren"
    BY <1>1 DEF StartSiren, Perform
  <2>2. /\ event \in Event /\ state \in GuardState /\ Decides(state, event) /\ done \in 0..4
    BY <1>1, <2>1 DEF IInv, TypeOK, HandlerShape
  <2>3. /\ Pending = <<"ClearTimers", "StartSiren", "Snapshot", "Webhook">>
        /\ state # "Alarm"
    BY <2>1, <2>2, DecideCases DEF Pending
  <2>4. done = 1
    BY <2>1, <2>2, <2>3
  <2>5. Performed = {"ClearTimers"}
    <3>1. 1..done = {1} /\ Pending[1] = "ClearTimers"
      BY <2>3, <2>4
    <3> QED BY <2>1, <3>1 DEF Performed
  <2>6. StateAfter({"StartSiren", "StopSiren"}) = state
    BY <2>5 DEF StateAfter
  <2> QED BY <1>1, <2>3, <2>6 DEF IInv, SirenFits, TypeOK
<1>2. IInv /\ [Next]_vars => [StartSiren => ~siren]_vars
  BY <1>1
<1> QED BY <1>2, Invariance, PTL DEF Spec

(* The configuration in force between two handlers is the one on disk and   *)
(* the one the readers were spawned from, and the published state the real  *)
(* one.                                                                     *)
THEOREM ConfigCorrect == Spec => []SettledWhenSelecting
<1>1. IInv => SettledWhenSelecting
  BY DEF IInv, ConfigsFit, SettledWhenSelecting
<1> QED BY <1>1, Invariance, PTL

(* Whatever loginctl does: a guard engaged over an open session has the     *)
(* unlock on its way to it or the lock on its way to the session, or began  *)
(* with a lock that did not get through and has found it open ever since.   *)
THEOREM LockCorrect == Spec => []ArmedMeansLocked
<1>1. IInv => ArmedMeansLocked
  BY DEF IInv, LockFits, Guarding, ArmedMeansLocked
<1> QED BY <1>1, Invariance, PTL

-----------------------------------------------------------------------------
(* What the machine takes for granted of the session watch: an undisturbed  *)
(* subscription, of which SessionWatchProofs!ReportsKept says that          *)
(* SessionWatch provides it.  A restart is a new life of both.              *)
Watched == INSTANCE LockReports WITH
  locked <- locked, mode <- "subscribed", line <- lockQ, trust <- "whole"

(* Every change of the session is on the machine's line and is taken off it *)
(* in order, whatever handler is under way: nothing here asks more of the   *)
(* session watch than module LockReports promises.                          *)
THEOREM ReliesOnReports == Spec => Watched!RInit /\ [][Restart \/ Watched!RNext]_(Watched!rvars)
<1>1. Init => Watched!RInit
  BY DEF Init, Boot, Watched!RInit
<1>2. ASSUME IInv, NEW v \in BOOLEAN, SetHint(v)
      PROVE  Watched!RNoticed \/ UNCHANGED <<locked, lockQ>>
  BY <1>2 DEF SetHint, IInv, TypeOK, Watched!RNoticed, Watched!Listens
<1>3. ASSUME OnLock PROVE Watched!RTake
  <2>1. lockQ # <<>> /\ lockQ' = Tail(lockQ)
    BY <1>3 DEF OnLock
  <2>2. locked' = locked
    BY <1>3 DEF OnLock, desktop
  <2> QED BY <2>1, <2>2 DEF Watched!RTake
<1>4. IInv /\ [Next]_vars => [Restart \/ Watched!RNext]_(Watched!rvars)
  <2> SUFFICES ASSUME IInv, Next PROVE Restart \/ Watched!RNext \/ UNCHANGED <<locked, lockQ>>
    BY DEF Watched!rvars, vars, queues, desktop
  <2>1. CASE ServeRequest
    BY <1>2, <2>1 DEF ServeRequest, Watched!RNext
  <2>2. ASSUME NEW v \in BOOLEAN, UserSetsLock(v)
        PROVE  Watched!RNext \/ UNCHANGED <<locked, lockQ>>
    BY <1>2, <2>2 DEF UserSetsLock, Watched!RNext
  <2>3. CASE OnLock
    BY <1>3, <2>3 DEF Watched!RNext
  <2>4. CASE OnInput \/ ControlStep \/ OnTimer
    BY <2>4 DEF OnInput, ControlStep, OnToggle, OnArm, OnDisarm, OnRescan, OnRead,
       OnSetConfigRefused, OnSetConfig, Receive, OnTimer, queues, desktop
  <2>5. CASE HandlerStep
    BY <2>5 DEF HandlerStep, AdoptConfig, FinishConfig, LockSession, UnlockSession, Detached,
       StartSiren, StopSiren, StartGrace, StartCountdown, ClearTimers, Commit, Perform,
       queues, desktop
  <2>6. ASSUME NEW sig, SendSignal(sig) PROVE UNCHANGED <<locked, lockQ>>
    BY <2>6 DEF SendSignal, desktop
  <2>7. ASSUME NEW msg, SendControl(msg) PROVE UNCHANGED <<locked, lockQ>>
    BY <2>7 DEF SendControl, desktop
  <2>8. CASE Tick
    BY <2>8 DEF Tick, queues, desktop
  <2> QED BY <2>1, <2>2, <2>3, <2>4, <2>5, <2>6, <2>7, <2>8 DEF Next, MachineStep, Environment
<1> QED BY <1>1, <1>4, Invariance, PTL DEF Spec
=============================================================================
