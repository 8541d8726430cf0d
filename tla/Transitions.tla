---------------------------- MODULE Transitions ----------------------------
(***************************************************************************)
(* The pure core of the guard: `decide` of alertu-daemon/src/transitions.rs*)
(* maps (state, event) to the next state and the list of effects the       *)
(* interpreter (module Machine) carries out, in order, before it commits   *)
(* the state.                                                              *)
(***************************************************************************)
EXTENDS Sequences

GuardState == {"Idle", "Armed", "Triggered", "Alarm"}

Event == {"Toggle", "ForceArm", "ForceDisarm", "Intrusion", "SessionUnlocked",
          "CountdownElapsed"}

Effect == {"LockSession", "UnlockSession", "PlayBeep", "StartSiren",
           "StopSiren", "Snapshot", "Webhook", "StartGrace",
           "StartCountdown", "ClearTimers"}

(* GuardState::is_active: the alarm is engaged in some way. *)
IsActive(s) == s # "Idle"

(* Form of `decide` in which an unlock noticed by the daemon only disarms a *)
(* guard that has not tripped yet.                                          *)
NextStateUnlockOnlyArmed(s, e) ==
  CASE s = "Idle" /\ e \in {"Toggle", "ForceArm"}                 -> "Armed"
    [] IsActive(s) /\ e \in {"Toggle", "ForceDisarm"}             -> "Idle"
    [] s = "Armed" /\ e = "Intrusion"                             -> "Triggered"
    [] s = "Armed" /\ e = "SessionUnlocked"                       -> "Idle"
    [] s = "Triggered" /\ e = "CountdownElapsed"                  -> "Alarm"
    [] OTHER                                                      -> s

(* The state `decide` commits, or the same state when it returns None. *)
NextState(s, e) ==
  CASE s = "Idle" /\ e \in {"Toggle", "ForceArm"}                 -> "Armed"
    [] IsActive(s) /\ e \in {"Toggle", "ForceDisarm",
                             "SessionUnlocked"}                   -> "Idle"
    [] s = "Armed" /\ e = "Intrusion"                             -> "Triggered"
    [] s = "Triggered" /\ e = "CountdownElapsed"                  -> "Alarm"
    [] OTHER                                                      -> s

(* `decide` returns Some(transition). *)
Decides(s, e) == NextState(s, e) # s

(* Form of the table whose disarm leaves the timers running. *)
EffectsKeepTimers(s, e) ==
  CASE NextState(s, e) = "Armed"     -> <<"LockSession", "PlayBeep", "StartGrace">>
    [] NextState(s, e) = "Triggered" -> <<"StartCountdown">>
    [] NextState(s, e) = "Alarm"     -> <<"ClearTimers", "StartSiren",
                                          "Snapshot", "Webhook">>
    [] e = "SessionUnlocked"         -> <<"StopSiren", "PlayBeep">>
    [] OTHER                         -> <<"UnlockSession", "StopSiren", "PlayBeep">>

(* Form of the table in which only an explicit disarm stops the siren. *)
EffectsLeaveSiren(s, e) ==
  CASE NextState(s, e) = "Armed"     -> <<"LockSession", "PlayBeep", "StartGrace">>
    [] NextState(s, e) = "Triggered" -> <<"StartCountdown">>
    [] NextState(s, e) = "Alarm"     -> <<"ClearTimers", "StartSiren",
                                          "Snapshot", "Webhook">>
    [] e = "SessionUnlocked"         -> <<"ClearTimers", "PlayBeep">>
    [] OTHER                         -> <<"UnlockSession", "StopSiren",
                                          "ClearTimers", "PlayBeep">>

(* The effects of a transition; meaningful only when Decides(s, e).  The    *)
(* two disarms differ in their first effect alone: an unlock the daemon     *)
(* noticed is not answered with another unlock.                             *)
Effects(s, e) ==
  CASE NextState(s, e) = "Armed"     -> <<"LockSession", "PlayBeep", "StartGrace">>
    [] NextState(s, e) = "Triggered" -> <<"StartCountdown">>
    [] NextState(s, e) = "Alarm"     -> <<"ClearTimers", "StartSiren",
                                          "Snapshot", "Webhook">>
    [] e = "SessionUnlocked"         -> <<"StopSiren", "ClearTimers", "PlayBeep">>
    [] OTHER                         -> <<"UnlockSession", "StopSiren",
                                          "ClearTimers", "PlayBeep">>
=============================================================================
