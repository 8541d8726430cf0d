------------------------------- MODULE Guard -------------------------------
(***************************************************************************)
(* What the guard promises its user, with nothing of how the daemon keeps  *)
(* it: no queues, no effects, no session manager.  Arming opens a grace    *)
(* window in which nothing trips; a trip opens a countdown; the siren      *)
(* sounds only once the whole countdown has run; disarming at any moment   *)
(* puts everything back.  Machine implements this specification.           *)
(***************************************************************************)
EXTENDS Naturals

CONSTANTS
  GraceChoices,   \* ticks of grace a configuration may ask for
  DelayChoices    \* ticks of countdown a configuration may ask for

VARIABLES
  guard,       \* the lifecycle state
  graceLeft,   \* ticks before a watched device may trip the guard
  delayLeft,   \* ticks before a tripped guard may sound
  sounding     \* the siren

gvars == <<guard, graceLeft, delayLeft, sounding>>

GInit ==
  /\ guard = "Idle"
  /\ graceLeft = 0
  /\ delayLeft = 0
  /\ sounding = FALSE

GArm ==
  /\ guard = "Idle"
  /\ guard' = "Armed"
  /\ graceLeft' \in GraceChoices
  /\ UNCHANGED <<delayLeft, sounding>>

(* Only a guard whose grace is over trips. *)
GTrip ==
  /\ guard = "Armed"
  /\ graceLeft = 0
  /\ guard' = "Triggered"
  /\ delayLeft' \in DelayChoices
  /\ UNCHANGED <<graceLeft, sounding>>

(* Only a countdown that has run out sounds.  Without a player or a sound   *)
(* file the alarm is silent.                                                *)
GSound ==
  /\ guard = "Triggered"
  /\ delayLeft = 0
  /\ guard' = "Alarm"
  /\ sounding' \in BOOLEAN
  /\ UNCHANGED <<graceLeft, delayLeft>>

(* By remote, client, password unlock, or the end of the process. *)
GDisarm ==
  /\ guard # "Idle"
  /\ guard' = "Idle"
  /\ graceLeft' = 0
  /\ delayLeft' = 0
  /\ sounding' = FALSE

Less(n) == IF n = 0 THEN 0 ELSE n - 1

GTick ==
  /\ graceLeft > 0 \/ delayLeft > 0
  /\ graceLeft' = Less(graceLeft)
  /\ delayLeft' = Less(delayLeft)
  /\ UNCHANGED <<guard, sounding>>

GNext == GArm \/ GTrip \/ GSound \/ GDisarm \/ GTick

(* A tripped guard that nobody disarms does sound. *)
GSpec == GInit /\ [][GNext]_gvars /\ WF_gvars(GTick) /\ WF_gvars(GSound)
=============================================================================
