---------------------------- MODULE LockReports -----------------------------
(***************************************************************************)
(* What the session watch promises the state machine, with nothing of      *)
(* buses, polls and channels.  One line leads from the session to the      *)
(* machine; `line` is all that is on it, seen by the watch or not yet.  A  *)
(* subscribed watch puts every lock and unlock on it, in order; one that   *)
(* polls may take a change and the one before it for none.  It is blind    *)
(* only before it begins and, after a failure, while it begins again.      *)
(* Nothing is promised of a watch that is moved to another session.        *)
(* SessionWatch implements this specification, and Machine relies on it.   *)
(***************************************************************************)
EXTENDS Naturals, Sequences

VARIABLES
  locked, \* the session is locked
  mode,   \* "blind", "subscribed", "polled", or "gone" with the machine
  line,   \* changes on their way to the machine
  trust   \* "whole", "gaps" after a failure, "none" after a move

rvars == <<locked, mode, line, trust>>

RInit ==
  /\ locked \in BOOLEAN
  /\ mode \in {"blind", "subscribed"} /\ line = <<>> /\ trust = "whole"

Listens == mode \in {"subscribed", "polled"}

(* A change goes on the line, ... *)
RNoticed ==
  /\ Listens
  /\ locked' = ~locked /\ line' = Append(line, locked')
  /\ UNCHANGED <<mode, trust>>

(* ... undoes the one that is last on it, ... *)
RUndone ==
  /\ mode = "polled"
  /\ line' \in Seq(BOOLEAN) /\ line = Append(line', locked)
  /\ locked' = ~locked
  /\ UNCHANGED <<mode, trust>>

(* ... or happens behind the back of the watch. *)
RUnnoticed ==
  /\ Listens => mode = "subscribed" /\ trust = "gaps"
  /\ locked' = ~locked
  /\ UNCHANGED <<mode, line, trust>>

RBegin ==
  /\ mode = "blind" /\ mode' \in {"subscribed", "polled"}
  /\ UNCHANGED <<locked, line, trust>>

(* The machine is told of the oldest change. *)
RTake ==
  /\ line # <<>> /\ line' = Tail(line)
  /\ UNCHANGED <<locked, mode, trust>>

RFail ==
  /\ trust = "whole" /\ trust' = "gaps"
  /\ UNCHANGED <<locked, mode, line>>

RLapse ==
  /\ trust = "gaps" /\ mode = "subscribed" /\ mode' = "blind"
  /\ UNCHANGED <<locked, line, trust>>

REnd ==
  /\ mode' = "gone" /\ line' = <<>>
  /\ UNCHANGED <<locked, trust>>

RMove == trust' = "none"

RNext == RNoticed \/ RUndone \/ RUnnoticed \/ RBegin \/ RTake \/ RFail \/
         RLapse \/ REnd \/ RMove

RSpec == RInit /\ [][RNext]_rvars

(* What follows for the reader of the line: as long as nothing has failed,  *)
(* locks and unlocks take turns on it, and the last of them is the session. *)
InOrder ==
  trust = "whole" =>
    /\ locked \in BOOLEAN /\ line \in Seq(BOOLEAN)
    /\ mode = "blind" => line = <<>>
    /\ Listens =>
         \A i \in 1..Len(line) :
           line[i] = IF i = Len(line) THEN locked ELSE ~line[i + 1]
=============================================================================
