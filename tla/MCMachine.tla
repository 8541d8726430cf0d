----------------------------- MODULE MCMachine -----------------------------
(* Small instances of Machine for TLC. *)
EXTENDS Machine

BothSignals  == {"RemoteToggle", "Activity"}
OnlyActivity == {"Activity"}
OnlyRemote   == {"RemoteToggle"}

DisarmOps  == {"Disarm"}
PromiseOps == {"Toggle", "Disarm", "SetConfig"}

(* Three ticks of countdown leave room for a second warning in the middle   *)
(* that is not due together with the end, one is enough to expire; a second *)
(* configuration without grace and with the shortest countdown can replace  *)
(* the first at any moment.                                                 *)
OneConfig  == {[grace |-> 1, delay |-> 2]}
TwoConfigs == {[grace |-> 1, delay |-> 3], [grace |-> 0, delay |-> 0]}
ShortOrNone == {[grace |-> 1, delay |-> 1], [grace |-> 0, delay |-> 0]}
=============================================================================
