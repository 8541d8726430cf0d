------------------------------- MODULE Learn -------------------------------
(***************************************************************************)
(* A pairing attempt (learn.rs): a task of its own, detached from the      *)
(* state machine that started it, that listens to every device except the  *)
(* pointer and answers its oneshot with the first key pressed once the     *)
(* settle window is over, or with nothing.                                 *)
(*                                                                         *)
(* One attempt runs at a time here: that of the connection under study.    *)
(***************************************************************************)
EXTENDS Devices, Sequences

CONSTANT KeyOf      \* the key each device sends, as {code:?} spells it

VARIABLE attempt    \* the attempt that runs, or None

(* ears are the nodes whose reader is alive; settled, that the settle       *)
(* window is over.                                                          *)
Attempt == [ears : SUBSET Nodes, settled : BOOLEAN]

(* The answer; device, a history, is the hardware behind it.  The key goes  *)
(* by its spelling, which the daemon parses when it is configured: Parsed.  *)
Learned(n, d) == [kind |-> "Learned", path |-> n, name |-> NameOf[d],
                  key |-> KeyOf[d], device |-> d]

(* Only devices that can be listed, and never the main pointer. *)
Listening == {n \in Listed : at[n] \notin Pointers}

(* learn::run begins.  Without a device to listen to it answers at once:    *)
(* see CannotListen.                                                        *)
Listen ==
  /\ attempt = None /\ Listening # {}
  /\ attempt' = [ears |-> Listening, settled |-> FALSE]

CannotListen == attempt = None /\ Listening = {} /\ UNCHANGED attempt

(* The reader of a node that goes away, or that cannot be read, ends.       *)
Deafen(n) ==
  attempt' = IF attempt = None THEN None ELSE [attempt EXCEPT !.ears = @ \ {n}]

Settle ==
  /\ attempt # None /\ ~attempt.settled
  /\ attempt' = [attempt EXCEPT !.settled = TRUE]

(* watch_one forwards a press on node n.  Inside the settle window it is    *)
(* discarded; the first one after it ends the attempt.                      *)
Hears(n) == attempt # None /\ n \in attempt.ears /\ attempt.settled

LearnFrom(n) == Hears(n) /\ attempt' = None

(* The window closes, which is longer than the settle window; or every      *)
(* reader has ended.                                                        *)
TimeOut ==
  /\ attempt # None
  /\ attempt.settled \/ attempt.ears = {}
  /\ attempt' = None

LearnTypeOK == attempt \in Attempt \cup {None}
=============================================================================
