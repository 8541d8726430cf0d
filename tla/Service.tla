------------------------------ MODULE Service -------------------------------
(***************************************************************************)
(* What the control socket promises its clients, with nothing of tasks,    *)
(* channels and receivers.  Whatever a client is told is the latest; one   *)
(* that has subscribed is pushed a topic at most once for each value       *)
(* published since it came, so never for what was there before, and one    *)
(* that has not reads nothing but its answers; a question is answered      *)
(* once, and until then the client is told nothing else and is not let go. *)
(* Ipc implements this specification.                                      *)
(***************************************************************************)
EXTENDS Naturals

CONSTANTS Clients, Topics

VARIABLES
  latest,    \* the value last published on each topic, as a count
  present,   \* the clients that are connected
  listening, \* those that have subscribed
  knows,     \* what each client was told last
  news,      \* the pushes a client may still be sent for what was published
  due        \* of each client: "nothing", "asked" or, an answer, "ready"

svars == <<latest, present, listening, knows, news, due>>

Nothing == [t \in Topics |-> 0]

SInit ==
  /\ latest = Nothing /\ present = {} /\ listening = {}
  /\ knows = [c \in Clients |-> Nothing] /\ news = [c \in Clients |-> Nothing]
  /\ due = [c \in Clients |-> "nothing"]

SPublish(t) ==
  /\ latest' = [latest EXCEPT ![t] = @ + 1]
  /\ news' = [c \in Clients |-> IF c \in present THEN [news[c] EXCEPT ![t] = @ + 1]
                                ELSE news[c]]
  /\ UNCHANGED <<present, listening, knows, due>>

SEnter(c) ==
  /\ c \notin present
  /\ present' = present \cup {c}
  /\ UNCHANGED <<latest, listening, knows, news, due>>

(* Free to be told something. *)
Attends(c) == c \in present /\ due[c] = "nothing"

Told(c, topics) ==
  knows' = [knows EXCEPT ![c] = [t \in Topics |-> IF t \in topics THEN latest[t] ELSE @[t]]]

SReply(c, t) ==
  /\ Attends(c) /\ Told(c, {t})
  /\ UNCHANGED <<latest, present, listening, news, due>>

SSubscribe(c, t) ==
  /\ Attends(c) /\ Told(c, {t})
  /\ listening' = listening \cup {c}
  /\ UNCHANGED <<latest, present, news, due>>

(* Several values may be told by one push ... *)
SFold(c, t) ==
  /\ Attends(c) /\ c \in listening
  /\ \E n \in 1..news[c][t] : news' = [news EXCEPT ![c][t] = n]
  /\ UNCHANGED <<latest, present, listening, knows, due>>

(* ... and each push uses one up. *)
SPush(c, t) ==
  /\ Attends(c) /\ c \in listening /\ news[c][t] > 0
  /\ Told(c, {t})
  /\ news' = [news EXCEPT ![c][t] = @ - 1]
  /\ UNCHANGED <<latest, present, listening, due>>

SAsk(c) ==
  /\ Attends(c)
  /\ due' = [due EXCEPT ![c] = "asked"]
  /\ UNCHANGED <<latest, present, listening, knows, news>>

(* Answers come one at a time, or an error for all those of a machine gone. *)
SResolve(clients) ==
  /\ \A c \in clients : due[c] = "asked"
  /\ due' = [c \in Clients |-> IF c \in clients THEN "ready" ELSE due[c]]
  /\ UNCHANGED <<latest, present, listening, knows, news>>

SAnswer(c) ==
  /\ due[c] = "ready"
  /\ due' = [due EXCEPT ![c] = "nothing"]
  /\ UNCHANGED <<latest, present, listening, knows, news>>

SLeave(c) ==
  /\ c \in present /\ due[c] # "asked"
  /\ present' = present \ {c} /\ listening' = listening \ {c}
  /\ knows' = [knows EXCEPT ![c] = Nothing]
  /\ news' = [news EXCEPT ![c] = Nothing]
  /\ due' = [due EXCEPT ![c] = "nothing"]
  /\ UNCHANGED latest

SNext ==
  \/ \E t \in Topics : SPublish(t)
  \/ \E clients \in SUBSET Clients : SResolve(clients)
  \/ \E c \in Clients : \/ SEnter(c) \/ SAsk(c) \/ SAnswer(c) \/ SLeave(c)
                        \/ \E t \in Topics : SReply(c, t) \/ SSubscribe(c, t)
                                                 \/ SFold(c, t) \/ SPush(c, t)

SSpec == SInit /\ [][SNext]_svars
=============================================================================
