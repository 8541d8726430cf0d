-------------------------------- MODULE Ipc ---------------------------------
(***************************************************************************)
(* The control socket of the daemon (alertu-daemon/src/ipc.rs): one task   *)
(* per connection that selects between the client's next request and what  *)
(* the state machine publishes.  State and device list reach it through    *)
(* watch channels, which keep only the latest value; commands go to the    *)
(* machine through one bounded channel, and those that have an answer wait *)
(* for it inline.                                                          *)
(*                                                                         *)
(* A published value is represented by its version.  The clients are       *)
(* external: they may pipeline requests and may hang up at any moment.     *)
(***************************************************************************)
EXTENDS Naturals, Sequences

CONSTANTS
  None,         \* nothing in dispatch
  Clients,      \* connections
  Topics,       \* watch channels: the state, the device list
  Asks,         \* the requests each client of this model makes
  QueueCap,     \* room in the command channel
  InboxCap,     \* bound on the requests a client has in flight
  MaxVersion    \* bound on the values published on a topic

(* GetState and ListDevices; Subscribe; what is only acknowledged (Arm,     *)
(* Disarm, Toggle, TestSound); what the machine answers (GetConfig,         *)
(* SetConfig); LearnRemote; a line that is not a request.                   *)
Op == {"Get", "Subscribe", "Command", "Ask", "Learn", "Bad"}

ASSUME IpcAssumption ==
  /\ Clients # {} /\ "state" \in Topics
  /\ None \notin Op \cup Topics
  /\ Asks \in [Clients -> SUBSET Op]
  /\ QueueCap \in Nat \ {0} /\ InboxCap \in Nat \ {0} /\ MaxVersion \in Nat

Version == [Topics -> 0..MaxVersion]

(* inbox counts the lines not yet read: what a line asks is chosen when it  *)
(* is read.  current is the request in dispatch, or the topic that has      *)
(* changed; reply the oneshot; view, a history, what the client was told    *)
(* last.                                                                    *)
Connection == [phase      : {"closed", "select", "changed", "sending", "awaiting"},
               current    : Op \cup Topics \cup {None},
               inbox      : Nat,
               subscribed : BOOLEAN,
               seen       : Version,
               reply      : {"none", "sent", "dropped"},
               view       : Version]

VARIABLES
  version,    \* version of the value last published on each topic
  machine,    \* the state machine's task is alive
  ctrlQ,      \* [client, op] messages on the command channel
  learning,   \* clients whose pairing attempt runs, detached
  conn        \* the connection of each client

vars == <<version, machine, ctrlQ, learning, conn>>

Fresh(phase, seen) ==
  [phase |-> phase, current |-> None, inbox |-> 0,
   subscribed |-> FALSE, seen |-> seen, reply |-> "none",
   view |-> [t \in Topics |-> 0]]

Closed == Fresh("closed", [t \in Topics |-> 0])

Init ==
  /\ version = [t \in Topics |-> 0]
  /\ machine = TRUE /\ ctrlQ = <<>> /\ learning = {}
  /\ conn = [c \in Clients |-> Closed]

-----------------------------------------------------------------------------
(* Clients. *)

(* Form that leaves the receivers as cloned from those of `serve`. *)
ConnectUnmarked(c) ==
  /\ conn[c].phase = "closed"
  /\ conn' = [conn EXCEPT ![c] = Fresh("select", [t \in Topics |-> 0])]
  /\ UNCHANGED <<version, machine, ctrlQ, learning>>

(* serve and the start of handle_conn: the receivers are marked current.    *)
Connect(c) ==
  /\ conn[c].phase = "closed"
  /\ conn' = [conn EXCEPT ![c] = Fresh("select", version)]
  /\ UNCHANGED <<version, machine, ctrlQ, learning>>

Write(c) ==
  /\ conn[c].phase # "closed"
  /\ conn[c].inbox < InboxCap
  /\ conn' = [conn EXCEPT ![c].inbox = @ + 1]
  /\ UNCHANGED <<version, machine, ctrlQ, learning>>

-----------------------------------------------------------------------------
(* The state machine, as the connections see it. *)

Publish(t) ==
  /\ machine /\ version[t] < MaxVersion
  /\ version' = [version EXCEPT ![t] = @ + 1]
  /\ UNCHANGED <<machine, ctrlQ, learning, conn>>

Serve(op) ==
  /\ machine /\ ctrlQ # <<>> /\ Head(ctrlQ).op = op
  /\ ctrlQ' = Tail(ctrlQ)
  /\ UNCHANGED <<version, machine>>

Answer(c) == conn' = [conn EXCEPT ![c].reply = "sent"]

ServeCommand == Serve("Command") /\ UNCHANGED <<learning, conn>>

ServeAsk == Serve("Ask") /\ Answer(Head(ctrlQ).client) /\ UNCHANGED learning

(* Form in which the machine itself waits for the key press. *)
ServeLearnInline ==
  /\ machine /\ ctrlQ # <<>> /\ Head(ctrlQ).op = "Learn"
  /\ LET c == Head(ctrlQ).client
     IN  \/ conn[c].reply = "none" /\ learning' = {c} /\ UNCHANGED ctrlQ
         \/ conn[c].reply = "sent" /\ ctrlQ' = Tail(ctrlQ) /\ UNCHANGED learning
  /\ UNCHANGED <<version, machine, conn>>

(* Form that acknowledges an attempt, which will answer too. *)
ServeLearnTwice ==
  /\ Serve("Learn")
  /\ learning' = learning \cup {Head(ctrlQ).client} \/ UNCHANGED learning
  /\ Answer(Head(ctrlQ).client)

(* Pairing is refused unless idle; else a detached task takes over.         *)
ServeLearn ==
  /\ Serve("Learn")
  /\ \/ learning' = learning \cup {Head(ctrlQ).client} /\ UNCHANGED conn
     \/ Answer(Head(ctrlQ).client) /\ UNCHANGED learning

(* A key was learned, or the window closed: the machine need not be alive.  *)
LearnEnds(c) ==
  /\ c \in learning
  /\ learning' = learning \ {c}
  /\ Answer(c)
  /\ UNCHANGED <<version, machine, ctrlQ>>

(* The commands of client c in the channel that carry a promise.            *)
Promises(c) == {i \in DOMAIN ctrlQ : ctrlQ[i].client = c /\ ctrlQ[i].op # "Command"}

(* The machine's task ends: its channels close, and with the commands in    *)
(* the channel the promises they carry are dropped.                         *)
MachineEnds ==
  /\ machine
  /\ machine' = FALSE /\ ctrlQ' = <<>>
  /\ conn' = [c \in Clients |->
                IF Promises(c) = {} THEN conn[c]
                ELSE [conn[c] EXCEPT !.reply = "dropped"]]
  /\ UNCHANGED <<version, learning>>

-----------------------------------------------------------------------------
(* handle_conn, for the connection c. *)

(* write_response of a connection that has become k, then back to the       *)
(* select.  The client may have hung up by now: then the write fails and    *)
(* the connection ends.                                                     *)
Respond(c, k) ==
  \/ conn' = [conn EXCEPT ![c] = [k EXCEPT !.phase = "select", !.current = None]]
  \/ conn' = [conn EXCEPT ![c] = Closed]

Telling(k, topics) ==
  [k EXCEPT !.view = [t \in Topics |-> IF t \in topics THEN version[t] ELSE @[t]]]

(* The next line is a request op. *)
NextLine(c, op) ==
  /\ conn[c].phase = "select" /\ conn[c].inbox > 0
  /\ op \in Asks[c]

(* The connection without that line. *)
Rest(c) == [conn[c] EXCEPT !.inbox = @ - 1]

(* Form that reports what the receiver has seen instead of the latest.      *)
ReadGetSeen(c) ==
  /\ NextLine(c, "Get")
  /\ \E t \in Topics : Respond(c, [Rest(c) EXCEPT !.view[t] = conn[c].seen[t]])
  /\ UNCHANGED <<version, machine, ctrlQ, learning>>

(* The value is read without being marked as seen. *)
ReadGet(c) ==
  /\ NextLine(c, "Get")
  /\ \E t \in Topics : Respond(c, Telling(Rest(c), {t}))
  /\ UNCHANGED <<version, machine, ctrlQ, learning>>

(* The answer carries the state; the device list has to be asked for.       *)
ReadSubscribe(c) ==
  /\ NextLine(c, "Subscribe")
  /\ Respond(c, [Telling(Rest(c), {"state"}) EXCEPT !.subscribed = TRUE])
  /\ UNCHANGED <<version, machine, ctrlQ, learning>>

ReadBad(c) ==
  /\ NextLine(c, "Bad")
  /\ Respond(c, Rest(c))
  /\ UNCHANGED <<version, machine, ctrlQ, learning>>

(* The requests that go through the command channel. *)
ReadForMachine(c) ==
  /\ \E op \in {"Command", "Ask", "Learn"} :
       /\ NextLine(c, op)
       /\ conn' = [conn EXCEPT ![c] = [Rest(c) EXCEPT !.phase = "sending", !.current = op]]
  /\ UNCHANGED <<version, machine, ctrlQ, learning>>

(* The client has hung up, all its lines are read. *)
ReadEnd(c) ==
  /\ conn[c].phase = "select" /\ conn[c].inbox = 0
  /\ conn' = [conn EXCEPT ![c] = Closed]
  /\ UNCHANGED <<version, machine, ctrlQ, learning>>

(* Form that does not wait for room. *)
SendCtrlAtOnce(c) ==
  /\ conn[c].phase = "sending" /\ machine
  /\ ctrlQ' = Append(ctrlQ, [client |-> c, op |-> conn[c].current])
  /\ \/ conn[c].current = "Command" /\ Respond(c, conn[c])
     \/ /\ conn[c].current # "Command"
        /\ conn' = [conn EXCEPT ![c].phase = "awaiting"]
  /\ UNCHANGED <<version, machine, learning>>

(* ctrl_tx.send waits for room; a command is acknowledged as soon as it is  *)
(* in the channel.                                                          *)
SendCtrl(c) ==
  /\ conn[c].phase = "sending" /\ machine /\ Len(ctrlQ) < QueueCap
  /\ ctrlQ' = Append(ctrlQ, [client |-> c, op |-> conn[c].current])
  /\ \/ conn[c].current = "Command" /\ Respond(c, conn[c])
     \/ /\ conn[c].current # "Command"
        /\ conn' = [conn EXCEPT ![c].phase = "awaiting"]
  /\ UNCHANGED <<version, machine, learning>>

(* The machine is gone: the client is told so. *)
DaemonGone(c) ==
  /\ conn[c].phase = "sending" /\ ~machine
  /\ Respond(c, conn[c])
  /\ UNCHANGED <<version, machine, ctrlQ, learning>>

(* The oneshot resolves, to an answer or to an error. *)
Answered(c) ==
  /\ conn[c].phase = "awaiting" /\ conn[c].reply # "none"
  /\ Respond(c, [conn[c] EXCEPT !.reply = "none"])
  /\ UNCHANGED <<version, machine, ctrlQ, learning>>

(* Form that marks the value as seen and never pushes it.                   *)
ChangedWithoutPush(c, t) ==
  /\ conn[c].phase = "select" /\ conn[c].subscribed /\ conn[c].seen[t] # version[t]
  /\ conn' = [conn EXCEPT ![c].seen[t] = version[t]]
  /\ UNCHANGED <<version, machine, ctrlQ, learning>>

(* `changed()` resolves and marks the value as seen ...                     *)
Changed(c, t) ==
  /\ conn[c].phase = "select" /\ conn[c].subscribed /\ conn[c].seen[t] # version[t]
  /\ conn' = [conn EXCEPT ![c].seen[t] = version[t],
                          ![c].phase = "changed", ![c].current = t]
  /\ UNCHANGED <<version, machine, ctrlQ, learning>>

(* ... and the push borrows the value, which may be a newer one.            *)
Push(c) ==
  /\ conn[c].phase = "changed"
  /\ Respond(c, Telling(conn[c], {conn[c].current}))
  /\ UNCHANGED <<version, machine, ctrlQ, learning>>

(* `changed()` fails once the machine is gone and the value is seen.        *)
PublisherGone(c) ==
  /\ conn[c].phase = "select" /\ conn[c].subscribed /\ ~machine
  /\ \E t \in Topics : conn[c].seen[t] = version[t]
  /\ conn' = [conn EXCEPT ![c] = Closed]
  /\ UNCHANGED <<version, machine, ctrlQ, learning>>

-----------------------------------------------------------------------------
Dispatch(c) == ReadGet(c) \/ ReadSubscribe(c) \/ ReadBad(c) \/ ReadForMachine(c)

Finish(c) == SendCtrl(c) \/ DaemonGone(c) \/ Answered(c) \/ Push(c)

Notice(c) == PublisherGone(c) \/ \E t \in Topics : Changed(c, t)

MachineStep == ServeCommand \/ ServeAsk \/ ServeLearn

Next ==
  \/ \E c \in Clients : \/ Connect(c) \/ Write(c) \/ ReadEnd(c) \/ LearnEnds(c)
                        \/ Dispatch(c) \/ Finish(c) \/ Notice(c)
  \/ \E t \in Topics : Publish(t)
  \/ MachineStep \/ MachineEnds

Spec == Init /\ [][Next]_vars

(* Connections are scheduled; select! polls its branches in random order;   *)
(* the channel serves those that wait for room in turn; a live machine      *)
(* handles its commands.  Nothing ends a pairing attempt in this model.     *)
Fairness ==
  /\ WF_vars(MachineStep)
  /\ \A c \in Clients : SF_vars(Dispatch(c)) /\ SF_vars(Finish(c)) /\ SF_vars(Notice(c))

FairSpec == Spec /\ Fairness

-----------------------------------------------------------------------------
(* Every variable has a value the code could hold; the channel keeps to its *)
(* capacity.                                                                *)
TypeOK ==
  /\ version \in Version /\ machine \in BOOLEAN
  /\ ctrlQ \in Seq([client : Clients, op : {"Command", "Ask", "Learn"}])
  /\ Len(ctrlQ) <= QueueCap
  /\ learning \subseteq Clients
  /\ conn \in [Clients -> Connection]

(* A promise is kept by exactly one party: while a connection waits for an  *)
(* answer, its command is in the channel, or its pairing attempt runs, or   *)
(* the answer is there.  No command is served twice and none is lost, even  *)
(* when the machine ends or the client hangs up.                            *)
OnePromise ==
  \A c \in Clients :
    LET queued  == Promises(c) # {}
        runs    == c \in learning
        there   == conn[c].reply # "none"
    IN  /\ \A i, j \in Promises(c) : i = j
        /\ conn[c].phase = "awaiting" <=> queued \/ runs \/ there
        /\ ~(queued /\ runs) /\ ~(queued /\ there) /\ ~(runs /\ there)

(* What a client is told never goes back in time, whichever of replies and  *)
(* pushes carries it.                                                       *)
NeverBackwards ==
  [][\A c \in Clients, t \in Topics :
       conn'[c].phase # "closed" /\ conn[c].phase # "closed"
         => conn'[c].view[t] >= conn[c].view[t]]_vars

(* The pushes that a connection k still owes for each topic: one for the     *)
(* values not seen, and the one it is about to make.                        *)
News(k) ==
  [t \in Topics |->
     IF k.phase = "closed" THEN 0
     ELSE version[t] - k.seen[t]
          + (IF k.phase = "changed" /\ k.current = t THEN 1 ELSE 0)]

DueTo(k) == IF k.phase # "awaiting" THEN "nothing"
            ELSE IF k.reply = "none" THEN "asked" ELSE "ready"

Present   == {c \in Clients : conn[c].phase # "closed"}
Listening == {c \in Clients : conn[c].subscribed}
Knows     == [c \in Clients |-> conn[c].view]
AllNews   == [c \in Clients |-> News(conn[c])]
AllDue    == [c \in Clients |-> DueTo(conn[c])]

Promised == INSTANCE Service WITH
  latest <- version, present <- Present, listening <- Listening,
  knows <- Knows, news <- AllNews, due <- AllDue

(* The socket keeps the promise of module Service.  A push may repeat what  *)
(* a reply has said (a state published between the connection and its       *)
(* Subscribe is in the reply and pushed once more), but there are never     *)
(* more pushes than publications: nothing from before the connection is     *)
(* pushed, the "phantom transition" of ipc.rs:157.                          *)
KeepsService == Promised!SSpec

(* A subscriber is told the latest state, however fast the machine          *)
(* publishes and whatever else it asks, unless it is busy pairing.          *)
SubscriberCatchesUp ==
  \A c \in Clients :
    conn[c].subscribed
      ~> \/ conn[c].view["state"] = version["state"]
         \/ conn[c].phase = "closed"
         \/ c \in learning

(* Every dispatch comes to its end, the machine alive or gone, the channel  *)
(* full or not: a client in a pairing dialog stalls nobody else ("blocking  *)
(* the machine for it would stall `status`, `arm` and `disarm` for every    *)
(* client", machine.rs:215).                                                *)
OthersNotStalled ==
  \A c \in Clients :
    conn[c].phase # "select"
      ~> conn[c].phase \in {"select", "closed"} \/ c \in learning
=============================================================================
