----------------------------- MODULE IpcProofs -----------------------------
(***************************************************************************)
(* What Ipc guarantees for every set of clients and topics, whatever they  *)
(* ask and however small the command channel.                              *)
(***************************************************************************)
EXTENDS Ipc, TLAPS

USE IpcAssumption

(* What a connection holds in dispatch. *)
Shape(k) ==
  /\ k.phase = "sending" => k.current \in {"Command", "Ask", "Learn"}
  /\ k.phase = "changed" => k.current \in Topics

IpcInv == TypeOK /\ OnePromise /\ \A c \in Clients : Shape(conn[c])

Message == [client : Clients, op : {"Command", "Ask", "Learn"}]

-----------------------------------------------------------------------------
(* The command channel. *)

(* The promises in the channel after the first message is taken.            *)
LEMMA PromisesTail ==
  ASSUME ctrlQ \in Seq(Message), ctrlQ # <<>>, ctrlQ' = Tail(ctrlQ),
         NEW c \in Clients, \A i, j \in Promises(c) : i = j
  PROVE  /\ \A i, j \in Promises(c)' : i = j
         /\ Head(ctrlQ).client = c /\ Head(ctrlQ).op # "Command"
              => Promises(c) # {} /\ Promises(c)' = {}
         /\ ~(Head(ctrlQ).client = c /\ Head(ctrlQ).op # "Command")
              => (Promises(c)' # {} <=> Promises(c) # {})
<1>1. /\ DOMAIN ctrlQ = 1..Len(ctrlQ) /\ Len(ctrlQ) \in Nat \ {0}
      /\ DOMAIN ctrlQ' = 1..(Len(ctrlQ) - 1) /\ Head(ctrlQ) = ctrlQ[1]
      /\ \A i \in DOMAIN ctrlQ' : ctrlQ'[i] = ctrlQ[i + 1]
  OBVIOUS
<1>2. \A i \in Promises(c)' : i \in Nat /\ i + 1 \in Promises(c)
  BY <1>1 DEF Promises
<1>3. \A i \in Promises(c) : i \in Nat /\ (i # 1 => i - 1 \in Promises(c)')
  BY <1>1 DEF Promises
<1>4. 1 \in Promises(c) <=> Head(ctrlQ).client = c /\ Head(ctrlQ).op # "Command"
  BY <1>1 DEF Promises
<1>5. ASSUME NEW i \in Promises(c)', NEW j \in Promises(c)' PROVE i = j
  <2>1. i + 1 = j + 1 /\ i \in Nat /\ j \in Nat
    BY <1>2, <1>5
  <2> QED BY <2>1
<1>6. ASSUME 1 \in Promises(c), NEW i \in Promises(c)' PROVE FALSE
  <2>1. i + 1 = 1 /\ i \in 1..(Len(ctrlQ) - 1)
    BY <1>1, <1>2, <1>6 DEF Promises
  <2> QED BY <1>1, <2>1
<1> QED BY <1>2, <1>3, <1>4, <1>5, <1>6

(* And after one is added. *)
LEMMA PromisesAppend ==
  ASSUME ctrlQ \in Seq(Message), NEW m \in Message, ctrlQ' = Append(ctrlQ, m),
         NEW c \in Clients, \A i, j \in Promises(c) : i = j
  PROVE  /\ m.client = c /\ m.op # "Command" /\ Promises(c) = {}
              => Promises(c)' # {} /\ \A i, j \in Promises(c)' : i = j
         /\ ~(m.client = c /\ m.op # "Command") => Promises(c)' = Promises(c)
<1>1. /\ DOMAIN ctrlQ = 1..Len(ctrlQ) /\ Len(ctrlQ) \in Nat
      /\ DOMAIN ctrlQ' = 1..(Len(ctrlQ) + 1) /\ ctrlQ'[Len(ctrlQ) + 1] = m
      /\ \A i \in DOMAIN ctrlQ : ctrlQ'[i] = ctrlQ[i]
  OBVIOUS
<1>2. 1..(Len(ctrlQ) + 1) = (1..Len(ctrlQ)) \cup {Len(ctrlQ) + 1}
  BY <1>1
<1>3. Promises(c)' = Promises(c) \cup
        {i \in {Len(ctrlQ) + 1} : m.client = c /\ m.op # "Command"}
  BY <1>1, <1>2 DEF Promises
<1> QED BY <1>3

(* Messages keep their type and the channel its bound. *)
LEMMA ChannelType ==
  ASSUME NEW q \in Seq(Message)
  PROVE  /\ \A m \in Message : Append(q, m) \in Seq(Message)
                               /\ Len(Append(q, m)) = Len(q) + 1
         /\ q # <<>> => /\ Head(q) \in Message /\ Tail(q) \in Seq(Message)
                        /\ Len(Tail(q)) = Len(q) - 1
         /\ Len(q) \in Nat
OBVIOUS

-----------------------------------------------------------------------------
(* Connections. *)

(* A step that leaves the promises outside the connections alone. *)
ChannelKept ==
  /\ version' \in Version /\ machine' \in BOOLEAN /\ learning' = learning
  /\ ctrlQ' \in Seq(Message) /\ Len(ctrlQ') <= QueueCap
  /\ \A d \in Clients : Promises(d)' = Promises(d)

(* A step of a connection that sends nothing is one.                        *)
LEMMA Untouched ==
  ASSUME IpcInv, UNCHANGED <<version, machine, ctrlQ, learning>> PROVE ChannelKept
BY DEF IpcInv, TypeOK, Message, ChannelKept, Promises

(* A step of one connection that neither begins nor ends to wait.           *)
LEMMA Quiet ==
  ASSUME IpcInv, NEW c \in Clients, NEW k \in Connection,
         conn' = [conn EXCEPT ![c] = k],
         ChannelKept,
         k.phase = "awaiting" <=> conn[c].phase = "awaiting",
         k.reply = conn[c].reply, Shape(k)
  PROVE  IpcInv'
<1>1. conn \in [Clients -> Connection]
  BY DEF IpcInv, TypeOK
<1>2. /\ conn' \in [Clients -> Connection] /\ conn'[c] = k
      /\ \A d \in Clients : d # c => conn'[d] = conn[d]
  BY <1>1
<1>3. \A d \in Clients : /\ conn'[d].phase = "awaiting" <=> conn[d].phase = "awaiting"
                         /\ conn'[d].reply = conn[d].reply /\ Shape(conn'[d])
  BY <1>2 DEF IpcInv
<1>4. TypeOK'
  BY <1>2 DEF IpcInv, TypeOK, ChannelKept, Message
<1>5. OnePromise'
  BY <1>3 DEF IpcInv, OnePromise, ChannelKept
<1> QED BY <1>3, <1>4, <1>5 DEF IpcInv

(* A connection that does not wait has no answer. *)
LEMMA NoAnswer ==
  ASSUME IpcInv, NEW c \in Clients, conn[c].phase # "awaiting"
  PROVE  conn[c].reply = "none" /\ Promises(c) = {} /\ c \notin learning
BY DEF IpcInv, OnePromise

(* Connections begin and end without an answer. *)
LEMMA FreshType ==
  /\ Closed \in Connection /\ Closed.phase = "closed" /\ Closed.reply = "none"
  /\ \A v \in Version : /\ Fresh("select", v) \in Connection
                        /\ Fresh("select", v).phase = "select"
                        /\ Fresh("select", v).reply = "none"
BY DEF Closed, Fresh, Connection, Version, Op

(* A connection that wrote a response selects again, or is over.            *)
LEMMA Responds ==
  ASSUME IpcInv, NEW c \in Clients, NEW k \in Connection, Respond(c, k),
         ChannelKept, conn[c].phase # "awaiting", k.reply = "none"
  PROVE  IpcInv'
<1> DEFINE s == [k EXCEPT !.phase = "select", !.current = None]
<1>1. s \in Connection /\ s.phase = "select" /\ s.reply = "none"
  BY DEF Connection
<1>2. conn[c].reply = "none"
  BY NoAnswer
<1>3. CASE conn' = [conn EXCEPT ![c] = s]
  <2> HIDE DEF s
  <2> QED BY <1>1, <1>2, <1>3, Quiet DEF Shape
<1>4. CASE conn' = [conn EXCEPT ![c] = Closed]
  BY <1>2, <1>4, FreshType, Quiet DEF Shape
<1> QED BY <1>3, <1>4 DEF Respond

(* A connection that is not waiting may end. *)
LEMMA Closes ==
  ASSUME IpcInv, NEW c \in Clients, conn' = [conn EXCEPT ![c] = Closed],
         ChannelKept, conn[c].phase # "awaiting"
  PROVE  IpcInv'
BY NoAnswer, FreshType, Quiet DEF Shape

(* Telling a client a value keeps the type. *)
LEMMA TellingType ==
  ASSUME TypeOK, NEW k \in Connection, NEW topics
  PROVE  Telling(k, topics) \in Connection /\ Telling(k, topics).reply = k.reply
<1> DEFINE v == [t \in Topics |-> IF t \in topics THEN version[t] ELSE k.view[t]]
<1>1. v \in Version
  BY DEF TypeOK, Version, Connection
<1>2. Telling(k, topics) = [k EXCEPT !.view = v]
  BY DEF Telling, Connection
<1> HIDE DEF v
<1> QED BY <1>1, <1>2 DEF Connection

(* So does taking a line. *)
LEMMA RestType ==
  ASSUME IpcInv, NEW c \in Clients, conn[c].inbox > 0
  PROVE  Rest(c) \in Connection /\ Rest(c).reply = conn[c].reply
<1> DEFINE n == conn[c].inbox - 1
<1>1. conn[c] \in Connection /\ n \in Nat
  BY DEF IpcInv, TypeOK, Connection
<1>2. Rest(c) = [conn[c] EXCEPT !.inbox = n]
  BY DEF Rest
<1> HIDE DEF n
<1> QED BY <1>1, <1>2 DEF Connection

-----------------------------------------------------------------------------
(* The steps of a connection.                                               *)

(* A client connects. *)
LEMMA ConnectStep == ASSUME IpcInv, NEW c \in Clients, Connect(c) PROVE IpcInv'
<1>1. ChannelKept
  BY Untouched DEF Connect
<1>2. version \in Version
  BY DEF IpcInv, TypeOK
<1>3. conn[c].reply = "none"
  BY NoAnswer DEF Connect
<1> QED BY <1>1, <1>2, <1>3, FreshType, Quiet DEF Connect, Shape

(* A client writes a line. *)
LEMMA WriteStep == ASSUME IpcInv, NEW c \in Clients, Write(c) PROVE IpcInv'
<1> DEFINE n == conn[c].inbox + 1
           k == [conn[c] EXCEPT !.inbox = n]
<1>1. ChannelKept
  BY Untouched DEF Write
<1>2. conn[c] \in Connection /\ n \in Nat /\ Shape(conn[c])
  BY DEF IpcInv, TypeOK, Connection
<1>3. conn' = [conn EXCEPT ![c] = k]
  BY DEF Write, IpcInv, TypeOK
<1> HIDE DEF n
<1>4. k \in Connection /\ k.phase = conn[c].phase /\ k.reply = conn[c].reply /\ Shape(k)
  BY <1>2 DEF Connection, Shape
<1> HIDE DEF k
<1> QED BY <1>1, <1>3, <1>4, Quiet

(* Requests answered by the connection itself. *)
LEMMA ReadStep ==
  ASSUME IpcInv, NEW c \in Clients, ReadGet(c) \/ ReadSubscribe(c) \/ ReadBad(c)
  PROVE  IpcInv'
<1>1. ChannelKept /\ conn[c].phase = "select" /\ conn[c].inbox > 0
  BY Untouched DEF ReadGet, ReadSubscribe, ReadBad, NextLine
<1>2. conn[c].reply = "none" /\ TypeOK
  BY <1>1, NoAnswer DEF IpcInv
<1>3. Rest(c) \in Connection /\ Rest(c).reply = "none"
  BY <1>1, <1>2, RestType
<1>4. \A topics : Telling(Rest(c), topics) \in Connection
                  /\ Telling(Rest(c), topics).reply = "none"
  BY <1>2, <1>3, TellingType
<1>5. CASE ReadGet(c)
  BY <1>1, <1>4, <1>5, Responds DEF ReadGet
<1>6. CASE ReadSubscribe(c)
  <2> DEFINE t == Telling(Rest(c), {"state"})
             k == [t EXCEPT !.subscribed = TRUE]
  <2>1. t \in Connection /\ t.reply = "none"
    BY <1>4
  <2>2. Respond(c, k)
    BY <1>6 DEF ReadSubscribe
  <2> HIDE DEF t
  <2>3. k \in Connection /\ k.reply = "none"
    BY <2>1 DEF Connection
  <2> HIDE DEF k
  <2> QED BY <1>1, <2>2, <2>3, Responds
<1>7. CASE ReadBad(c)
  BY <1>1, <1>3, <1>7, Responds DEF ReadBad
<1> QED BY <1>5, <1>6, <1>7

(* Requests for the machine. *)
LEMMA ReadForMachineStep ==
  ASSUME IpcInv, NEW c \in Clients, ReadForMachine(c) PROVE IpcInv'
<1>1. PICK op \in {"Command", "Ask", "Learn"} :
        /\ NextLine(c, op)
        /\ conn' = [conn EXCEPT ![c] = [Rest(c) EXCEPT !.phase = "sending", !.current = op]]
  BY DEF ReadForMachine
<1>2. ChannelKept /\ conn[c].phase = "select" /\ conn[c].inbox > 0
  BY <1>1, Untouched DEF ReadForMachine, NextLine
<1>3. Rest(c) \in Connection /\ Rest(c).reply = conn[c].reply
  BY <1>2, RestType
<1> DEFINE k == [Rest(c) EXCEPT !.phase = "sending", !.current = op]
<1>4. k \in Connection /\ k.phase = "sending" /\ k.current = op /\ k.reply = conn[c].reply
  BY <1>3 DEF Connection, Op
<1> HIDE DEF k
<1>5. conn' = [conn EXCEPT ![c] = k]
  BY <1>1 DEF k
<1> QED BY <1>2, <1>4, <1>5, Quiet DEF Shape

(* A connection ends, for want of its client or of the machine. *)
LEMMA EndStep ==
  ASSUME IpcInv, NEW c \in Clients, ReadEnd(c) \/ PublisherGone(c) PROVE IpcInv'
BY Untouched, Closes DEF ReadEnd, PublisherGone

(* The machine is gone. *)
LEMMA DaemonGoneStep == ASSUME IpcInv, NEW c \in Clients, DaemonGone(c) PROVE IpcInv'
<1>1. conn[c] \in Connection /\ conn[c].phase = "sending"
  BY DEF DaemonGone, IpcInv, TypeOK
<1>2. conn[c].reply = "none"
  BY <1>1, NoAnswer
<1> QED BY <1>1, <1>2, Untouched, Responds DEF DaemonGone

(* A change is noticed. *)
LEMMA ChangedStep ==
  ASSUME IpcInv, NEW c \in Clients, NEW t \in Topics, Changed(c, t) PROVE IpcInv'
<1> DEFINE v == [conn[c].seen EXCEPT ![t] = version[t]]
           k == [conn[c] EXCEPT !.seen = v, !.phase = "changed", !.current = t]
<1>1. ChannelKept /\ conn[c].phase = "select" /\ conn[c] \in Connection
  BY Untouched DEF Changed, IpcInv, TypeOK
<1>2. v \in Version
  BY <1>1 DEF IpcInv, TypeOK, Version, Connection
<1>3. conn' = [conn EXCEPT ![c] = k]
  BY <1>1 DEF Changed, IpcInv, TypeOK, Connection
<1> HIDE DEF v
<1>4. k \in Connection /\ k.phase = "changed" /\ k.current = t /\ k.reply = conn[c].reply
  BY <1>1, <1>2 DEF Connection
<1> HIDE DEF k
<1> QED BY <1>1, <1>3, <1>4, Quiet DEF Shape

(* The value noticed is pushed. *)
LEMMA PushStep == ASSUME IpcInv, NEW c \in Clients, Push(c) PROVE IpcInv'
<1>1. ChannelKept /\ conn[c].phase = "changed" /\ conn[c] \in Connection /\ TypeOK
  BY Untouched DEF Push, IpcInv, TypeOK
<1>2. conn[c].reply = "none"
  BY <1>1, NoAnswer
<1> QED BY <1>1, <1>2, TellingType, Responds DEF Push

-----------------------------------------------------------------------------
(* The steps that move a promise.                                           *)

(* The promises of one client moved, those of the others are where they     *)
(* were.                                                                    *)
LEMMA Moved ==
  ASSUME IpcInv, NEW c \in Clients, NEW k \in Connection, Shape(k),
         conn' = [conn EXCEPT ![c] = k],
         version' = version, machine' = machine, learning' \subseteq Clients,
         ctrlQ' \in Seq(Message), Len(ctrlQ') <= QueueCap,
         \A d \in Clients \ {c} :
           /\ \A i, j \in Promises(d)' : i = j
           /\ Promises(d)' # {} <=> Promises(d) # {}
           /\ d \in learning' <=> d \in learning,
         \A i, j \in Promises(c)' : i = j,
         k.phase = "awaiting"
           <=> Promises(c)' # {} \/ c \in learning' \/ k.reply # "none",
         ~(Promises(c)' # {} /\ c \in learning'),
         ~(Promises(c)' # {} /\ k.reply # "none"),
         ~(c \in learning' /\ k.reply # "none")
  PROVE  IpcInv'
<1>1. /\ conn' \in [Clients -> Connection] /\ conn'[c] = k
      /\ \A d \in Clients : d # c => conn'[d] = conn[d]
  BY DEF IpcInv, TypeOK
<1>2. TypeOK'
  BY <1>1 DEF IpcInv, TypeOK, Message
<1>3. OnePromise'
  BY <1>1 DEF IpcInv, OnePromise
<1> QED BY <1>1, <1>2, <1>3 DEF IpcInv

(* The command in dispatch enters the channel.                              *)
LEMMA SendCtrlStep == ASSUME IpcInv, NEW c \in Clients, SendCtrl(c) PROVE IpcInv'
<1> DEFINE m == [client |-> c, op |-> conn[c].current]
           k == [conn[c] EXCEPT !.phase = "awaiting"]
<1>1. /\ conn[c] \in Connection /\ conn[c].phase = "sending"
      /\ conn[c].current \in {"Command", "Ask", "Learn"}
      /\ ctrlQ \in Seq(Message) /\ Len(ctrlQ) < QueueCap
      /\ UNCHANGED <<version, machine, learning>> /\ ctrlQ' = Append(ctrlQ, m)
  BY DEF SendCtrl, IpcInv, TypeOK, Shape, Message
<1>2. m \in Message /\ m.client = c /\ m.op = conn[c].current
  BY <1>1 DEF Message
<1>3. conn[c].reply = "none" /\ Promises(c) = {} /\ c \notin learning
  BY <1>1, NoAnswer
<1>4. \A d \in Clients : \A i, j \in Promises(d) : i = j
  BY DEF IpcInv, OnePromise
<1> HIDE DEF m
<1>5. ctrlQ' \in Seq(Message) /\ Len(ctrlQ') <= QueueCap
  BY <1>1, <1>2, ChannelType
<1>6. \A d \in Clients : ~(d = c /\ conn[c].current # "Command")
                          => Promises(d)' = Promises(d)
  BY <1>1, <1>2, <1>4, PromisesAppend
<1>7. CASE conn[c].current = "Command"
  <2>1. Respond(c, conn[c])
    BY <1>7 DEF SendCtrl
  <2>2. ChannelKept
    BY <1>1, <1>5, <1>6, <1>7 DEF ChannelKept, IpcInv, TypeOK
  <2> QED BY <1>1, <1>3, <2>1, <2>2, Responds
<1>8. CASE conn[c].current # "Command"
  <2>1. conn' = [conn EXCEPT ![c] = k]
    BY <1>8 DEF SendCtrl
  <2>2. k \in Connection /\ k.phase = "awaiting" /\ k.reply = "none" /\ Shape(k)
    BY <1>1, <1>3 DEF Connection, Shape
  <2>3. Promises(c)' # {} /\ \A i, j \in Promises(c)' : i = j
    BY <1>1, <1>2, <1>3, <1>4, <1>8, PromisesAppend
  <2> HIDE DEF k
  <2>4. \A d \in Clients \ {c} : /\ \A i, j \in Promises(d)' : i = j
                                 /\ Promises(d)' # {} <=> Promises(d) # {}
                                 /\ d \in learning' <=> d \in learning
    BY <1>1, <1>4, <1>6
  <2>5. learning' \subseteq Clients /\ c \notin learning'
    BY <1>1, <1>3 DEF IpcInv, TypeOK
  <2> QED BY <1>1, <1>5, <2>1, <2>2, <2>3, <2>4, <2>5, Moved
<1> QED BY <1>7, <1>8

(* The answer is taken.                                                     *)
LEMMA AnsweredStep == ASSUME IpcInv, NEW c \in Clients, Answered(c) PROVE IpcInv'
<1> DEFINE k == [conn[c] EXCEPT !.reply = "none"]
           s == [k EXCEPT !.phase = "select", !.current = None]
<1>1. /\ conn[c] \in Connection /\ conn[c].reply # "none"
      /\ UNCHANGED <<version, machine, ctrlQ, learning>>
  BY DEF Answered, IpcInv, TypeOK
<1>2. Promises(c) = {} /\ c \notin learning
  BY <1>1 DEF IpcInv, OnePromise
<1>3. \A d \in Clients : Promises(d)' = Promises(d)
  BY <1>1 DEF Promises
<1>4. /\ s \in Connection /\ s.phase = "select" /\ s.reply = "none" /\ Shape(s)
      /\ Closed \in Connection /\ Closed.phase = "closed" /\ Closed.reply = "none"
      /\ Shape(Closed)
  BY <1>1, FreshType DEF Connection, Shape
<1>5. \A d \in Clients \ {c} : /\ \A i, j \in Promises(d)' : i = j
                               /\ Promises(d)' # {} <=> Promises(d) # {}
                               /\ d \in learning' <=> d \in learning
  <2>1. \A d \in Clients : \A i, j \in Promises(d) : i = j
    BY DEF IpcInv, OnePromise
  <2> QED BY <1>1, <1>3, <2>1
<1>6. /\ Promises(c)' = {} /\ \A i, j \in Promises(c)' : i = j
      /\ c \notin learning'
      /\ learning' \subseteq Clients /\ ctrlQ' \in Seq(Message) /\ Len(ctrlQ') <= QueueCap
  BY <1>1, <1>2, <1>3 DEF IpcInv, TypeOK, Message
<1>7. conn' = [conn EXCEPT ![c] = s] \/ conn' = [conn EXCEPT ![c] = Closed]
  BY DEF Answered, Respond
<1> HIDE DEF k, s
<1>8. CASE conn' = [conn EXCEPT ![c] = s]
  BY <1>1, <1>4, <1>5, <1>6, <1>8, Moved
<1>9. CASE conn' = [conn EXCEPT ![c] = Closed]
  BY <1>1, <1>4, <1>5, <1>6, <1>9, Moved
<1> QED BY <1>7, <1>8, <1>9

(* The answer arrives.                                                      *)
LEMMA AnswerType ==
  ASSUME IpcInv, NEW c \in Clients, NEW r \in {"sent", "dropped"}
  PROVE  LET k == [conn[c] EXCEPT !.reply = r]
         IN  k \in Connection /\ k.reply = r /\ k.phase = conn[c].phase /\ Shape(k)
<1>1. conn[c] \in Connection /\ Shape(conn[c])
  BY DEF IpcInv, TypeOK
<1> QED BY <1>1 DEF Connection, Shape

(* The machine takes a command.                                             *)
LEMMA ServeStep == ASSUME IpcInv, MachineStep PROVE IpcInv'
<1> DEFINE m == Head(ctrlQ)
           c == m.client
           k == [conn[c] EXCEPT !.reply = "sent"]
<1>1. /\ ctrlQ \in Seq(Message) /\ ctrlQ # <<>> /\ ctrlQ' = Tail(ctrlQ)
      /\ UNCHANGED <<version, machine>> /\ Len(ctrlQ) <= QueueCap
      /\ learning \subseteq Clients
  BY DEF MachineStep, ServeCommand, ServeAsk, ServeLearn, Serve, IpcInv, TypeOK, Message
<1>2. /\ m \in Message /\ ctrlQ' \in Seq(Message) /\ Len(ctrlQ') <= QueueCap
  BY <1>1, ChannelType
<1>3. c \in Clients
  BY <1>2 DEF Message
<1>4. \A d \in Clients : \A i, j \in Promises(d) : i = j
  BY DEF IpcInv, OnePromise
<1>5. \A d \in Clients :
        /\ \A i, j \in Promises(d)' : i = j
        /\ d = c /\ m.op # "Command" => Promises(d) # {} /\ Promises(d)' = {}
        /\ ~(d = c /\ m.op # "Command") => (Promises(d)' # {} <=> Promises(d) # {})
  BY <1>1, <1>4, PromisesTail
<1>6. /\ k \in Connection /\ k.reply = "sent" /\ k.phase = conn[c].phase /\ Shape(k)
      /\ conn[c] \in Connection /\ Shape(conn[c]) /\ conn = [conn EXCEPT ![c] = conn[c]]
  BY <1>3, AnswerType DEF IpcInv, TypeOK
<1>7. ASSUME m.op # "Command"
      PROVE  conn[c].phase = "awaiting" /\ conn[c].reply = "none" /\ c \notin learning
  BY <1>3, <1>5, <1>7 DEF IpcInv, OnePromise
<1>8. \/ m.op = "Command" /\ UNCHANGED <<learning, conn>>
      \/ m.op # "Command" /\ conn' = [conn EXCEPT ![c] = k] /\ learning' = learning
      \/ m.op # "Command" /\ conn' = conn /\ learning' = learning \cup {c}
  BY DEF MachineStep, ServeCommand, ServeAsk, ServeLearn, Serve, Answer
<1> HIDE DEF k
<1>9. CASE m.op = "Command" /\ UNCHANGED <<learning, conn>>
  <2>1. \A d \in Clients : Promises(d)' # {} <=> Promises(d) # {}
    BY <1>5, <1>9
  <2>2. OnePromise'
    BY <1>5, <1>9, <2>1 DEF IpcInv, OnePromise
  <2> QED BY <1>1, <1>2, <1>9, <2>2 DEF IpcInv, TypeOK, Message
<1>10. CASE m.op # "Command" /\ conn' = [conn EXCEPT ![c] = k] /\ learning' = learning
  <2> HIDE DEF m, c
  <2> QED BY <1>1, <1>2, <1>3, <1>5, <1>6, <1>7, <1>10, Moved
<1>11. CASE m.op # "Command" /\ conn' = conn /\ learning' = learning \cup {c}
  <2> HIDE DEF m, c
  <2> QED BY <1>1, <1>2, <1>3, <1>5, <1>6, <1>7, <1>11, Moved
<1> QED BY <1>8, <1>9, <1>10, <1>11

(* A pairing attempt answers.                                               *)
LEMMA LearnEndsStep == ASSUME IpcInv, NEW c \in Clients, LearnEnds(c) PROVE IpcInv'
<1> DEFINE k == [conn[c] EXCEPT !.reply = "sent"]
<1>1. k \in Connection /\ k.reply = "sent" /\ k.phase = conn[c].phase /\ Shape(k)
  BY AnswerType
<1>2. /\ conn[c].phase = "awaiting" /\ Promises(c) = {}
      /\ \A d \in Clients : \A i, j \in Promises(d) : i = j
  BY DEF LearnEnds, IpcInv, OnePromise
<1>3. conn' = [conn EXCEPT ![c] = k] /\ learning' = learning \ {c}
  BY DEF LearnEnds, Answer
<1>4. /\ UNCHANGED <<version, machine, ctrlQ>> /\ learning \subseteq Clients
      /\ ctrlQ' \in Seq(Message) /\ Len(ctrlQ') <= QueueCap
  BY DEF LearnEnds, IpcInv, TypeOK, Message
<1>5. \A d \in Clients : Promises(d)' = Promises(d)
  BY <1>4 DEF Promises
<1>6. \A d \in Clients \ {c} : /\ \A i, j \in Promises(d)' : i = j
                               /\ Promises(d)' # {} <=> Promises(d) # {}
                               /\ d \in learning' <=> d \in learning
  BY <1>2, <1>3, <1>5
<1>7. Promises(c)' = {} /\ c \notin learning' /\ learning' \subseteq Clients
  BY <1>2, <1>3, <1>4, <1>5
<1> HIDE DEF k
<1> QED BY <1>1, <1>2, <1>3, <1>4, <1>6, <1>7, Moved

(* The machine ends, and drops the promises in its channel.                 *)
LEMMA MachineEndsStep == ASSUME IpcInv, MachineEnds PROVE IpcInv'
<1>1. /\ ctrlQ' = <<>> /\ UNCHANGED <<version, learning>> /\ machine' \in BOOLEAN
  BY DEF MachineEnds
<1>2. \A d \in Clients : Promises(d)' = {}
  BY <1>1 DEF Promises
<1>3. \A d \in Clients :
        conn'[d] = IF Promises(d) = {} THEN conn[d] ELSE [conn[d] EXCEPT !.reply = "dropped"]
  BY DEF MachineEnds
<1>4. ASSUME NEW d \in Clients
      PROVE  /\ conn'[d] \in Connection /\ conn'[d].phase = conn[d].phase /\ Shape(conn'[d])
             /\ conn'[d].reply = IF Promises(d) = {} THEN conn[d].reply ELSE "dropped"
  BY <1>3, <1>4, AnswerType DEF IpcInv, TypeOK
<1>5. conn' \in [Clients -> Connection]
  <2>1. conn' = [d \in Clients |-> conn'[d]]
    BY DEF MachineEnds
  <2> QED BY <1>4, <2>1
<1>6. TypeOK'
  BY <1>1, <1>5 DEF IpcInv, TypeOK
<1>7. OnePromise'
  <2>1. ASSUME NEW d \in Clients, Promises(d) # {}
        PROVE  d \notin learning /\ conn[d].reply = "none" /\ conn[d].phase = "awaiting"
    BY <2>1 DEF IpcInv, OnePromise
  <2> QED BY <1>1, <1>2, <1>4, <2>1 DEF IpcInv, OnePromise
<1> QED BY <1>4, <1>6, <1>7 DEF IpcInv

(* A value is published.                                                    *)
LEMMA PublishStep == ASSUME IpcInv, NEW t \in Topics, Publish(t) PROVE IpcInv'
<1>1. version' \in Version
  BY DEF Publish, IpcInv, TypeOK, Version
<1>2. UNCHANGED <<machine, ctrlQ, learning, conn>>
  BY DEF Publish
<1>3. \A d \in Clients : Promises(d)' = Promises(d)
  BY <1>2 DEF Promises
<1> QED BY <1>1, <1>2, <1>3 DEF IpcInv, TypeOK, OnePromise

-----------------------------------------------------------------------------
(* The invariant holds to begin with.                                       *)
LEMMA Initially == Init => IpcInv
<1> SUFFICES ASSUME Init PROVE IpcInv
  OBVIOUS
<1>1. \A c \in Clients : Promises(c) = {}
  BY DEF Init, Promises
<1>2. conn \in [Clients -> Connection] /\ \A c \in Clients : conn[c] = Closed
  BY FreshType DEF Init
<1>3. TypeOK
  BY <1>2 DEF Init, TypeOK, Version
<1>4. OnePromise
  BY <1>1, <1>2, FreshType DEF Init, OnePromise
<1> QED BY <1>2, <1>3, <1>4, FreshType DEF IpcInv, Shape

(* And every step keeps it.                                                 *)
LEMMA Inductive == IpcInv /\ [Next]_vars => IpcInv'
<1> SUFFICES ASSUME IpcInv, [Next]_vars PROVE IpcInv'
  OBVIOUS
<1>1. CASE UNCHANGED vars
  BY <1>1 DEF vars, IpcInv, TypeOK, OnePromise, Promises
<1>2. ASSUME NEW c \in Clients,
             Connect(c) \/ Write(c) \/ ReadEnd(c) \/ LearnEnds(c) \/ PublisherGone(c)
      PROVE  IpcInv'
  BY <1>2, ConnectStep, WriteStep, EndStep, LearnEndsStep
<1>3. ASSUME NEW c \in Clients, Dispatch(c) PROVE IpcInv'
  BY <1>3, ReadStep, ReadForMachineStep DEF Dispatch
<1>4. ASSUME NEW c \in Clients, Finish(c) PROVE IpcInv'
  BY <1>4, SendCtrlStep, DaemonGoneStep, AnsweredStep, PushStep DEF Finish
<1>5. ASSUME NEW c \in Clients, NEW t \in Topics, Changed(c, t) PROVE IpcInv'
  BY <1>5, ChangedStep
<1>6. CASE (\E t \in Topics : Publish(t)) \/ MachineStep \/ MachineEnds
  BY <1>6, PublishStep, ServeStep, MachineEndsStep
<1> QED BY <1>1, <1>2, <1>3, <1>4, <1>5, <1>6 DEF Next, Notice

(* Promises are kept by exactly one party, in every reachable state.        *)
LEMMA Invariance == Spec => []IpcInv
BY Initially, Inductive, PTL DEF Spec

(* The connections, the channel and the published versions keep their type, *)
(* and the channel its capacity.                                            *)
THEOREM TypeCorrect == Spec => []TypeOK
<1>1. IpcInv => TypeOK
  BY DEF IpcInv
<1> QED BY <1>1, Invariance, PTL

(* While a connection waits for an answer, its command is in the channel or *)
(* its pairing attempt runs or the answer is there, and only one of the     *)
(* three: handle_conn never waits for an answer nobody owes.                *)
THEOREM PromiseKeptOnce == Spec => []OnePromise
<1>1. IpcInv => OnePromise
  BY DEF IpcInv
<1> QED BY <1>1, Invariance, PTL

-----------------------------------------------------------------------------
(* What clients are told.                                                   *)

(* No client knows more than was published. *)
ToldInv == IpcInv /\ \A c \in Clients, t \in Topics : conn[c].view[t] <= version[t]

(* A step tells a client the latest value, or nothing; a connection begins  *)
(* and ends with nothing told.                                              *)
Tells ==
  \A c \in Clients, t \in Topics :
    \/ conn'[c].view[t] \in {conn[c].view[t], version[t]}
    \/ conn'[c].view[t] = 0 /\ (conn[c].phase = "closed" \/ conn'[c].phase = "closed")

(* One connection becomes k.                                                *)
LEMMA OneTold ==
  ASSUME IpcInv, NEW c \in Clients, NEW k, conn' = [conn EXCEPT ![c] = k],
         \/ \A t \in Topics : k.view[t] \in {conn[c].view[t], version[t]}
         \/ /\ \A t \in Topics : k.view[t] = 0
            /\ conn[c].phase = "closed" \/ k.phase = "closed"
  PROVE  Tells
<1>1. conn'[c] = k /\ \A d \in Clients \ {c} : conn'[d] = conn[d]
  BY DEF IpcInv, TypeOK
<1> QED BY <1>1 DEF Tells

(* A connection answers, or finds its client gone.                          *)
LEMMA ResponseTold ==
  ASSUME IpcInv, NEW c \in Clients, NEW k \in Connection, Respond(c, k),
         \A t \in Topics : k.view[t] \in {conn[c].view[t], version[t]}
  PROVE  Tells
<1> DEFINE s == [k EXCEPT !.phase = "select", !.current = None]
<1>1. s.view = k.view
  BY DEF Connection
<1>2. Closed.phase = "closed" /\ \A t \in Topics : Closed.view[t] = 0
  BY DEF Closed, Fresh
<1>3. conn' = [conn EXCEPT ![c] = s] \/ conn' = [conn EXCEPT ![c] = Closed]
  BY DEF Respond
<1> HIDE DEF s
<1> QED BY <1>1, <1>2, <1>3, OneTold

(* What a Telling tells.                                                    *)
LEMMA TellingTold ==
  ASSUME NEW k \in Connection, NEW topics, NEW t \in Topics
  PROVE  Telling(k, topics).view[t] \in {k.view[t], version[t]}
BY DEF Telling, Connection, Version

(* The steps of one connection.                                             *)
LEMMA ConnectionTells ==
  ASSUME IpcInv, NEW c \in Clients,
         \/ Connect(c) \/ Write(c) \/ ReadEnd(c) \/ LearnEnds(c)
         \/ Dispatch(c) \/ Finish(c) \/ Notice(c)
  PROVE  Tells
<1>1. conn[c] \in Connection
  BY DEF IpcInv, TypeOK
<1>2. Closed.phase = "closed" /\ \A t \in Topics : Closed.view[t] = 0
  BY DEF Closed, Fresh
<1>3. ASSUME conn[c].inbox > 0
      PROVE  Rest(c) \in Connection /\ Rest(c).view = conn[c].view
  BY <1>1, <1>3, RestType DEF Rest, Connection
<1>4. CASE Connect(c)
  <2>1. \A t \in Topics : Fresh("select", version).view[t] = 0
    BY DEF Fresh
  <2> QED BY <1>4, <2>1, OneTold DEF Connect
<1>5. CASE Write(c)
  BY <1>1, <1>5 DEF Write, Tells, IpcInv, TypeOK, Connection
<1>6. CASE ReadEnd(c) \/ PublisherGone(c)
  BY <1>2, <1>6, OneTold DEF ReadEnd, PublisherGone
<1>7. CASE LearnEnds(c)
  BY <1>1, <1>7 DEF LearnEnds, Answer, Tells, IpcInv, TypeOK, Connection
<1>8. CASE ReadGet(c)
  <2>1. PICK t \in Topics : Respond(c, Telling(Rest(c), {t}))
    BY <1>8 DEF ReadGet
  <2>2. Rest(c) \in Connection /\ Rest(c).view = conn[c].view
    BY <1>3, <1>8 DEF ReadGet, NextLine
  <2> QED BY <2>1, <2>2, TellingTold, TellingType, ResponseTold DEF IpcInv
<1>9. CASE ReadSubscribe(c)
  <2> DEFINE r == Telling(Rest(c), {"state"})
             k == [r EXCEPT !.subscribed = TRUE]
  <2>1. Rest(c) \in Connection /\ Rest(c).view = conn[c].view
    BY <1>3, <1>9 DEF ReadSubscribe, NextLine
  <2>2. r \in Connection /\ \A t \in Topics : r.view[t] \in {conn[c].view[t], version[t]}
    BY <2>1, TellingTold, TellingType DEF IpcInv
  <2>3. Respond(c, k)
    BY <1>9 DEF ReadSubscribe
  <2> HIDE DEF r
  <2>4. k \in Connection /\ k.view = r.view
    BY <2>2 DEF Connection
  <2> HIDE DEF k
  <2> QED BY <2>2, <2>3, <2>4, ResponseTold
<1>10. CASE ReadBad(c)
  BY <1>3, <1>10, ResponseTold DEF ReadBad, NextLine
<1>11. CASE ReadForMachine(c)
  <2>1. PICK op \in {"Command", "Ask", "Learn"} :
          /\ NextLine(c, op)
          /\ conn' = [conn EXCEPT ![c] = [Rest(c) EXCEPT !.phase = "sending", !.current = op]]
    BY <1>11 DEF ReadForMachine
  <2> DEFINE k == [Rest(c) EXCEPT !.phase = "sending", !.current = op]
  <2>2. k.view = conn[c].view /\ conn' = [conn EXCEPT ![c] = k]
    BY <1>3, <2>1 DEF NextLine, Connection
  <2> HIDE DEF k
  <2> QED BY <2>2, OneTold
<1>12. CASE SendCtrl(c)
  <2>1. CASE Respond(c, conn[c])
    BY <1>1, <2>1, ResponseTold
  <2>2. CASE conn' = [conn EXCEPT ![c].phase = "awaiting"]
    BY <1>1, <2>2 DEF Tells, IpcInv, TypeOK, Connection
  <2> QED BY <1>12, <2>1, <2>2 DEF SendCtrl
<1>13. CASE DaemonGone(c)
  BY <1>1, <1>13, ResponseTold DEF DaemonGone
<1>14. CASE Answered(c)
  <2> DEFINE k == [conn[c] EXCEPT !.reply = "none"]
  <2>1. k \in Connection /\ k.view = conn[c].view /\ Respond(c, k)
    BY <1>1, <1>14 DEF Connection, Answered
  <2> HIDE DEF k
  <2> QED BY <2>1, ResponseTold
<1>15. CASE Push(c)
  BY <1>1, <1>15, TellingTold, TellingType, ResponseTold DEF Push, IpcInv
<1>16. CASE \E t \in Topics : Changed(c, t)
  BY <1>1, <1>16 DEF Changed, Tells, IpcInv, TypeOK, Connection
<1> QED BY <1>4, <1>5, <1>6, <1>7, <1>8, <1>9, <1>10, <1>11, <1>12, <1>13, <1>14, <1>15,
           <1>16 DEF Dispatch, Finish, Notice

(* The machine tells clients nothing; its answers are told by dispatches.   *)
LEMMA MachineTells ==
  ASSUME IpcInv, (\E t \in Topics : Publish(t)) \/ MachineStep \/ MachineEnds
  PROVE  Tells
<1>1. ASSUME NEW c \in Clients PROVE conn[c] \in Connection
  BY DEF IpcInv, TypeOK
<1>2. CASE \E t \in Topics : Publish(t)
  BY <1>2 DEF Publish, Tells
<1>3. CASE MachineStep
  <2>1. CASE UNCHANGED conn
    BY <2>1 DEF Tells
  <2>2. CASE Answer(Head(ctrlQ).client)
    <3>1. ASSUME NEW c \in Clients PROVE conn'[c].view = conn[c].view
      BY <1>1, <2>2 DEF Answer, Connection, IpcInv, TypeOK
    <3> QED BY <3>1 DEF Tells
  <2> QED BY <1>3, <2>1, <2>2 DEF MachineStep, ServeCommand, ServeAsk, ServeLearn
<1>4. CASE MachineEnds
  <2>1. ASSUME NEW c \in Clients PROVE conn'[c].view = conn[c].view
    BY <1>1, <1>4 DEF MachineEnds, Connection
  <2> QED BY <2>1 DEF Tells
<1> QED BY <1>2, <1>3, <1>4

(* Every step tells the latest or nothing.                                  *)
LEMMA StepTells == IpcInv /\ [Next]_vars => Tells
<1>1. ASSUME UNCHANGED vars PROVE Tells
  BY <1>1 DEF vars, Tells
<1> QED BY <1>1, ConnectionTells, MachineTells DEF Next

(* Published versions only grow.                                            *)
LEMMA VersionsGrow ==
  IpcInv /\ [Next]_vars => \A t \in Topics : version'[t] >= version[t]
<1> SUFFICES ASSUME IpcInv, [Next]_vars, NEW t \in Topics PROVE version'[t] >= version[t]
  OBVIOUS
<1>1. version \in Version /\ version[t] \in Nat
  BY DEF IpcInv, TypeOK, Version
<1>2. CASE \E s \in Topics : Publish(s)
  BY <1>1, <1>2 DEF Publish, Version
<1>3. CASE UNCHANGED version
  BY <1>1, <1>3
<1> QED BY <1>2, <1>3 DEF Next, vars, Connect, Write, ReadEnd, LearnEnds, Dispatch, Finish,
     Notice, ReadGet, ReadSubscribe, ReadBad, ReadForMachine, SendCtrl, DaemonGone, Answered,
     Push, PublisherGone, Changed, MachineStep, ServeCommand, ServeAsk, ServeLearn, Serve,
     MachineEnds

(* What a connection has told of a topic is a version.                      *)
LEMMA ViewsAreNumbers ==
  ASSUME NEW k \in Connection, NEW t \in Topics PROVE k.view[t] \in Nat
<1>1. k.view \in Version
  BY DEF Connection
<1>2. k.view[t] \in 0..MaxVersion
  BY <1>1 DEF Version
<1> QED BY <1>2

(* What a client was told is at most what is published.                     *)
LEMMA ToldInductive == ToldInv /\ [Next]_vars => ToldInv'
<1> SUFFICES ASSUME ToldInv, [Next]_vars PROVE ToldInv'
  OBVIOUS
<1>1. IpcInv' /\ Tells /\ \A t \in Topics : version'[t] >= version[t]
  BY Inductive, StepTells, VersionsGrow DEF ToldInv
<1>2. ASSUME NEW c \in Clients, NEW t \in Topics PROVE conn'[c].view[t] <= version'[t]
  <2>1. IpcInv /\ conn[c].view[t] <= version[t]
    BY DEF ToldInv
  <2>2. conn[c] \in Connection /\ version[t] \in Nat
    BY <2>1 DEF IpcInv, TypeOK, Version
  <2>3. conn[c].view[t] \in Nat
    BY <2>2, ViewsAreNumbers
  <2>4. version'[t] \in Nat
    BY <1>1 DEF IpcInv, TypeOK, Version
  <2> QED BY <1>1, <2>1, <2>2, <2>3, <2>4 DEF Tells
<1> QED BY <1>1, <1>2 DEF ToldInv

(* What a client is told on one connection never goes back, whichever of    *)
(* replies and pushes carries it: a push borrows the value when it writes.  *)
THEOREM ToldInOrder == Spec => NeverBackwards
<1>1. Init => ToldInv
  <2>1. Init => \A c \in Clients, t \in Topics : conn[c].view[t] = 0 /\ version[t] = 0
    BY DEF Init, Closed, Fresh
  <2> QED BY <2>1, Initially DEF ToldInv
<1>2. ToldInv /\ [Next]_vars
        => [\A c \in Clients, t \in Topics :
              conn'[c].phase # "closed" /\ conn[c].phase # "closed"
                => conn'[c].view[t] >= conn[c].view[t]]_vars
  <2> SUFFICES ASSUME ToldInv, [Next]_vars, NEW c \in Clients, NEW t \in Topics,
                      conn'[c].phase # "closed", conn[c].phase # "closed"
               PROVE  conn'[c].view[t] >= conn[c].view[t]
    OBVIOUS
  <2>1. IpcInv /\ conn[c].view[t] <= version[t]
    BY DEF ToldInv
  <2>2. conn[c] \in Connection /\ version[t] \in Nat
    BY <2>1 DEF IpcInv, TypeOK, Version
  <2>3. conn[c].view[t] \in Nat
    BY <2>2, ViewsAreNumbers
  <2>4. Tells
    BY <2>1, StepTells
  <2> QED BY <2>1, <2>2, <2>3, <2>4 DEF Tells
<1> QED BY <1>1, <1>2, ToldInductive, PTL DEF Spec, NeverBackwards

-----------------------------------------------------------------------------
(* The promise of module Service. *)

(* A connection that is over holds nothing; what it has seen was published; *)
(* only a subscriber pushes.                                                *)
Sound(k) ==
  /\ k.phase = "closed" => k = Closed
  /\ \A t \in Topics : k.seen[t] <= version[t]
  /\ k.phase = "changed" => k.subscribed

SoundInv == IpcInv /\ \A c \in Clients : Sound(conn[c])

Stays == UNCHANGED <<version, Present, Listening, Knows, AllNews, AllDue>>

(* A step does what Service allows, and leaves every connection sound.      *)
Fulfils == (Promised!SNext \/ Stays) /\ \A c \in Clients : Sound(conn[c])'

(* Versions are numbers.                                                    *)
LEMMA VersionsAreNumbers ==
  ASSUME SoundInv, NEW t \in Topics
  PROVE  version[t] \in Nat /\ \A k \in Connection : k.seen[t] \in Nat
<1>1. version \in Version
  BY DEF SoundInv, IpcInv, TypeOK
<1>2. \A v \in Version : v[t] \in Nat
  BY DEF Version
<1> QED BY <1>1, <1>2 DEF Connection

(* What the clients see when the connection of c becomes k.                 *)
Shows(c, k) ==
  /\ Present' = IF k.phase = "closed" THEN Present \ {c} ELSE Present \cup {c}
  /\ Listening' = IF k.subscribed THEN Listening \cup {c} ELSE Listening \ {c}
  /\ Knows' = [Knows EXCEPT ![c] = k.view]
  /\ AllNews' = [AllNews EXCEPT ![c] = News(k)]
  /\ AllDue' = [AllDue EXCEPT ![c] = DueTo(k)]
  /\ \A d \in Clients : Sound(conn[d])'

LEMMA Becomes ==
  ASSUME SoundInv, NEW c \in Clients, NEW k \in Connection,
         conn' = [conn EXCEPT ![c] = k], version' = version, Sound(k)
  PROVE  Shows(c, k)
<1>1. conn'[c] = k /\ \A d \in Clients : d # c => conn'[d] = conn[d]
  BY DEF SoundInv, IpcInv, TypeOK
<1>2. ASSUME NEW d \in Clients
      PROVE  /\ News(conn[d])' = IF d = c THEN News(k) ELSE News(conn[d])
             /\ DueTo(conn[d])' = IF d = c THEN DueTo(k) ELSE DueTo(conn[d])
             /\ Sound(conn[d])'
  <2>1. CASE d = c
    BY <1>1, <2>1 DEF News, DueTo, Sound
  <2>2. CASE d # c
    <3>1. conn'[d] = conn[d] /\ Sound(conn[d])
      BY <1>1, <2>2 DEF SoundInv
    <3> QED BY <2>2, <3>1 DEF News, DueTo, Sound
  <2> QED BY <2>1, <2>2
<1>3. Present' = IF k.phase = "closed" THEN Present \ {c} ELSE Present \cup {c}
  BY <1>1 DEF Present
<1>4. Listening' = IF k.subscribed THEN Listening \cup {c} ELSE Listening \ {c}
  BY <1>1 DEF Listening
<1>5. Knows' = [Knows EXCEPT ![c] = k.view]
  <2>1. \A d \in Clients : conn'[d].view = IF d = c THEN k.view ELSE Knows[d]
    BY <1>1 DEF Knows
  <2> QED BY <2>1 DEF Knows
<1>6. AllNews' = [AllNews EXCEPT ![c] = News(k)]
  BY <1>2 DEF AllNews
<1>7. AllDue' = [AllDue EXCEPT ![c] = DueTo(k)]
  BY <1>2 DEF AllDue
<1> QED BY <1>2, <1>3, <1>4, <1>5, <1>6, <1>7 DEF Shows

(* What they see now. *)
LEMMA Seen ==
  ASSUME NEW c \in Clients
  PROVE  /\ c \in Present <=> conn[c].phase # "closed"
         /\ c \in Listening <=> conn[c].subscribed
         /\ Knows[c] = conn[c].view
         /\ AllNews[c] = News(conn[c])
         /\ AllDue[c] = DueTo(conn[c])
         /\ AllNews = [d \in Clients |-> AllNews[d]]
         /\ AllDue = [d \in Clients |-> AllDue[d]]
         /\ Knows = [d \in Clients |-> Knows[d]]
BY DEF Present, Listening, Knows, AllNews, AllDue

(* A client notices nothing of it.                                          *)
LEMMA Unnoticed ==
  ASSUME SoundInv, NEW c \in Clients, NEW k \in Connection,
         Shows(c, k), version' = version, k.phase # "closed", conn[c].phase # "closed",
         k.subscribed = conn[c].subscribed, k.view = conn[c].view,
         News(k) = News(conn[c]), DueTo(k) = DueTo(conn[c])
  PROVE  Fulfils
<1>1. Present' = Present /\ Listening' = Listening
  BY Seen DEF Shows
<1>2. Knows' = Knows
  BY Seen DEF Shows
<1>3. AllNews' = AllNews
  BY Seen DEF Shows
<1>4. AllDue' = AllDue
  BY Seen DEF Shows
<1> QED BY <1>1, <1>2, <1>3, <1>4 DEF Fulfils, Stays, Shows

(* Nor of what happens away from the connections. *)
LEMMA Elsewhere ==
  ASSUME SoundInv, UNCHANGED <<version, conn>> PROVE Fulfils
<1>1. /\ Present' = Present /\ Listening' = Listening /\ Knows' = Knows
      /\ AllNews' = AllNews /\ AllDue' = AllDue
  BY DEF Present, Listening, Knows, AllNews, AllDue, News, DueTo
<1>2. \A d \in Clients : Sound(conn[d])'
  BY DEF SoundInv, Sound
<1> QED BY <1>1, <1>2 DEF Fulfils, Stays

(* A connection ends that owes no answer.                                   *)
LEMMA Leaves ==
  ASSUME SoundInv, NEW c \in Clients, conn' = [conn EXCEPT ![c] = Closed],
         version' = version, conn[c].phase # "closed", DueTo(conn[c]) # "asked"
  PROVE  Fulfils
<1>1. /\ Closed \in Connection /\ Closed.phase = "closed" /\ ~Closed.subscribed
      /\ Closed.view = Promised!Nothing /\ DueTo(Closed) = "nothing"
      /\ News(Closed) = Promised!Nothing
  BY FreshType DEF Closed, Fresh, DueTo, News, Promised!Nothing
<1>2. Sound(Closed)
  <2>1. \A t \in Topics : Closed.seen[t] = 0 /\ version[t] \in Nat
    BY VersionsAreNumbers DEF Closed, Fresh
  <2> QED BY <1>1, <2>1 DEF Sound
<1> HIDE DEF Closed
<1>3. Shows(c, Closed)
  BY <1>1, <1>2, Becomes
<1>4. c \in Present /\ AllDue[c] # "asked"
  BY Seen
<1>5. Promised!SLeave(c)
  BY <1>1, <1>3, <1>4 DEF Shows, Promised!SLeave
<1> QED BY <1>3, <1>5 DEF Fulfils, Promised!SNext, Shows

(* What a connection owes that selects.                                     *)
Owed(k) == [t \in Topics |-> version[t] - k.seen[t]]

LEMMA Selecting ==
  ASSUME SoundInv, NEW k \in Connection, k.phase \notin {"closed", "changed"}
  PROVE  News(k) = Owed(k)
<1>1. \A t \in Topics : version[t] - k.seen[t] + 0 = version[t] - k.seen[t]
  BY VersionsAreNumbers
<1> QED BY <1>1 DEF News, Owed

(* A connection that has responded selects again, or is over.               *)
LEMMA HasResponded ==
  ASSUME SoundInv, NEW c \in Clients, NEW k \in Connection, Respond(c, k),
         version' = version, conn[c].phase # "closed", DueTo(conn[c]) # "asked",
         k.seen = conn[c].seen
  PROVE  \/ Fulfils
         \/ \E s \in Connection :
              /\ Shows(c, s) /\ s.phase = "select" /\ s.subscribed = k.subscribed
              /\ s.view = k.view /\ DueTo(s) = "nothing" /\ News(s) = Owed(conn[c])
<1> DEFINE s == [k EXCEPT !.phase = "select", !.current = None]
<1>1. /\ s \in Connection /\ s.phase = "select" /\ s.seen = conn[c].seen
      /\ s.view = k.view /\ s.subscribed = k.subscribed
  BY DEF Connection
<1>2. CASE conn' = [conn EXCEPT ![c] = s]
  <2> HIDE DEF s
  <2>1. Sound(s) /\ DueTo(s) = "nothing"
    BY <1>1 DEF Sound, SoundInv, DueTo
  <2>2. News(s) = Owed(conn[c])
    BY <1>1, Selecting DEF Owed
  <2>3. Shows(c, s)
    BY <1>1, <1>2, <2>1, Becomes
  <2> QED BY <1>1, <2>1, <2>2, <2>3
<1>3. CASE conn' = [conn EXCEPT ![c] = Closed]
  BY <1>3, Leaves
<1> QED BY <1>2, <1>3 DEF Respond

(* It may have told nothing ... *)
LEMMA Acknowledges ==
  ASSUME SoundInv, NEW c \in Clients, NEW k \in Connection, Respond(c, k),
         version' = version, conn[c].phase \in {"select", "sending"},
         k.seen = conn[c].seen, k.view = conn[c].view, k.subscribed = conn[c].subscribed
  PROVE  Fulfils
<1>1. conn[c] \in Connection /\ DueTo(conn[c]) = "nothing"
  BY DEF SoundInv, IpcInv, TypeOK, DueTo
<1>2. News(conn[c]) = Owed(conn[c])
  BY <1>1, Selecting
<1> QED BY <1>1, <1>2, HasResponded, Unnoticed

(* ... or the latest. *)
Latest(c, topics) == [t \in Topics |-> IF t \in topics THEN version[t] ELSE conn[c].view[t]]

LEMMA TellsLatest ==
  ASSUME NEW c \in Clients, NEW k \in Connection, NEW topics, k.view = conn[c].view
  PROVE  /\ Telling(k, topics).view = Latest(c, topics)
         /\ Telling(k, topics).seen = k.seen
         /\ Telling(k, topics).subscribed = k.subscribed
BY DEF Telling, Latest, Connection

(* A client comes. *)
LEMMA ConnectFulfils == ASSUME SoundInv, NEW c \in Clients, Connect(c) PROVE Fulfils
<1> DEFINE k == Fresh("select", version)
<1>1. /\ version \in Version /\ conn[c] = Closed
      /\ conn' = [conn EXCEPT ![c] = k] /\ version' = version
  BY DEF Connect, SoundInv, IpcInv, TypeOK, Sound
<1>2. /\ k \in Connection /\ k.phase = "select" /\ ~k.subscribed /\ k.seen = version
      /\ k.view = Promised!Nothing /\ DueTo(k) = "nothing"
  BY <1>1, FreshType DEF Fresh, Promised!Nothing, DueTo
<1>3. /\ Closed.phase = "closed" /\ ~Closed.subscribed /\ Closed.view = Promised!Nothing
      /\ DueTo(Closed) = "nothing" /\ News(Closed) = Promised!Nothing
  BY DEF Closed, Fresh, News, DueTo, Promised!Nothing
<1> HIDE DEF k
<1>4. News(k) = Promised!Nothing /\ Sound(k)
  <2>1. \A t \in Topics : version[t] \in Nat
    BY VersionsAreNumbers
  <2>2. News(k) = Owed(k)
    BY <1>2, Selecting
  <2>3. Owed(k) = Promised!Nothing
    BY <1>2, <2>1 DEF Owed, Promised!Nothing
  <2> QED BY <1>2, <2>1, <2>2, <2>3 DEF Sound
<1>5. Shows(c, k)
  BY <1>1, <1>2, <1>4, Becomes
<1>6. /\ c \notin Present /\ c \notin Listening /\ Knows[c] = k.view
      /\ AllNews[c] = News(k) /\ AllDue[c] = DueTo(k)
  BY <1>1, <1>2, <1>3, <1>4, Seen
<1>7. Knows' = Knows /\ AllNews' = AllNews /\ AllDue' = AllDue
  BY <1>5, <1>6, Seen DEF Shows
<1>8. Promised!SEnter(c)
  BY <1>1, <1>2, <1>5, <1>6, <1>7 DEF Shows, Promised!SEnter
<1> QED BY <1>5, <1>8 DEF Fulfils, Promised!SNext, Shows

(* It writes a line. *)
LEMMA WriteFulfils == ASSUME SoundInv, NEW c \in Clients, Write(c) PROVE Fulfils
<1> DEFINE n == conn[c].inbox + 1
           k == [conn[c] EXCEPT !.inbox = n]
<1>1. conn[c] \in Connection /\ n \in Nat /\ conn' = [conn EXCEPT ![c] = k]
  BY DEF Write, SoundInv, IpcInv, TypeOK, Connection
<1> HIDE DEF n
<1>2. /\ k \in Connection /\ k.phase = conn[c].phase /\ k.reply = conn[c].reply
      /\ k.seen = conn[c].seen /\ k.subscribed = conn[c].subscribed
      /\ k.current = conn[c].current /\ k.view = conn[c].view
  BY <1>1 DEF Connection
<1> HIDE DEF k
<1>3. News(k) = News(conn[c]) /\ DueTo(k) = DueTo(conn[c])
  BY <1>2 DEF News, DueTo
<1>4. conn[c].phase # "closed" /\ Sound(k) /\ version' = version
  BY <1>2 DEF Write, SoundInv, Sound
<1>5. Shows(c, k)
  BY <1>1, <1>2, <1>4, Becomes
<1> QED BY <1>2, <1>3, <1>4, <1>5, Unnoticed

(* A line taken from the inbox changes nothing else. *)
LEMMA RestKeeps ==
  ASSUME SoundInv, NEW c \in Clients, NEW op, NextLine(c, op)
  PROVE  /\ conn[c].phase = "select" /\ Rest(c) \in Connection
         /\ Rest(c).seen = conn[c].seen /\ Rest(c).view = conn[c].view
         /\ Rest(c).subscribed = conn[c].subscribed /\ Rest(c).reply = conn[c].reply
<1>1. conn[c] \in Connection /\ conn[c].phase = "select" /\ conn[c].inbox > 0
  BY DEF SoundInv, IpcInv, TypeOK, NextLine
<1>2. Rest(c) \in Connection /\ Rest(c).reply = conn[c].reply
  BY <1>1, RestType DEF SoundInv
<1>3. /\ Rest(c).seen = conn[c].seen /\ Rest(c).view = conn[c].view
      /\ Rest(c).subscribed = conn[c].subscribed
  BY <1>1 DEF Rest, Connection
<1> QED BY <1>1, <1>2, <1>3

(* A client that selects attends, and is owed what it has not seen.         *)
LEMMA Attentive ==
  ASSUME SoundInv, NEW c \in Clients, conn[c].phase = "select"
  PROVE  /\ Promised!Attends(c) /\ DueTo(conn[c]) = "nothing" /\ News(conn[c]) = Owed(conn[c])
<1>1. conn[c] \in Connection /\ DueTo(conn[c]) = "nothing"
  BY DEF SoundInv, IpcInv, TypeOK, DueTo
<1>2. Promised!Attends(c)
  BY <1>1, Seen DEF Promised!Attends
<1> QED BY <1>1, <1>2, Selecting

(* It asks for a value. *)
LEMMA ReadGetFulfils == ASSUME SoundInv, NEW c \in Clients, ReadGet(c) PROVE Fulfils
<1>1. PICK t \in Topics : Respond(c, Telling(Rest(c), {t}))
  BY DEF ReadGet
<1> DEFINE k == Telling(Rest(c), {t})
<1>2. NextLine(c, "Get") /\ version' = version /\ IpcInv /\ TypeOK
  BY DEF ReadGet, SoundInv, IpcInv
<1>3. /\ k \in Connection /\ k.view = Latest(c, {t})
      /\ k.seen = conn[c].seen /\ k.subscribed = conn[c].subscribed
  BY <1>2, RestKeeps, TellsLatest, TellingType
<1>4. conn[c].phase = "select" /\ Promised!Attends(c) /\ DueTo(conn[c]) = "nothing"
      /\ News(conn[c]) = Owed(conn[c])
  BY <1>2, RestKeeps, Attentive
<1> HIDE DEF k
<1>5. Respond(c, k)
  BY <1>1 DEF k
<1>6. CASE \E s \in Connection :
             /\ Shows(c, s) /\ s.phase = "select" /\ s.subscribed = k.subscribed
             /\ s.view = k.view /\ DueTo(s) = "nothing" /\ News(s) = Owed(conn[c])
  <2>1. PICK s \in Connection :
             /\ Shows(c, s) /\ s.phase = "select" /\ s.subscribed = k.subscribed
             /\ s.view = k.view /\ DueTo(s) = "nothing" /\ News(s) = Owed(conn[c])
    BY <1>6
  <2>2. Present' = Present /\ Listening' = Listening
    BY <1>3, <1>4, <2>1, Seen DEF Shows
  <2>3. AllNews' = AllNews /\ AllDue' = AllDue
    BY <1>4, <2>1, Seen DEF Shows
  <2>4. Promised!Told(c, {t})
    BY <1>3, <2>1, Seen DEF Shows, Promised!Told, Latest
  <2>5. Promised!SReply(c, t)
    BY <1>2, <1>4, <2>2, <2>3, <2>4 DEF Promised!SReply
  <2> QED BY <2>1, <2>5 DEF Fulfils, Promised!SNext, Shows
<1> QED BY <1>2, <1>3, <1>4, <1>5, <1>6, HasResponded

(* It subscribes. *)
LEMMA ReadSubscribeFulfils ==
  ASSUME SoundInv, NEW c \in Clients, ReadSubscribe(c) PROVE Fulfils
<1> DEFINE r == Telling(Rest(c), {"state"})
           k == [r EXCEPT !.subscribed = TRUE]
<1>1. NextLine(c, "Subscribe") /\ version' = version /\ IpcInv /\ TypeOK /\ Respond(c, k)
  BY DEF ReadSubscribe, SoundInv, IpcInv
<1>2. r \in Connection /\ r.view = Latest(c, {"state"}) /\ r.seen = conn[c].seen
  BY <1>1, RestKeeps, TellsLatest, TellingType
<1> HIDE DEF r
<1>3. /\ k \in Connection /\ k.view = Latest(c, {"state"}) /\ k.seen = conn[c].seen
      /\ k.subscribed = TRUE
  BY <1>2 DEF Connection
<1> HIDE DEF k
<1>4. conn[c].phase = "select" /\ Promised!Attends(c) /\ DueTo(conn[c]) = "nothing"
      /\ News(conn[c]) = Owed(conn[c])
  BY <1>1, RestKeeps, Attentive
<1>5. CASE \E s \in Connection :
             /\ Shows(c, s) /\ s.phase = "select" /\ s.subscribed = k.subscribed
             /\ s.view = k.view /\ DueTo(s) = "nothing" /\ News(s) = Owed(conn[c])
  <2>1. PICK s \in Connection :
             /\ Shows(c, s) /\ s.phase = "select" /\ s.subscribed = k.subscribed
             /\ s.view = k.view /\ DueTo(s) = "nothing" /\ News(s) = Owed(conn[c])
    BY <1>5
  <2>2. Present' = Present /\ Listening' = Listening \cup {c}
    BY <1>3, <1>4, <2>1, Seen DEF Shows
  <2>3. AllNews' = AllNews /\ AllDue' = AllDue
    BY <1>4, <2>1, Seen DEF Shows
  <2>4. Promised!Told(c, {"state"})
    BY <1>3, <2>1, Seen DEF Shows, Promised!Told, Latest
  <2>5. Promised!SSubscribe(c, "state")
    BY <1>1, <1>4, <2>2, <2>3, <2>4 DEF Promised!SSubscribe
  <2> QED BY <2>1, <2>5 DEF Fulfils, Promised!SNext, Shows
<1> QED BY <1>1, <1>3, <1>4, <1>5, HasResponded

(* What is no request is refused. *)
LEMMA ReadBadFulfils == ASSUME SoundInv, NEW c \in Clients, ReadBad(c) PROVE Fulfils
<1>1. NextLine(c, "Bad") /\ Respond(c, Rest(c)) /\ version' = version
  BY DEF ReadBad
<1> QED BY <1>1, RestKeeps, Acknowledges

(* A request for the machine is not yet its business. *)
LEMMA ReadForMachineFulfils ==
  ASSUME SoundInv, NEW c \in Clients, ReadForMachine(c) PROVE Fulfils
<1>1. PICK op \in {"Command", "Ask", "Learn"} :
        /\ NextLine(c, op)
        /\ conn' = [conn EXCEPT ![c] = [Rest(c) EXCEPT !.phase = "sending", !.current = op]]
  BY DEF ReadForMachine
<1> DEFINE k == [Rest(c) EXCEPT !.phase = "sending", !.current = op]
<1>2. version' = version /\ conn[c].phase = "select" /\ News(conn[c]) = Owed(conn[c])
      /\ DueTo(conn[c]) = "nothing" /\ Sound(conn[c])
  BY <1>1, RestKeeps, Attentive DEF ReadForMachine, SoundInv
<1>3. /\ k \in Connection /\ k.phase = "sending" /\ k.seen = conn[c].seen
      /\ k.view = conn[c].view /\ k.subscribed = conn[c].subscribed
  <2>1. /\ Rest(c) \in Connection /\ Rest(c).seen = conn[c].seen
        /\ Rest(c).view = conn[c].view /\ Rest(c).subscribed = conn[c].subscribed
    BY <1>1, RestKeeps
  <2> QED BY <2>1 DEF Connection, Op
<1>4. conn' = [conn EXCEPT ![c] = k]
  BY <1>1
<1> HIDE DEF k
<1>5. News(k) = News(conn[c]) /\ DueTo(k) = DueTo(conn[c]) /\ Sound(k)
  <2>1. News(k) = Owed(k)
    BY <1>3, Selecting
  <2> QED BY <1>2, <1>3, <2>1 DEF Owed, DueTo, Sound
<1>6. Shows(c, k)
  BY <1>2, <1>3, <1>4, <1>5, Becomes
<1> QED BY <1>2, <1>3, <1>5, <1>6, Unnoticed

(* The command in dispatch enters the channel: acknowledged, or asked.      *)
LEMMA SendCtrlFulfils == ASSUME SoundInv, NEW c \in Clients, SendCtrl(c) PROVE Fulfils
<1> DEFINE k == [conn[c] EXCEPT !.phase = "awaiting"]
<1>1. /\ conn[c] \in Connection /\ conn[c].phase = "sending" /\ version' = version
      /\ Sound(conn[c])
  BY DEF SendCtrl, SoundInv, IpcInv, TypeOK
<1>2. CASE Respond(c, conn[c])
  BY <1>1, <1>2, Acknowledges
<1>3. CASE conn' = [conn EXCEPT ![c] = k]
  <2>1. /\ k \in Connection /\ k.phase = "awaiting" /\ k.seen = conn[c].seen
        /\ k.view = conn[c].view /\ k.subscribed = conn[c].subscribed /\ k.reply = "none"
    BY <1>1, NoAnswer DEF Connection, SoundInv
  <2> HIDE DEF k
  <2>2. News(k) = News(conn[c])
    <3>1. News(k) = Owed(k) /\ News(conn[c]) = Owed(conn[c])
      BY <1>1, <2>1, Selecting
    <3> QED BY <2>1, <3>1 DEF Owed
  <2>3. Sound(k) /\ DueTo(k) = "asked" /\ DueTo(conn[c]) = "nothing"
    BY <1>1, <2>1 DEF Sound, DueTo
  <2>4. Shows(c, k)
    BY <1>1, <1>3, <2>1, <2>3, Becomes
  <2>5. Promised!Attends(c)
    BY <1>1, <2>3, Seen DEF Promised!Attends
  <2>6. Present' = Present /\ Listening' = Listening
    BY <1>1, <2>1, <2>4, Seen DEF Shows
  <2>7. Knows' = Knows /\ AllNews' = AllNews
    BY <2>1, <2>2, <2>4, Seen DEF Shows
  <2>8. Promised!SAsk(c)
    BY <1>1, <2>3, <2>4, <2>5, <2>6, <2>7 DEF Promised!SAsk, Shows
  <2> QED BY <2>4, <2>8 DEF Fulfils, Promised!SNext, Shows
<1> QED BY <1>1, <1>2, <1>3 DEF SendCtrl, SoundInv, IpcInv, TypeOK

(* The machine is gone. *)
LEMMA DaemonGoneFulfils == ASSUME SoundInv, NEW c \in Clients, DaemonGone(c) PROVE Fulfils
BY Acknowledges DEF DaemonGone, SoundInv, IpcInv, TypeOK

(* The connection ends, for want of its client or of the machine. *)
LEMMA EndFulfils ==
  ASSUME SoundInv, NEW c \in Clients, ReadEnd(c) \/ PublisherGone(c) PROVE Fulfils
BY Leaves DEF ReadEnd, PublisherGone, DueTo

(* The answer is told. *)
LEMMA AnsweredFulfils == ASSUME SoundInv, NEW c \in Clients, Answered(c) PROVE Fulfils
<1> DEFINE k == [conn[c] EXCEPT !.reply = "none"]
<1>1. /\ conn[c] \in Connection /\ conn[c].phase = "awaiting" /\ version' = version
      /\ DueTo(conn[c]) = "ready" /\ Respond(c, k)
  BY DEF Answered, SoundInv, IpcInv, TypeOK, DueTo
<1>2. /\ k \in Connection /\ k.seen = conn[c].seen /\ k.view = conn[c].view
      /\ k.subscribed = conn[c].subscribed
  BY <1>1 DEF Connection
<1> HIDE DEF k
<1>3. CASE \E s \in Connection :
             /\ Shows(c, s) /\ s.phase = "select" /\ s.subscribed = k.subscribed
             /\ s.view = k.view /\ DueTo(s) = "nothing" /\ News(s) = Owed(conn[c])
  <2>1. PICK s \in Connection :
             /\ Shows(c, s) /\ s.phase = "select" /\ s.subscribed = k.subscribed
             /\ s.view = k.view /\ DueTo(s) = "nothing" /\ News(s) = Owed(conn[c])
    BY <1>3
  <2>2. News(conn[c]) = Owed(conn[c])
    BY <1>1, Selecting
  <2>3. Present' = Present /\ Listening' = Listening
    BY <1>1, <1>2, <2>1, Seen DEF Shows
  <2>4. Knows' = Knows /\ AllNews' = AllNews
    BY <1>2, <2>1, <2>2, Seen DEF Shows
  <2>5. Promised!SAnswer(c)
    BY <1>1, <2>1, <2>3, <2>4, Seen DEF Promised!SAnswer, Shows
  <2> QED BY <2>1, <2>5 DEF Fulfils, Promised!SNext, Shows
<1> QED BY <1>1, <1>2, <1>3, HasResponded

(* What is published is noticed ... *)
LEMMA ChangedFulfils ==
  ASSUME SoundInv, NEW c \in Clients, NEW t \in Topics, Changed(c, t) PROVE Fulfils
<1> DEFINE v == [conn[c].seen EXCEPT ![t] = version[t]]
           k == [conn[c] EXCEPT !.seen = v, !.phase = "changed", !.current = t]
<1>1. /\ conn[c].phase = "select" /\ conn[c].subscribed /\ conn[c].seen[t] # version[t]
      /\ conn[c] \in Connection /\ version' = version /\ Sound(conn[c])
  BY DEF Changed, SoundInv, IpcInv, TypeOK
<1>2. /\ v \in Version /\ v[t] = version[t]
      /\ \A u \in Topics : u # t => v[u] = conn[c].seen[u]
  BY <1>1 DEF SoundInv, IpcInv, TypeOK, Version, Connection
<1>3. conn' = [conn EXCEPT ![c] = k]
  BY <1>1 DEF Changed, SoundInv, IpcInv, TypeOK, Connection
<1> HIDE DEF v
<1>4. /\ k \in Connection /\ k.phase = "changed" /\ k.current = t /\ k.seen = v
      /\ k.view = conn[c].view /\ k.subscribed = conn[c].subscribed
  BY <1>1, <1>2 DEF Connection
<1> HIDE DEF k
<1>5. \A u \in Topics : /\ version[u] \in Nat /\ conn[c].seen[u] \in Nat
                        /\ conn[c].seen[u] <= version[u]
  BY <1>1, VersionsAreNumbers DEF Sound
<1>6. Sound(k) /\ DueTo(k) = "nothing"
  BY <1>1, <1>2, <1>4, <1>5 DEF Sound, DueTo
<1>7. /\ Promised!Attends(c) /\ c \in Listening /\ DueTo(conn[c]) = "nothing"
      /\ AllNews[c] = Owed(conn[c])
  BY <1>1, Attentive, Seen
<1>8. News(k) = [AllNews[c] EXCEPT ![t] = 1] /\ 1 \in 1..AllNews[c][t]
  <2>1. Owed(conn[c])[t] \in Nat \ {0}
    BY <1>1, <1>5 DEF Owed
  <2>2. \A u \in Topics : version[u] - k.seen[u] + (IF k.phase = "changed" /\ k.current = u THEN 1 ELSE 0)
                            = IF u = t THEN 1 ELSE version[u] - conn[c].seen[u]
    BY <1>2, <1>4, <1>5
  <2>3. News(k) = [Owed(conn[c]) EXCEPT ![t] = 1]
    BY <1>4, <2>2 DEF News, Owed
  <2> QED BY <1>7, <2>1, <2>3
<1>9. Shows(c, k)
  BY <1>1, <1>3, <1>4, <1>6, Becomes
<1>10. Present' = Present /\ Listening' = Listening
  BY <1>1, <1>4, <1>9, Seen DEF Shows
<1>11. Knows' = Knows /\ AllDue' = AllDue
  BY <1>4, <1>6, <1>7, <1>9, Seen DEF Shows
<1>12. AllNews' = [AllNews EXCEPT ![c][t] = 1]
  BY <1>8, <1>9 DEF Shows, AllNews
<1>13. Promised!SFold(c, t)
  BY <1>1, <1>7, <1>8, <1>10, <1>11, <1>12 DEF Promised!SFold
<1> QED BY <1>9, <1>13 DEF Fulfils, Promised!SNext, Shows

(* ... and pushed, as it is by then. *)
LEMMA PushFulfils == ASSUME SoundInv, NEW c \in Clients, Push(c) PROVE Fulfils
<1> DEFINE t == conn[c].current
           k == Telling(conn[c], {t})
<1>1. /\ conn[c].phase = "changed" /\ conn[c] \in Connection /\ TypeOK /\ version' = version
      /\ Sound(conn[c]) /\ Shape(conn[c]) /\ Respond(c, k)
  BY DEF Push, SoundInv, IpcInv, TypeOK
<1>2. /\ k \in Connection /\ k.view = Latest(c, {t}) /\ k.seen = conn[c].seen
      /\ k.subscribed = conn[c].subscribed
  BY <1>1, TellsLatest, TellingType
<1> HIDE DEF k
<1>3. t \in Topics /\ conn[c].subscribed /\ DueTo(conn[c]) = "nothing"
  BY <1>1 DEF Shape, Sound, DueTo
<1>4. /\ Owed(conn[c]) = [AllNews[c] EXCEPT ![t] = @ - 1] /\ AllNews[c][t] > 0
  <2>1. \A u \in Topics : /\ version[u] \in Nat /\ conn[c].seen[u] \in Nat
                          /\ conn[c].seen[u] <= version[u]
    BY <1>1, VersionsAreNumbers DEF Sound
  <2>2. AllNews[c] = [u \in Topics |->
                        version[u] - conn[c].seen[u] + (IF u = t THEN 1 ELSE 0)]
    BY <1>1, Seen DEF News
  <2> HIDE DEF t
  <2>3. /\ AllNews[c][t] > 0
        /\ \A u \in Topics : version[u] - conn[c].seen[u]
                               = IF u = t THEN AllNews[c][u] - 1 ELSE AllNews[c][u]
    BY <1>3, <2>1, <2>2
  <2> QED BY <2>2, <2>3 DEF Owed
<1> HIDE DEF t
<1>5. CASE \E s \in Connection :
             /\ Shows(c, s) /\ s.phase = "select" /\ s.subscribed = k.subscribed
             /\ s.view = k.view /\ DueTo(s) = "nothing" /\ News(s) = Owed(conn[c])
  <2>1. PICK s \in Connection :
             /\ Shows(c, s) /\ s.phase = "select" /\ s.subscribed = k.subscribed
             /\ s.view = k.view /\ DueTo(s) = "nothing" /\ News(s) = Owed(conn[c])
    BY <1>5
  <2>2. Promised!Attends(c) /\ c \in Listening
    BY <1>1, <1>3, Seen DEF Promised!Attends
  <2>3. Present' = Present /\ Listening' = Listening
    BY <1>1, <1>2, <1>3, <2>1, Seen DEF Shows
  <2>4. AllDue' = AllDue
    BY <1>3, <2>1, Seen DEF Shows
  <2>5. AllNews' = [AllNews EXCEPT ![c][t] = @ - 1]
    BY <1>4, <2>1 DEF Shows, AllNews
  <2>6. Promised!Told(c, {t})
    BY <1>2, <2>1, Seen DEF Shows, Promised!Told, Latest
  <2>7. Promised!SPush(c, t)
    BY <1>1, <1>4, <2>2, <2>3, <2>4, <2>5, <2>6 DEF Promised!SPush
  <2> QED BY <1>3, <2>1, <2>7 DEF Fulfils, Promised!SNext, Shows
<1> QED BY <1>1, <1>2, <1>3, <1>5, HasResponded

(* Questions are resolved, and nothing else happens to the connections.     *)
LEMMA Resolves ==
  ASSUME SoundInv, version' = version, NEW clients \in SUBSET Clients,
         NEW reply \in {"sent", "dropped"},
         \A d \in clients : DueTo(conn[d]) = "asked",
         conn' = [d \in Clients |-> IF d \in clients THEN [conn[d] EXCEPT !.reply = reply]
                                    ELSE conn[d]]
  PROVE  Fulfils
<1>1. ASSUME NEW d \in Clients
      PROVE  /\ conn'[d].phase = conn[d].phase /\ conn'[d].seen = conn[d].seen
             /\ conn'[d].view = conn[d].view /\ conn'[d].current = conn[d].current
             /\ conn'[d].subscribed = conn[d].subscribed
             /\ d \in clients => conn'[d].reply = reply
             /\ d \notin clients => conn'[d] = conn[d]
  BY DEF SoundInv, IpcInv, TypeOK, Connection
<1>2. \A d \in clients : conn[d].phase = "awaiting"
  BY DEF DueTo
<1>3. Present' = Present /\ Listening' = Listening /\ Knows' = Knows
  BY <1>1 DEF Present, Listening, Knows
<1>4. AllNews' = AllNews
  <2>1. ASSUME NEW d \in Clients PROVE News(conn[d])' = News(conn[d])
    BY <1>1 DEF News
  <2> QED BY <2>1 DEF AllNews
<1>5. AllDue' = [d \in Clients |-> IF d \in clients THEN "ready" ELSE AllDue[d]]
  <2>1. ASSUME NEW d \in Clients
        PROVE  DueTo(conn[d])' = IF d \in clients THEN "ready" ELSE DueTo(conn[d])
    <3>1. CASE d \in clients
      BY <1>1, <1>2, <3>1 DEF DueTo
    <3>2. CASE d \notin clients
      BY <1>1, <3>2 DEF DueTo
    <3> QED BY <3>1, <3>2
  <2> QED BY <2>1 DEF AllDue
<1>6. ASSUME NEW d \in Clients PROVE Sound(conn[d])'
  <2>1. CASE d \in clients
    BY <1>1, <1>2, <2>1 DEF Sound, SoundInv
  <2>2. CASE d \notin clients
    BY <1>1, <2>2 DEF Sound, SoundInv
  <2> QED BY <2>1, <2>2
<1>7. Promised!SResolve(clients)
  BY <1>3, <1>4, <1>5 DEF Promised!SResolve, AllDue
<1> QED BY <1>6, <1>7 DEF Fulfils, Promised!SNext

(* The question of a client is in the channel, or its attempt runs.         *)
LEMMA AskedOf ==
  ASSUME SoundInv, NEW c \in Clients, c \in learning \/ Promises(c) # {}
  PROVE  DueTo(conn[c]) = "asked"
BY DEF SoundInv, IpcInv, OnePromise, DueTo

LEMMA AnswerFulfils ==
  ASSUME SoundInv, version' = version, NEW c \in Clients, c \in learning \/ Promises(c) # {},
         Answer(c)
  PROVE  Fulfils
<1> DEFINE clients == {c}
<1>1. conn' = [d \in Clients |-> IF d \in clients THEN [conn[d] EXCEPT !.reply = "sent"]
                                 ELSE conn[d]]
  BY DEF Answer, SoundInv, IpcInv, TypeOK
<1>2. clients \in SUBSET Clients /\ \A d \in clients : DueTo(conn[d]) = "asked"
  BY AskedOf
<1> HIDE DEF clients
<1> QED BY <1>1, <1>2, Resolves

(* The machine serves the first message. *)
LEMMA MachineFulfils == ASSUME SoundInv, MachineStep PROVE Fulfils
<1>1. CASE UNCHANGED <<version, conn>>
  BY <1>1, Elsewhere
<1>2. CASE /\ ctrlQ # <<>> /\ version' = version
           /\ Answer(Head(ctrlQ).client) /\ Head(ctrlQ).op # "Command"
  <2>1. /\ ctrlQ \in Seq(Message) /\ Head(ctrlQ) = ctrlQ[1] /\ 1 \in DOMAIN ctrlQ
        /\ Head(ctrlQ).client \in Clients
    <3>1. ctrlQ \in Seq(Message)
      BY DEF SoundInv, IpcInv, TypeOK, Message
    <3>2. Head(ctrlQ) = ctrlQ[1] /\ 1 \in DOMAIN ctrlQ
      BY <1>2, <3>1
    <3>3. Head(ctrlQ) \in Message
      BY <1>2, <3>1, ChannelType
    <3> QED BY <3>1, <3>2, <3>3 DEF Message
  <2>2. 1 \in Promises(Head(ctrlQ).client)
    BY <1>2, <2>1 DEF Promises
  <2> QED BY <1>2, <2>1, <2>2, AnswerFulfils
<1> QED BY <1>1, <1>2 DEF MachineStep, ServeCommand, ServeAsk, ServeLearn, Serve

(* A pairing attempt ends. *)
LEMMA LearnEndsFulfils == ASSUME SoundInv, NEW c \in Clients, LearnEnds(c) PROVE Fulfils
BY AnswerFulfils DEF LearnEnds

(* The machine's task ends, with the questions in the channel.              *)
LEMMA MachineEndsFulfils == ASSUME SoundInv, MachineEnds PROVE Fulfils
<1> DEFINE clients == {c \in Clients : Promises(c) # {}}
<1>1. version' = version
      /\ conn' = [d \in Clients |-> IF d \in clients THEN [conn[d] EXCEPT !.reply = "dropped"]
                                    ELSE conn[d]]
  BY DEF MachineEnds
<1>2. \A d \in clients : DueTo(conn[d]) = "asked"
  BY AskedOf
<1>3. clients \in SUBSET Clients
  OBVIOUS
<1> HIDE DEF clients
<1> QED BY <1>1, <1>2, <1>3, Resolves

(* A value is published. *)
LEMMA PublishFulfils == ASSUME SoundInv, NEW t \in Topics, Publish(t) PROVE Fulfils
<1>1. /\ version' = [version EXCEPT ![t] = @ + 1] /\ conn' = conn
      /\ version \in Version
      /\ \A c \in Clients : conn[c] \in Connection
  BY DEF Publish, SoundInv, IpcInv, TypeOK
<1>2. \A u \in Topics : /\ version[u] \in Nat
                        /\ version'[u] = IF u = t THEN version[u] + 1 ELSE version[u]
  BY <1>1, VersionsAreNumbers DEF Version
<1>3. /\ Present' = Present /\ Listening' = Listening /\ Knows' = Knows /\ AllDue' = AllDue
  BY <1>1 DEF Present, Listening, Knows, AllDue, DueTo
<1>4. ASSUME NEW c \in Clients
      PROVE  News(conn[c])' = IF c \in Present THEN [AllNews[c] EXCEPT ![t] = @ + 1]
                              ELSE AllNews[c]
  <2>1. CASE c \in Present
    <3>1. conn[c].phase # "closed" /\ AllNews[c] = News(conn[c])
      BY <2>1, Seen
    <3>2. AllNews[c] = [u \in Topics |-> version[u] - conn[c].seen[u]
                + (IF conn[c].phase = "changed" /\ conn[c].current = u THEN 1 ELSE 0)]
      BY <3>1 DEF News
    <3>3. News(conn[c])' = [u \in Topics |-> version'[u] - conn[c].seen[u]
                + (IF conn[c].phase = "changed" /\ conn[c].current = u THEN 1 ELSE 0)]
      BY <1>1, <3>1 DEF News
    <3>4. ASSUME NEW u \in Topics
          PROVE  version'[u] - conn[c].seen[u]
                   + (IF conn[c].phase = "changed" /\ conn[c].current = u THEN 1 ELSE 0)
                 = IF u = t THEN AllNews[c][u] + 1 ELSE AllNews[c][u]
      <4>1. PICK n \in Nat :
              n = IF conn[c].phase = "changed" /\ conn[c].current = u THEN 1 ELSE 0
        OBVIOUS
      <4>2. AllNews[c][u] = version[u] - conn[c].seen[u] + n /\ conn[c].seen[u] \in Nat
        BY <1>1, <3>2, <4>1, VersionsAreNumbers
      <4> QED BY <1>2, <4>1, <4>2
    <3> QED BY <2>1, <3>2, <3>3, <3>4
  <2>2. CASE c \notin Present
    BY <1>1, <2>2, Seen DEF News
  <2> QED BY <2>1, <2>2
<1>5. AllNews' = [c \in Clients |-> IF c \in Present THEN [AllNews[c] EXCEPT ![t] = @ + 1]
                                    ELSE AllNews[c]]
  BY <1>4 DEF AllNews
<1>6. ASSUME NEW c \in Clients PROVE Sound(conn[c])'
  <2>1. \A u \in Topics : conn[c].seen[u] \in Nat
    BY <1>1, VersionsAreNumbers
  <2>2. Sound(conn[c])
    BY DEF SoundInv
  <2>3. \A u \in Topics : conn[c].seen[u] <= version'[u]
    BY <1>2, <2>1, <2>2 DEF Sound
  <2> QED BY <1>1, <2>2, <2>3 DEF Sound
<1>7. Promised!SPublish(t)
  BY <1>1, <1>3, <1>5 DEF Promised!SPublish
<1> QED BY <1>6, <1>7 DEF Fulfils, Promised!SNext

(* Every step keeps the promise. *)
LEMMA StepFulfils == SoundInv /\ [Next]_vars => Fulfils
<1> SUFFICES ASSUME SoundInv, [Next]_vars PROVE Fulfils
  OBVIOUS
<1>1. CASE \E c \in Clients : \/ Connect(c) \/ Write(c) \/ ReadEnd(c) \/ LearnEnds(c)
                              \/ Dispatch(c) \/ Finish(c) \/ Notice(c)
  <2>1. PICK c \in Clients : \/ Connect(c) \/ Write(c) \/ ReadEnd(c) \/ LearnEnds(c)
                             \/ Dispatch(c) \/ Finish(c) \/ Notice(c)
    BY <1>1
  <2>2. CASE Connect(c) \/ Write(c) \/ ReadEnd(c) \/ LearnEnds(c)
    BY <2>2, ConnectFulfils, WriteFulfils, EndFulfils, LearnEndsFulfils
  <2>3. CASE Dispatch(c)
    BY <2>3, ReadGetFulfils, ReadSubscribeFulfils, ReadBadFulfils, ReadForMachineFulfils
       DEF Dispatch
  <2>4. CASE Finish(c)
    BY <2>4, SendCtrlFulfils, DaemonGoneFulfils, AnsweredFulfils, PushFulfils DEF Finish
  <2>5. CASE Notice(c)
    BY <2>5, EndFulfils, ChangedFulfils DEF Notice
  <2> QED BY <2>1, <2>2, <2>3, <2>4, <2>5
<1>2. CASE (\E t \in Topics : Publish(t)) \/ MachineStep \/ MachineEnds
  BY <1>2, PublishFulfils, MachineFulfils, MachineEndsFulfils
<1>3. CASE UNCHANGED vars
  BY <1>3, Elsewhere DEF vars
<1> QED BY <1>1, <1>2, <1>3 DEF Next

(* The socket keeps the promise of module Service, whatever the clients ask *)
(* and hang up on, and however the machine's answers, its publications and  *)
(* its end fall between the steps of a dispatch.  What it takes is that a   *)
(* connection has never seen more than was published, that only a           *)
(* subscriber is in a push, and that a command is in one place              *)
(* (OnePromise).                                                            *)
THEOREM ServiceKept == Spec => KeepsService
<1>1. Init => SoundInv /\ Promised!SInit
  <2> SUFFICES ASSUME Init PROVE SoundInv /\ Promised!SInit
    OBVIOUS
  <2>1. IpcInv
    BY Initially
  <2>2. \A c \in Clients : conn[c] = Closed
    BY DEF Init
  <2>3. /\ \A t \in Topics : Closed.seen[t] = 0 /\ version[t] = 0
        /\ Closed.phase = "closed" /\ ~Closed.subscribed /\ Closed.view = Promised!Nothing
        /\ DueTo(Closed) = "nothing" /\ News(Closed) = Promised!Nothing
    BY DEF Init, Closed, Fresh, DueTo, News, Promised!Nothing
  <2> HIDE DEF Closed
  <2>4. SoundInv
    BY <2>1, <2>2, <2>3 DEF SoundInv, Sound
  <2>5. version = Promised!Nothing
    BY DEF Init, Promised!Nothing
  <2>6. Present = {} /\ Listening = {}
    BY <2>2, <2>3 DEF Present, Listening
  <2>7. /\ Knows = [c \in Clients |-> Promised!Nothing]
        /\ AllNews = [c \in Clients |-> Promised!Nothing]
        /\ AllDue = [c \in Clients |-> "nothing"]
    BY <2>2, <2>3 DEF Knows, AllNews, AllDue
  <2> QED BY <2>4, <2>5, <2>6, <2>7 DEF Promised!SInit
<1>2. SoundInv /\ [Next]_vars => SoundInv'
  BY Inductive, StepFulfils DEF SoundInv, Fulfils
<1>3. SoundInv /\ [Next]_vars => [Promised!SNext]_(Promised!svars)
  BY StepFulfils DEF Fulfils, Stays, Promised!svars
<1> QED BY <1>1, <1>2, <1>3, PTL DEF Spec, KeepsService, Promised!SSpec
=============================================================================
