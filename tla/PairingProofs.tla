--------------------------- MODULE PairingProofs ---------------------------
(***************************************************************************)
(* What pairing from the tray guarantees for every set of devices and      *)
(* nodes, every first configuration and every number of moves and deaths.  *)
(***************************************************************************)
EXTENDS Pairing, TLAPS

-----------------------------------------------------------------------------
(* The readers.                                                             *)

RolesOf == {None, "remote", "watch", "ended"}

(* Whatever configuration they are asked for, each reader has a role.       *)
LEMMA RolesType ==
  ASSUME NEW c PROVE Roles(c) \in [Nodes -> RolesOf]
BY DEF Roles, RolesOf

(* What nothing is on its way to correct is right already.  Without a watch *)
(* nothing is ever on its way.                                              *)
ReadersInv ==
  /\ reader \in [Nodes -> RolesOf]
  /\ ~up => inotify = "off"
  /\ inotify = "off" => ~dirty /\ ~rescan
  /\ up /\ ~unseen /\ inotify # "events" /\ ~dirty /\ ~rescan => ReadersOf(cfg)

(* What the readers should be depends on the devices and the configuration. *)
LEMMA RolesSame ==
  ASSUME at' = at, granted' = granted
  PROVE  /\ cfg' = cfg => Roles(cfg)' = Roles(cfg)
         /\ Roles(cfg)' = Roles(cfg')
BY DEF Roles, Listed, RemoteNode, ByHint, First

(* A step that touches neither readers nor what they depend on.             *)
LEMMA ReadersKept ==
  ASSUME ReadersInv, UNCHANGED <<at, granted, reader, cfg>>,
         inotify' = inotify, dirty' = dirty, rescan' = rescan, unseen' = unseen,
         up' = up
  PROVE  ReadersInv'
<1>1. ReadersOf(cfg)' = ReadersOf(cfg)
  BY RolesSame DEF ReadersOf
<1> QED BY <1>1 DEF ReadersInv

(* A reader that fails is one of those that were asked for.                 *)
LEMMA FailureKeepsReaders ==
  ASSUME ReadersInv, NEW n \in Nodes, ReadFails(n), UNCHANGED <<up, cfg>>
  PROVE  ReadersInv'
<1>1. /\ reader[n] \in {"remote", "watch"} /\ reader' = [reader EXCEPT ![n] = "ended"]
      /\ UNCHANGED <<at, granted, inotify, dirty, rescan, unseen>>
  BY DEF ReadFails, hotplug
<1>2. Roles(cfg)' = Roles(cfg)
  BY <1>1, RolesSame
<1>3. /\ reader' \in [Nodes -> RolesOf] /\ reader'[n] = "ended"
      /\ \A m \in Nodes \ {n} : reader'[m] = reader[m]
  BY <1>1 DEF ReadersInv, RolesOf
<1>4. ASSUME ReadersOf(cfg) PROVE ReadersOf(cfg)'
  <2>1. Roles(cfg)[n] \in {"remote", "watch"}
    BY <1>1, <1>4 DEF ReadersOf
  <2> QED BY <1>2, <1>3, <1>4, <2>1 DEF ReadersOf
<1> QED BY <1>1, <1>3, <1>4 DEF ReadersInv

(* A change is noticed, or is marked as one that was not. *)
LEMMA HardwareKeepsReaders ==
  ASSUME ReadersInv, HardwareChanges PROVE ReadersInv'
<1>1. CASE \E n \in Nodes : ReadFails(n)
  BY <1>1, FailureKeepsReaders DEF HardwareChanges, daemon
<1>2. CASE ~\E n \in Nodes : ReadFails(n)
  <2>1. NodeChanged /\ up' = up
    BY <1>2 DEF HardwareChanges, Plug, Grant, Unplug, daemon
  <2>2. reader' \in [Nodes -> RolesOf]
    <3>1. reader' = reader \/ \E n \in Nodes : reader' = [reader EXCEPT ![n] = None]
      BY <1>2 DEF HardwareChanges, Plug, Grant, Unplug
    <3> QED BY <3>1 DEF ReadersInv, RolesOf
  <2> QED BY <2>1, <2>2 DEF ReadersInv, NodeChanged
<1> QED BY <1>1, <1>2

(* From the first event to the rescan the change is on its way.             *)
LEMMA HotplugKeepsReaders ==
  ASSUME ReadersInv, HotplugWorks PROVE ReadersInv'
<1>1. UNCHANGED <<at, granted, reader, cfg, unseen, up>> /\ up
  BY DEF HotplugWorks, HotplugStep, HotplugStarts, ReadEvent, Debounce, daemon
<1>2. ReadersOf(cfg)' = ReadersOf(cfg)
  BY <1>1, RolesSame DEF ReadersOf
<1>3. CASE HotplugStarts
  BY <1>1, <1>2, <1>3 DEF HotplugStarts, ReadersInv
<1>4. CASE ReadEvent
  BY <1>1, <1>4 DEF ReadEvent, ReadersInv
<1>5. CASE Debounce
  BY <1>1, <1>5 DEF Debounce, ReadersInv
<1> QED BY <1>3, <1>4, <1>5 DEF HotplugWorks, HotplugStep

(* Whoever changes the configuration spawns the readers for it.             *)
LEMMA SpawningKeepsReaders ==
  ASSUME ReadersInv, up, up' = up, UNCHANGED <<at, granted, inotify, dirty, unseen>>,
         rescan' => rescan, reader' = Roles(cfg')
  PROVE  ReadersInv'
<1>1. reader' = Roles(cfg)' /\ reader' \in [Nodes -> RolesOf]
  BY RolesSame, RolesType
<1>2. ReadersOf(cfg)'
  BY <1>1 DEF ReadersOf
<1> QED BY <1>1, <1>2 DEF ReadersInv

(* The daemon ends and starts again. *)
LEMMA EndsKeepReaders ==
  ASSUME ReadersInv, DaemonDies \/ DaemonStarts PROVE ReadersInv'
<1>1. CASE DaemonDies
  <2>1. reader' \in [Nodes -> RolesOf]
    BY <1>1 DEF DaemonDies, DevicesLost, RolesOf
  <2> QED BY <1>1, <2>1 DEF DaemonDies, DevicesLost, ReadersInv
<1>2. CASE DaemonStarts
  <2>1. up' /\ UNCHANGED <<at, granted, inotify, dirty, rescan, cfg>> /\ ~up
        /\ reader' = Roles(cfg)
    BY <1>2 DEF DaemonStarts, SpawnReaders
  <2>2. reader' = Roles(cfg)' /\ reader' \in [Nodes -> RolesOf]
    BY <2>1, RolesSame, RolesType
  <2>3. ReadersOf(cfg)'
    BY <2>2 DEF ReadersOf
  <2> QED BY <2>1, <2>2, <2>3 DEF ReadersInv
<1> QED BY <1>1, <1>2

(* Whatever is plugged, granted, edited or restarted in whatever order, the *)
(* readers are those of the configuration once nothing is on its way.       *)
THEOREM ReadersAlwaysMatch == Spec => []ReadersMatch
<1>1. Init => ReadersInv
  <2> SUFFICES ASSUME Init PROVE ReadersInv
    OBVIOUS
  <2>1. reader = Roles(cfg) /\ reader \in [Nodes -> RolesOf]
    BY RolesType DEF Init
  <2>2. ReadersOf(cfg)
    BY <2>1 DEF ReadersOf
  <2> QED BY <2>1, <2>2 DEF Init, ReadersInv
<1>2. ReadersInv /\ [Next]_vars => ReadersInv'
  <2> SUFFICES ASSUME ReadersInv, [Next]_vars PROVE ReadersInv'
    OBVIOUS
  <2> USE DEF devices, hotplug, daemon
  <2>1. CASE UNCHANGED <<devices, daemon>>
    BY <2>1, ReadersKept
  <2>2. CASE HardwareChanges
    BY <2>2, HardwareKeepsReaders
  <2>3. CASE \E n \in Nodes : Press(n)
    BY <2>3, ReadersKept DEF Press
  <2>4. CASE RivalWrites \/ ServeSetConfig
    BY <2>4, SpawningKeepsReaders DEF RivalWrites, ServeSetConfig, Serving, SpawnReaders
  <2>5. CASE ServeToggle
    BY <2>5, ReadersKept DEF ServeToggle
  <2>6. CASE HotplugWorks
    BY <2>6, HotplugKeepsReaders
  <2>7. CASE MachineRescans
    BY <2>7, SpawningKeepsReaders DEF MachineRescans, Rescan, SpawnReaders
  <2>8. CASE DaemonDies \/ DaemonStarts
    BY <2>8, EndsKeepReaders
  <2> QED
    BY <2>1, <2>2, <2>3, <2>4, <2>5, <2>6, <2>7, <2>8
    DEF Next, vars, DaemonStep, UserPicks, ServeGetConfig, RefuseSetConfig,
        ServeLearnRemote, RefuseLearnRemote, AttemptSettles, AttemptTimesOut,
        TrayConnects, TrayWorks
<1>3. ReadersInv => ReadersMatch
  BY DEF ReadersInv, ReadersMatch, Settled
<1> QED BY <1>1, <1>2, <1>3, PTL DEF Spec

-----------------------------------------------------------------------------
(* What travels between tray and daemon.                                    *)

Names  == {NameOf[d] : d \in Device}
Keys   == {KeyOf[d] : d \in Device} \cup FirstConfig.keys
Others == {FirstConfig.other, 1}

(* The configurations there can be whose other settings are in O.           *)
Cfg(O) ==
  [hint  : Names \cup {None, FirstConfig.hint},
   path  : Nodes \cup {None, FirstConfig.path},
   keys  : (SUBSET Keys) \ {{}},
   other : O]

Requests(O) ==
  [op : {"Toggle", "LearnRemote", "GetConfig"}, era : {era}] \cup
  [op : {"SetConfig"}, era : {era}, cfg : Cfg(O)]

Presses == {Learned(n, d) : n \in Nodes, d \in Device}

Answers(O) ==
  [kind : {"Ok", "TimedOut", "Error"}] \cup [kind : {"Config"}, cfg : Cfg(O)] \cup Presses

WireFits(O) ==
  /\ queued \in Seq(Requests(O)) /\ sent \in Seq(Requests(O))
  /\ answers \in Seq(Answers(O))

(* The copy the tray has of the configuration, or is about to get before    *)
(* anything else can be answered.                                           *)
Known(O) == trayCfg \in Cfg(O) \cup {None}

Awaiting ==
  IF answers = <<>>
    THEN \/ ~peer
         \/ sent # <<>> /\ Head(sent).op = "GetConfig" /\ attempt = None
    ELSE Head(answers).kind = "Config"

Fits(O) == WireFits(O) /\ (Known(O) \/ phase # "session" \/ Awaiting)

(* The daemon hangs up only by dying, which ends the attempt.               *)
Base ==
  /\ at \in [Nodes -> Device \cup {None}]
  /\ era \in Nat
  /\ phase # "session" => ~peer
  /\ ~peer => attempt = None /\ sent = <<>>

-----------------------------------------------------------------------------
(* Queues: what is added is of the set, what is left is. *)
LEMMA Queue ==
  ASSUME NEW S, NEW q \in Seq(S)
  PROVE  /\ \A x \in S : Append(q, x) \in Seq(S) /\ Append(q, x) # <<>>
                           /\ (q # <<>> => Head(Append(q, x)) = Head(q))
                           /\ (q = <<>> => Head(Append(q, x)) = x)
         /\ q # <<>> => Head(q) \in S /\ Tail(q) \in Seq(S)
         /\ <<>> \in Seq(S)
<1>1. ASSUME NEW x \in S
      PROVE  /\ Append(q, x) \in Seq(S) /\ Len(Append(q, x)) = Len(q) + 1
             /\ Append(q, x)[1] = IF Len(q) = 0 THEN x ELSE q[1]
  OBVIOUS
<1>2. ASSUME NEW x \in S
      PROVE  /\ Append(q, x) # <<>>
             /\ (q # <<>> => Head(Append(q, x)) = Head(q))
             /\ (q = <<>> => Head(Append(q, x)) = x)
  BY <1>1
<1> QED BY <1>1, <1>2

(* What a press says. *)
LEMMA PressSays ==
  ASSUME NEW a \in Presses
  PROVE  /\ a.kind = "Learned" /\ a.path \in Nodes /\ a.device \in Device
         /\ a.name = NameOf[a.device] /\ a.key = KeyOf[a.device]
         /\ a.name \in Names /\ a.key \in {KeyOf[d] : d \in Device}
BY DEF Presses, Learned, Names

(* A press teaches the tray's copy; the other settings stay. *)
LEMMA ApplyLearnedType ==
  ASSUME NEW O, NEW c \in Cfg(O), NEW a \in Presses
  PROVE  ApplyLearned(c, a) \in Cfg(O)
<1> DEFINE h == IF a.name = None THEN c.hint ELSE a.name
           p == IF a.name = None THEN a.path ELSE None
           k == {a.key}
<1>1. h \in Names \cup {None, FirstConfig.hint}
  BY PressSays DEF Cfg
<1>4. p \in Nodes \cup {None, FirstConfig.path}
  BY PressSays
<1>5. k \in (SUBSET Keys) \ {{}}
  <2>1. a.key \in Keys
    BY PressSays DEF Keys
  <2> QED BY <2>1
<1>2. ApplyLearned(c, a) = [c EXCEPT !.hint = h, !.path = p, !.keys = k]
  BY DEF ApplyLearned, Cfg
<1> HIDE DEF h, p, k
<1>3. [c EXCEPT !.hint = h, !.path = p, !.keys = k] \in Cfg(O)
  BY <1>1, <1>4, <1>5 DEF Cfg
<1> QED BY <1>2, <1>3

(* Nothing moves on the wire. *)
LEMMA FitsKept ==
  ASSUME NEW O, Fits(O), UNCHANGED <<queued, sent, answers, peer, phase, trayCfg, era>>,
         attempt = None => attempt' = None
  PROVE  Fits(O)' /\ (Known(O) => Known(O)')
BY DEF Fits, WireFits, Known, Awaiting, Requests, Answers

(* The menu adds requests without a configuration. *)
LEMMA PickFits ==
  ASSUME NEW O, Fits(O), UserPicks
  PROVE  Fits(O)' /\ (Known(O) => Known(O)')
<1>1. UNCHANGED <<sent, answers, peer, phase, trayCfg, era, attempt>>
  BY DEF UserPicks, ClickToggle, ClickPair, Click
<1>2. PICK op \in {"Toggle", "LearnRemote"} : queued' = Append(queued, Request(op))
  BY DEF UserPicks, ClickToggle, ClickPair
<1>3. Request(op) \in Requests(O)
  BY DEF Request, Requests
<1>4. queued' \in Seq(Requests(O))
  BY <1>2, <1>3, Queue DEF Fits, WireFits
<1> QED BY <1>1, <1>4 DEF Fits, WireFits, Known, Awaiting, Requests, Answers

(* A request answered at once; the configuration is answered by one.        *)
LEMMA AnswerFits ==
  ASSUME NEW O, Fits(O), NEW op, NEW a \in Answers(O), Answer(op, a),
         op = "GetConfig" => a.kind = "Config", attempt' = attempt
  PROVE  Fits(O)' /\ (Known(O) => Known(O)')
<1>1. /\ UNCHANGED <<queued, peer, phase, trayCfg, era>>
      /\ peer /\ sent # <<>> /\ Head(sent).op = op
      /\ sent' = Tail(sent) /\ answers' = Append(answers, a)
  BY DEF Answer
<1>2. sent' \in Seq(Requests(O)) /\ answers' \in Seq(Answers(O)) /\ answers' # <<>>
  BY <1>1, Queue DEF Fits, WireFits
<1>3. (answers # <<>> => Head(answers') = Head(answers))
      /\ (answers = <<>> => Head(answers') = a)
  BY <1>1, Queue DEF Fits, WireFits
<1>4. Awaiting => Awaiting'
  BY <1>1, <1>2, <1>3 DEF Awaiting
<1> QED BY <1>1, <1>2, <1>4 DEF Fits, WireFits, Known, Requests, Answers

(* A pairing is taken up: then nothing is awaited before it. *)
LEMMA TakeFits ==
  ASSUME NEW O, Fits(O), Take("LearnRemote")
  PROVE  Fits(O)' /\ (Known(O) => Known(O)')
<1>1. /\ UNCHANGED <<queued, answers, peer, phase, trayCfg, era>>
      /\ peer /\ sent # <<>> /\ Head(sent).op = "LearnRemote"
      /\ sent' = Tail(sent)
  BY DEF Take
<1>2. sent' \in Seq(Requests(O))
  BY <1>1, Queue DEF Fits, WireFits
<1>3. Awaiting => Awaiting'
  BY <1>1 DEF Awaiting
<1> QED BY <1>1, <1>2, <1>3 DEF Fits, WireFits, Known, Requests, Answers

(* The attempt answers. *)
LEMMA PayFits ==
  ASSUME NEW O, Fits(O), Base, attempt # None, NEW a \in Answers(O), Pay(a)
  PROVE  Fits(O)' /\ (Known(O) => Known(O)')
<1>1. /\ UNCHANGED <<queued, sent, peer, phase, trayCfg, era>>
      /\ answers' = Append(answers, a) /\ peer
  BY DEF Pay, Base
<1>2. answers' \in Seq(Answers(O)) /\ answers' # <<>>
      /\ (answers # <<>> => Head(answers') = Head(answers))
  BY <1>1, Queue DEF Fits, WireFits
<1>3. Awaiting => Awaiting'
  BY <1>1, <1>2 DEF Awaiting
<1> QED BY <1>1, <1>2, <1>3 DEF Fits, WireFits, Known, Requests, Answers

(* The daemon dies; what it answered can be read. *)
LEMMA HangUpFits ==
  ASSUME NEW O, Fits(O), HangUp
  PROVE  Fits(O)' /\ (Known(O) => Known(O)')
<1>1. UNCHANGED <<queued, answers, phase, trayCfg, era>> /\ ~peer' /\ sent' = <<>>
  BY DEF HangUp
<1>2. sent' \in Seq(Requests(O))
  BY <1>1
<1>3. Awaiting => Awaiting'
  BY <1>1 DEF Awaiting
<1> QED BY <1>1, <1>2, <1>3 DEF Fits, WireFits, Known, Requests, Answers

(* A new connection starts from nothing but the question for the            *)
(* configuration.                                                           *)
LEMMA ConnectFits ==
  ASSUME NEW O, Base, Connect, attempt' = attempt
  PROVE  Fits(O)' /\ (Known(O) => Known(O)')
<1>1. /\ queued' = <<>> /\ answers' = <<>> /\ peer' /\ trayCfg' = trayCfg
      /\ attempt' = None
  BY DEF Connect, Base
<1>2. sent' = <<[op |-> "GetConfig", era |-> era']>>
  BY DEF Connect, Resync, Request
<1>3. [op |-> "GetConfig", era |-> era'] \in Requests(O)'
  BY DEF Requests
<1>4. WireFits(O)'
  BY <1>1, <1>2, <1>3 DEF WireFits
<1>5. Awaiting'
  BY <1>1, <1>2 DEF Awaiting
<1> QED BY <1>1, <1>4, <1>5 DEF Fits, Known

(* An answer is applied: a configuration makes the copy known; anything     *)
(* else comes when it is, and what the tray sends then is taken from it.    *)
LEMMA ApplyFits ==
  ASSUME NEW O, Fits(O), ApplyResponse
  PROVE  WireFits(O)' /\ Known(O)'
<1> DEFINE a == Head(answers)
<1>1. /\ UNCHANGED <<sent, era>> /\ phase = "session" /\ answers # <<>>
      /\ answers' = Tail(answers) /\ Applied(a)
  BY DEF ApplyResponse
<1>2. a \in Answers(O) /\ answers' \in Seq(Answers(O))
  BY <1>1, Queue DEF Fits, WireFits
<1>3. a.kind # "Config" => Known(O)
  BY <1>1 DEF Fits, Awaiting
<1>4. Requests(O)' = Requests(O) /\ Answers(O)' = Answers(O)
  BY <1>1 DEF Requests, Answers
<1> HIDE DEF a
<1>5. CASE a.kind = "Config"
  <2>1. a.cfg \in Cfg(O) /\ trayCfg' = a.cfg /\ queued' = queued
    BY <1>1, <1>2, <1>5, PressSays DEF Applied, Answers
  <2> QED BY <1>1, <1>2, <1>4, <2>1 DEF Fits, WireFits, Known
<1>6. CASE a.kind = "Learned"
  <2>1. FinishPairing(a) /\ a \in Presses
    BY <1>1, <1>2, <1>6 DEF Applied, Answers
  <2>2. CASE trayCfg = None
    <3>1. queued' = Append(queued, Request("GetConfig")) /\ trayCfg' = None
      BY <2>1, <2>2 DEF FinishPairing
    <3>2. Request("GetConfig") \in Requests(O)
      BY DEF Request, Requests
    <3> QED BY <1>1, <1>2, <1>4, <3>1, <3>2, Queue DEF Fits, WireFits, Known
  <2>3. CASE trayCfg # None
    <3> DEFINE c == ApplyLearned(trayCfg, a)
    <3>1. c \in Cfg(O)
      BY <1>3, <1>6, <2>1, <2>3, ApplyLearnedType DEF Known
    <3>2. queued' = Append(queued, SetConfig(c)) /\ trayCfg' = c
      BY <2>1, <2>3 DEF FinishPairing
    <3> HIDE DEF c
    <3>3. SetConfig(c) \in Requests(O)
      BY <3>1 DEF SetConfig, Requests
    <3> QED BY <1>1, <1>2, <1>4, <3>1, <3>2, <3>3, Queue DEF Fits, WireFits, Known
  <2> QED BY <2>2, <2>3
<1>7. CASE a.kind \notin {"Config", "Learned"}
  <2>1. UNCHANGED <<queued, trayCfg>>
    BY <1>1, <1>7 DEF Applied
  <2> QED BY <1>1, <1>2, <1>3, <1>4, <1>7, <2>1 DEF Fits, WireFits, Known
<1> QED BY <1>5, <1>6, <1>7

(* What the supervisor does with a connection. *)
LEMMA SessionFits ==
  ASSUME NEW O, Fits(O), Session, attempt' = attempt
  PROVE  Fits(O)' /\ (Known(O) => Known(O)')
<1>1. CASE WriteRequest
  <2>1. /\ UNCHANGED <<answers, peer, phase, trayCfg, era>> /\ queued # <<>>
        /\ sent' = Append(sent, Head(queued)) /\ queued' = Tail(queued)
    BY <1>1 DEF WriteRequest
  <2>2. Head(queued) \in Requests(O) /\ queued' \in Seq(Requests(O))
    BY <2>1, Queue DEF Fits, WireFits
  <2>3. /\ sent' \in Seq(Requests(O)) /\ sent' # <<>>
        /\ sent # <<>> => Head(sent') = Head(sent)
    BY <2>1, <2>2, Queue DEF Fits, WireFits
  <2>4. Awaiting => Awaiting'
    BY <2>1, <2>3 DEF Awaiting
  <2> QED BY <2>1, <2>2, <2>3, <2>4 DEF Fits, WireFits, Known, Requests, Answers
<1>2. CASE WriteFails \/ EndOfStream
  <2>1. /\ UNCHANGED <<sent, trayCfg, era>> /\ phase' = "ended" /\ answers' = <<>>
        /\ queued' = queued \/ (queued # <<>> /\ queued' = Tail(queued))
    BY <1>2 DEF WriteFails, EndOfStream, EndSession
  <2>2. queued' \in Seq(Requests(O)) /\ answers' \in Seq(Answers(O))
    BY <2>1, Queue DEF Fits, WireFits
  <2> QED BY <2>1, <2>2 DEF Fits, WireFits, Known, Requests, Answers
<1>3. CASE ShowOffline
  <2>1. UNCHANGED <<queued, sent, answers, trayCfg, era>> /\ phase' = "offline"
    BY <1>3 DEF ShowOffline, wire
  <2> QED BY <2>1 DEF Fits, WireFits, Known, Requests, Answers
<1>4. CASE ApplyResponse
  BY <1>4, ApplyFits DEF Fits
<1> QED BY <1>1, <1>2, <1>3, <1>4 DEF Session

(* Devices keep to their nodes, connections to their order. *)
LEMMA BaseStep ==
  ASSUME Base, [Next]_vars PROVE Base'
<1> USE DEF Base
<1>1. at' \in [Nodes -> Device \cup {None}]
  <2>1. CASE HardwareChanges
    BY <2>1 DEF HardwareChanges, Plug, Grant, Unplug, ReadFails
  <2>2. CASE at' = at
    BY <2>2
  <2> QED
    BY <2>1, <2>2
    DEF Next, vars, devices, hotplug, daemon, Press, UserPicks, RivalWrites, DaemonStep,
        ServeGetConfig, ServeToggle, ServeSetConfig, RefuseSetConfig, ServeLearnRemote,
        RefuseLearnRemote, AttemptSettles, AttemptTimesOut, HotplugWorks, HotplugStep,
        HotplugStarts, ReadEvent, Debounce, MachineRescans, Rescan, DaemonDies,
        DevicesLost, DaemonStarts, TrayConnects, TrayWorks
<1>2. CASE UNCHANGED <<era, phase, peer, sent>> /\ (attempt = None => attempt' = None)
  BY <1>1, <1>2
<1>3. CASE HardwareChanges \/ RivalWrites \/ HotplugWorks \/ MachineRescans
           \/ DaemonStarts \/ AttemptSettles \/ AttemptTimesOut \/ UserPicks
           \/ \E n \in Nodes : Press(n)
  BY <1>2, <1>3
  DEF HardwareChanges, RivalWrites, HotplugWorks, MachineRescans, DaemonStarts, tray, wire,
      AttemptSettles, AttemptTimesOut, UserPicks, ClickToggle, ClickPair, Click, Deafen,
      Settle, TimeOut, Pay, Press, LearnFrom
<1>4. CASE DaemonStep
  <2>1. peer /\ UNCHANGED <<era, phase, peer>>
    BY <1>4 DEF DaemonStep, ServeGetConfig, ServeToggle, ServeSetConfig, RefuseSetConfig,
                ServeLearnRemote, RefuseLearnRemote, Answer, Take
  <2> QED BY <1>1, <2>1
<1>5. CASE DaemonDies
  BY <1>1, <1>5 DEF DaemonDies, HangUp
<1>6. CASE TrayConnects
  <2>1. peer' /\ phase' = "session" /\ era' = era + 1
    BY <1>6 DEF TrayConnects, Connect
  <2> QED BY <1>1, <2>1
<1>7. CASE TrayWorks
  BY <1>1, <1>7 DEF TrayWorks, Session, WriteRequest, WriteFails, EndOfStream, EndSession,
                    ShowOffline, ApplyResponse, wire
<1>8. CASE UNCHANGED vars
  BY <1>2, <1>8 DEF vars, tray, wire
<1> QED BY <1>3, <1>4, <1>5, <1>6, <1>7, <1>8 DEF Next

(* What a press on a listed node teaches. *)
LEMMA LearnedType ==
  ASSUME Base, NEW n \in Listed PROVE Learned(n, at[n]) \in Presses
<1>1. n \in Nodes /\ at[n] \in Device
  BY DEF Base, Listed
<1> QED BY <1>1 DEF Presses

(* The other client changes a valid configuration into one. *)
LEMMA RivalType ==
  ASSUME RivalWrites, cfg \in Cfg(Others) PROVE cfg' \in Cfg(Others)
<1>1. CASE cfg' = [cfg EXCEPT !.other = 1]
  BY <1>1 DEF Cfg, Others
<1>2. CASE cfg' = [FirstConfig EXCEPT !.other = 1]
  <2>1. FirstConfig.keys \in (SUBSET Keys) \ {{}}
    BY PairingAssumption DEF Keys, Valid
  <2> QED BY <1>2, <2>1, PairingAssumption DEF Cfg, Others
<1> QED BY <1>1, <1>2 DEF RivalWrites

(* And says what it says. *)
LEMMA RivalWritesOther ==
  ASSUME RivalWrites, cfg \in Cfg(Others) PROVE cfg'.other = 1
<1>1. CASE cfg' = [cfg EXCEPT !.other = 1]
  BY <1>1 DEF Cfg
<1>2. CASE cfg' = [FirstConfig EXCEPT !.other = 1]
  BY <1>2, PairingAssumption
<1> QED BY <1>1, <1>2 DEF RivalWrites

(* Every step but one of the other client keeps what travels, and the       *)
(* configuration, to the settings they had.                                 *)
LEMMA StepFits ==
  ASSUME NEW O, Base, Fits(O), cfg \in Cfg(O), [Next]_vars
  PROVE  /\ Fits(O)' /\ (Known(O) => Known(O)')
         /\ cfg' \in Cfg(O) \/ RivalWrites
<1> USE DEF devices, daemon, tray, wire, history
<1>1. CASE UNCHANGED tray /\ (attempt = None => attempt' = None)
           /\ (cfg' = cfg \/ RivalWrites)
  BY <1>1, FitsKept
<1>2. CASE HardwareChanges \/ RivalWrites \/ HotplugWorks \/ MachineRescans
           \/ DaemonStarts \/ AttemptSettles \/ UNCHANGED vars
  BY <1>1, <1>2
  DEF HardwareChanges, RivalWrites, HotplugWorks, MachineRescans, DaemonStarts,
      AttemptSettles, Deafen, Settle, vars
<1>3. CASE \E n \in Nodes : Press(n)
  <2>1. PICK n \in Listed : Press(n)
    BY <1>3 DEF Press
  <2>2. CASE LearnFrom(n) /\ Pay(Learned(n, at[n]))
    <3>1. Learned(n, at[n]) \in Answers(O) /\ attempt # None
      BY <2>2, LearnedType DEF Answers, LearnFrom, Hears
    <3> QED BY <2>1, <2>2, <3>1, PayFits DEF Press
  <2>3. CASE UNCHANGED <<attempt, tray>>
    BY <1>1, <2>1, <2>3 DEF Press
  <2> QED BY <2>1, <2>2, <2>3 DEF Press
<1>4. CASE UserPicks
  BY <1>4, PickFits DEF UserPicks
<1>5. CASE ServeGetConfig
  <2>1. [kind |-> "Config", cfg |-> cfg] \in Answers(O)
    BY DEF Answers
  <2> QED BY <1>5, <2>1, AnswerFits DEF ServeGetConfig
<1>6. CASE ServeToggle \/ ServeSetConfig \/ RefuseSetConfig \/ RefuseLearnRemote
  <2>1. [kind |-> "Ok"] \in Answers(O) /\ [kind |-> "Error"] \in Answers(O)
    BY DEF Answers
  <2>2. attempt' = attempt
    BY <1>6 DEF ServeToggle, ServeSetConfig, RefuseSetConfig, RefuseLearnRemote,
                CannotListen
  <2>3. \E op \in {"Toggle", "SetConfig", "LearnRemote"}, k \in {"Ok", "Error"} :
          Answer(op, [kind |-> k])
    BY <1>6 DEF ServeToggle, ServeSetConfig, RefuseSetConfig, RefuseLearnRemote
  <2>4. Fits(O)' /\ (Known(O) => Known(O)')
    BY <2>1, <2>2, <2>3, AnswerFits
  <2>5. CASE ServeSetConfig
    <3>1. sent # <<>> /\ Head(sent).op = "SetConfig" /\ cfg' = Head(sent).cfg
      BY <2>5 DEF ServeSetConfig, Answer
    <3>2. Head(sent) \in Requests(O)
      BY <3>1, Queue DEF Fits, WireFits
    <3>3. Head(sent).cfg \in Cfg(O)
      BY <3>1, <3>2 DEF Requests
    <3> QED BY <2>4, <3>1, <3>3
  <2> QED BY <1>6, <2>4, <2>5 DEF ServeToggle, RefuseSetConfig, RefuseLearnRemote
<1>7. CASE ServeLearnRemote
  BY <1>7, TakeFits DEF ServeLearnRemote
<1>8. CASE AttemptTimesOut
  <2>1. [kind |-> "TimedOut"] \in Answers(O) /\ attempt # None
    BY <1>8 DEF Answers, AttemptTimesOut, TimeOut
  <2> QED BY <1>8, <2>1, PayFits DEF AttemptTimesOut
<1>9. CASE DaemonDies
  BY <1>9, HangUpFits DEF DaemonDies
<1>10. CASE TrayConnects
  BY <1>10, ConnectFits DEF TrayConnects
<1>11. CASE TrayWorks
  BY <1>11, SessionFits DEF TrayWorks
<1> QED BY <1>2, <1>3, <1>4, <1>5, <1>6, <1>7, <1>8, <1>9, <1>10, <1>11
        DEF Next, DaemonStep

-----------------------------------------------------------------------------
(* The inductive invariant: while the other client has written nothing over *)
(* this connection, everything on it has the settings there are.            *)
PairingInv ==
  /\ Base /\ Fits(Others) /\ Known(Others) /\ cfg \in Cfg(Others)
  /\ edited # era => Fits({cfg.other})

(* A configuration is one with the settings it has. *)
LEMMA OwnSettings ==
  ASSUME NEW O, NEW c \in Cfg(O) PROVE c \in Cfg({c.other}) /\ c.other \in O
BY DEF Cfg

(* A step keeps the settings of an undisturbed connection ...               *)
LEMMA SettingsKept ==
  ASSUME PairingInv, [Next]_vars, edited # era, ~RivalWrites
  PROVE  cfg'.other = cfg.other /\ Fits({cfg.other})'
<1>1. PICK v : v = cfg.other
  OBVIOUS
<1>2. Fits({v}) /\ cfg \in Cfg({v}) /\ Base
  BY <1>1, OwnSettings DEF PairingInv
<1>3. Fits({v})' /\ cfg' \in Cfg({v})
  BY <1>2, StepFits
<1>4. cfg'.other = v
  BY <1>3 DEF Cfg
<1> QED BY <1>1, <1>3, <1>4

(* ... and a new connection begins undisturbed. *)
LEMMA ConnectionBegins ==
  ASSUME PairingInv, TrayConnects PROVE Fits({cfg.other})'
<1>1. PICK v : v = cfg.other
  OBVIOUS
<1>2. cfg' = cfg /\ Connect /\ attempt' = attempt /\ Base
  BY DEF TrayConnects, daemon, PairingInv
<1>3. Fits({v})'
  BY <1>2, ConnectFits
<1> QED BY <1>1, <1>2, <1>3

(* The invariant is inductive. *)
LEMMA PairingInductive == Spec => []PairingInv
<1>1. Init => PairingInv
  <2> SUFFICES ASSUME Init PROVE PairingInv
    OBVIOUS
  <2>1. Base
    BY PairingAssumption DEF Init, TrayInit, Base
  <2>2. ASSUME NEW O PROVE Fits(O)
    BY DEF Init, TrayInit, Fits, WireFits
  <2>3. cfg \in Cfg(Others)
    <3>1. FirstConfig.keys \in (SUBSET Keys) \ {{}}
      BY PairingAssumption DEF Keys, Valid
    <3> QED BY <3>1, PairingAssumption DEF Init, Cfg, Others
  <2>4. Known(Others)
    BY DEF Init, TrayInit, Known
  <2>5. PICK v : v = cfg.other
    OBVIOUS
  <2>6. Fits({cfg.other})
    BY <2>2, <2>5
  <2> QED BY <2>1, <2>2, <2>3, <2>4, <2>6 DEF PairingInv
<1>2. PairingInv /\ [Next]_vars => PairingInv'
  <2> SUFFICES ASSUME PairingInv, [Next]_vars PROVE PairingInv'
    OBVIOUS
  <2>1. Base'
    BY BaseStep DEF PairingInv
  <2>2. Fits(Others)' /\ Known(Others)' /\ cfg' \in Cfg(Others)
    <3>1. PICK O : O = Others
      OBVIOUS
    <3>2. Fits(O)' /\ Known(O)' /\ (cfg' \in Cfg(O) \/ RivalWrites)
      BY <3>1, StepFits DEF PairingInv
    <3> QED BY <3>1, <3>2, RivalType DEF PairingInv
  <2>3. ASSUME edited' # era' PROVE Fits({cfg.other})'
    <3>1. CASE RivalWrites
      BY <2>3, <3>1 DEF RivalWrites, tray
    <3>2. CASE TrayConnects
      BY <3>2, ConnectionBegins
    <3>3. CASE ~RivalWrites /\ ~TrayConnects
      <4>1. era' = era /\ edited' = edited
        BY <3>3
        DEF Next, vars, tray, wire, daemon, history, DaemonStep, HardwareChanges, Press,
            Pay, UserPicks, ClickToggle, ClickPair, Click, ServeGetConfig, ServeToggle,
            ServeSetConfig, RefuseSetConfig, ServeLearnRemote, RefuseLearnRemote, Answer,
            Take, AttemptSettles, AttemptTimesOut, HotplugWorks, MachineRescans,
            DaemonDies, HangUp, DaemonStarts, TrayWorks, Session, WriteRequest,
            WriteFails, EndOfStream, EndSession, ShowOffline, ApplyResponse
      <4>2. cfg'.other = cfg.other /\ Fits({cfg.other})'
        BY <2>3, <3>3, <4>1, SettingsKept
      <4> QED BY <4>2
    <3> QED BY <3>1, <3>2, <3>3
  <2> QED BY <2>1, <2>2, <2>3 DEF PairingInv
<1> QED BY <1>1, <1>2, PTL DEF Spec

(* Whatever was picked when, nothing reaches a daemon over a connection it  *)
(* was not asked for on, for any number of picks, deaths and reconnections. *)
THEOREM NeverReplayed == Spec => []NothingReplayed
<1>1. PairingInv => NothingReplayed
  <2> SUFFICES ASSUME PairingInv, NEW i \in DOMAIN sent PROVE sent[i].era = era
    BY DEF NothingReplayed
  <2>1. sent[i] \in Requests(Others)
    BY DEF PairingInv, Fits, WireFits
  <2> QED BY <2>1 DEF Requests
<1> QED BY <1>1, PairingInductive, PTL

(* A setting that another client wrote before the connection began is never *)
(* undone over it: what the tray writes back was read over it.              *)
THEOREM EditsOutliveConnections == Spec => OldEditsSurvive
<1>1. PairingInv /\ [Next]_vars => [cfg.other = 1 /\ cfg'.other = 0 => edited = era]_vars
  <2> SUFFICES ASSUME PairingInv, [Next]_vars, cfg.other = 1, cfg'.other = 0
               PROVE  edited = era
    OBVIOUS
  <2>1. CASE RivalWrites
    <3>1. cfg'.other = 1
      BY <2>1, RivalWritesOther DEF PairingInv
    <3> QED BY <3>1
  <2>2. CASE ~RivalWrites
    BY <2>2, SettingsKept
  <2> QED BY <2>1, <2>2
<1> QED BY <1>1, PairingInductive, PTL DEF Spec, OldEditsSurvive

-----------------------------------------------------------------------------
(* Types.                                                                   *)

(* The devices. *)
LEMMA DevicesTyped ==
  ASSUME TypeOK, [Next]_vars PROVE DevicesTypeOK'
<1> USE DevicesAssumption DEF TypeOK, DevicesTypeOK, RolesOf
<1>1. CASE UNCHANGED <<at, granted, inotify, dirty, rescan, unseen, moves>>
           /\ (reader' = reader \/ \E c : reader' = Roles(c))
  BY <1>1, RolesType
<1>2. CASE HardwareChanges
  <2>1. inotify' \in {"off", "quiet", "events"} /\ unseen' \in BOOLEAN
        /\ UNCHANGED <<dirty, rescan>>
    BY <1>2 DEF HardwareChanges, Plug, Grant, Unplug, ReadFails, NodeChanged, hotplug
  <2>2. moves' \in 0..MaxMoves
    BY <1>2 DEF HardwareChanges, Plug, Grant, Unplug, ReadFails
  <2>3. CASE \E d \in Device, n \in Nodes : Plug(d, n)
    BY <2>1, <2>2, <2>3 DEF Plug
  <2>4. CASE \E n \in Nodes : Grant(n)
    BY <2>1, <2>2, <2>4 DEF Grant
  <2>5. CASE \E n \in Nodes : Unplug(n)
    BY <2>1, <2>2, <2>5 DEF Unplug
  <2>6. CASE \E n \in Nodes : ReadFails(n)
    BY <2>1, <2>2, <2>6 DEF ReadFails
  <2> QED BY <1>2, <2>3, <2>4, <2>5, <2>6 DEF HardwareChanges
<1>3. CASE HotplugWorks
  BY <1>3 DEF HotplugWorks, HotplugStep, HotplugStarts, ReadEvent, Debounce
<1>4. CASE MachineRescans
  BY <1>4, RolesType DEF MachineRescans, Rescan, SpawnReaders
<1>5. CASE DaemonDies
  BY <1>5 DEF DaemonDies, DevicesLost
<1>6. CASE DaemonStarts
  BY <1>6, RolesType DEF DaemonStarts, SpawnReaders
<1>7. CASE RivalWrites \/ ServeSetConfig
  BY <1>1, <1>7 DEF RivalWrites, ServeSetConfig, SpawnReaders, hotplug
<1> QED
  BY <1>1, <1>2, <1>3, <1>4, <1>5, <1>6, <1>7
  DEF Next, vars, devices, hotplug, daemon, Press, UserPicks, DaemonStep, ServeGetConfig,
      ServeToggle, RefuseSetConfig, ServeLearnRemote, RefuseLearnRemote,
      AttemptSettles, AttemptTimesOut, TrayConnects, TrayWorks

(* The attempt. *)
LEMMA LearnTyped ==
  ASSUME TypeOK, [Next]_vars PROVE LearnTypeOK'
<1> USE DEF TypeOK, LearnTypeOK
<1>1. CASE attempt' \in {attempt, None}
  BY <1>1
<1>2. CASE \E n : Deafen(n)
  BY <1>2 DEF Deafen, Attempt
<1>3. CASE Listen
  BY <1>3 DEF Listen, Listening, Listed, Attempt
<1>4. CASE Settle
  BY <1>4 DEF Settle, Attempt
<1> QED
  BY <1>1, <1>2, <1>3, <1>4
  DEF Next, vars, HardwareChanges, Press, LearnFrom, UserPicks, RivalWrites, DaemonStep,
      ServeGetConfig, ServeToggle, ServeSetConfig, RefuseSetConfig, ServeLearnRemote,
      RefuseLearnRemote, CannotListen, AttemptSettles, AttemptTimesOut, TimeOut,
      HotplugWorks, MachineRescans, DaemonDies, DaemonStarts, TrayConnects, TrayWorks

(* The tray, but for what PairingInv says of its queues. *)
LEMMA TrayTyped ==
  ASSUME TypeOK, [Next]_vars
  PROVE  /\ phase' \in {"offline", "session", "ended"} /\ peer' \in BOOLEAN
         /\ pairing' \in {"Idle", "Waiting", "Done", "NothingPressed", "Refused"}
         /\ clicks' \in 0..MaxClicks
<1> USE PairingAssumption DEF TypeOK, TrayTypeOK
<1>1. CASE UNCHANGED <<phase, peer, pairing, clicks>>
  BY <1>1
<1>2. CASE UserPicks
  BY <1>2 DEF UserPicks, ClickToggle, ClickPair, Click
<1>3. CASE DaemonDies
  BY <1>3 DEF DaemonDies, HangUp
<1>4. CASE TrayConnects
  BY <1>4 DEF TrayConnects, Connect
<1>5. CASE TrayWorks
  BY <1>5 DEF TrayWorks, Session, WriteRequest, WriteFails, EndOfStream, EndSession,
              ShowOffline, ApplyResponse, Applied, FinishPairing, wire
<1> QED
  BY <1>1, <1>2, <1>3, <1>4, <1>5
  DEF Next, vars, tray, wire, DaemonStep, HardwareChanges, Press, Pay, RivalWrites,
      ServeGetConfig, ServeToggle, ServeSetConfig, RefuseSetConfig, ServeLearnRemote,
      RefuseLearnRemote, Answer, Take, AttemptSettles, AttemptTimesOut, HotplugWorks,
      MachineRescans, DaemonStarts

(* The daemon, and what the tray has reported. *)
LEMMA DaemonTyped ==
  ASSUME TypeOK, PairingInv, [Next]_vars
  PROVE  /\ up' \in BOOLEAN /\ state' \in {"Idle", "Active"}
         /\ owed' \in Device \cup {None} /\ deaths' \in 0..MaxDeaths
         /\ fate' \in {"kept", "refused", "lost", "undone"}
<1> USE PairingAssumption DEF TypeOK
<1>1. CASE UNCHANGED <<up, state, owed, deaths>>
           /\ fate' \in {fate, "refused", "undone"}
  BY <1>1
<1>2. CASE \E n \in Nodes : Press(n)
  BY <1>2 DEF Press, Toggled, history
<1>3. CASE ServeToggle
  BY <1>3 DEF ServeToggle, Toggled, history
<1>4. CASE DaemonDies \/ DaemonStarts
  <2>1. deaths' \in 0..MaxDeaths
    BY <1>4 DEF DaemonDies, DaemonStarts
  <2>2. owed' = owed /\ fate' \in {fate, "lost"} /\ state' \in {state, "Idle"}
    BY <1>4 DEF DaemonDies, DaemonStarts, history
  <2>3. up' = TRUE \/ up' = FALSE
    BY <1>4 DEF DaemonDies, DaemonStarts
  <2> QED BY <2>1, <2>2, <2>3
<1>5. CASE TrayWorks
  <2>1. CASE UNCHANGED <<owed, fate>>
    BY <1>5, <2>1 DEF TrayWorks, daemon
  <2>2. CASE /\ answers # <<>> /\ Head(answers).kind = "Learned"
             /\ owed' = Head(answers).device /\ fate' \in {"kept", "lost"}
    <3>1. Head(answers) \in Answers(Others)
      BY <2>2, Queue DEF PairingInv, Fits, WireFits
    <3>2. Head(answers).device \in Device
      BY <2>2, <3>1, PressSays DEF Answers
    <3> QED BY <1>5, <2>2, <3>2 DEF TrayWorks, daemon
  <2> QED BY <1>5, <2>1, <2>2 DEF TrayWorks, ReportsPaired
<1> QED
  BY <1>1, <1>2, <1>3, <1>4, <1>5
  DEF Next, vars, daemon, history, DaemonStep, HardwareChanges, UserPicks, RivalWrites,
      ServeGetConfig, ServeSetConfig, RefuseSetConfig, ServeLearnRemote,
      RefuseLearnRemote, AttemptSettles, AttemptTimesOut, HotplugWorks,
      MachineRescans, TrayConnects

(* What travels is of the present connection, and the configuration valid.  *)
QueueTypes ==
  /\ era \in Nat /\ Valid(cfg)
  /\ \A i \in DOMAIN queued : queued[i].era \in 0..era
  /\ \A i \in DOMAIN sent : sent[i].era \in 0..era

LEMMA QueuesTyped == PairingInv => QueueTypes
<1> SUFFICES ASSUME PairingInv PROVE QueueTypes
  OBVIOUS
<1>1. era \in Nat /\ era \in 0..era
  BY DEF PairingInv, Base
<1>2. \A x \in Requests(Others) : x.era = era
  BY DEF Requests
<1>3. queued \in Seq(Requests(Others)) /\ sent \in Seq(Requests(Others))
  BY DEF PairingInv, Fits, WireFits
<1>4. Valid(cfg)
  BY DEF PairingInv, Cfg, Valid
<1> QED BY <1>1, <1>2, <1>3, <1>4 DEF QueueTypes

(* Type correctness. *)
THEOREM TypeCorrect == Spec => []TypeOK
<1>1. Init => TypeOK
  <2> SUFFICES ASSUME Init PROVE TypeOK
    OBVIOUS
  <2>1. DevicesTypeOK
    <3>1. reader \in [Nodes -> {None, "remote", "watch", "ended"}]
      BY RolesType DEF Init, RolesOf
    <3>2. moves \in 0..MaxMoves
      BY DevicesAssumption DEF Init
    <3>3. dirty \in BOOLEAN /\ rescan \in BOOLEAN /\ unseen \in BOOLEAN
      BY DEF Init
    <3> QED BY <3>1, <3>2, <3>3, PairingAssumption DEF Init, DevicesTypeOK
  <2>2. LearnTypeOK
    BY DEF Init, LearnTypeOK
  <2>3. TrayTypeOK
    <3>1. clicks \in 0..MaxClicks
      BY PairingAssumption DEF Init, TrayInit
    <3>2. DOMAIN queued = {} /\ DOMAIN sent = {}
      BY DEF Init, TrayInit
    <3>3. peer \in BOOLEAN
      BY DEF Init, TrayInit
    <3> QED BY <3>1, <3>2, <3>3 DEF Init, TrayInit, TrayTypeOK
  <2> QED BY <2>1, <2>2, <2>3, PairingAssumption DEF Init, TypeOK
<1>2. TypeOK /\ PairingInv /\ QueueTypes' /\ [Next]_vars => TypeOK'
  <2> SUFFICES ASSUME TypeOK, PairingInv, QueueTypes', [Next]_vars PROVE TypeOK'
    OBVIOUS
  <2>1. TrayTypeOK'
    BY TrayTyped DEF QueueTypes, TrayTypeOK
  <2> QED BY <2>1, DevicesTyped, LearnTyped, DaemonTyped DEF QueueTypes, TypeOK
<1> QED BY <1>1, <1>2, PairingInductive, QueuesTyped, PTL DEF Spec
=============================================================================
