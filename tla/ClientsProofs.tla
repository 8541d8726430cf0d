--------------------------- MODULE ClientsProofs ---------------------------
(***************************************************************************)
(* What Access and Client guarantee, and with them Clients, for every set  *)
(* of accounts and groups, every umask and every number of runs.           *)
(***************************************************************************)
EXTENDS Clients, TLAPS

USE AccessAssumption

-----------------------------------------------------------------------------
(* The socket and its directory.                                            *)

Owned  == {"narrowed", "prepared", "bound", "moded", "configured"}
Bound  == {"bound", "moded", "configured", "serving"}

(* While the daemon starts a directory of its own is closed to everybody    *)
(* else, whatever it was before; the group gets it before the socket exists.*)
DirFits ==
  /\ stage = "narrowed" => ours
  /\ stage \in Owned \cup {"created", "serving"} => dir # None
  /\ ours /\ dir # None => dir.group \in {OwnGroup, Boundary}
  /\ ours /\ stage \in Owned => dir.open = "owner"
  /\ ours /\ stage \in (Owned \ {"narrowed"}) \cup {"serving"} => dir.group = Boundary
  /\ ours /\ stage = "serving" => dir.open = "group"

SockFits ==
  /\ stage \in Bound => sock # None
  /\ stage \in {"bound", "moded"} => sock.group = OwnGroup
  /\ stage \in {"moded", "configured", "serving"} => sock.open = "group"
  /\ stage \in {"configured", "serving"} => sock.group = Boundary
  /\ stage = "stopping" => sock = None

AccessInv == AccessTypeOK /\ DirFits /\ SockFits

(* None is no node: a directory or a socket that was made is there.         *)
LEMMA NodeIsThere == None \notin Node
BY DEF Node, Boundary

(* Changing the mode or the group of a node leaves a node.                  *)
LEMMA NodeChanges ==
  ASSUME NEW n \in Node, NEW o \in Opening
  PROVE  /\ [n EXCEPT !.open = o] \in Node
         /\ [n EXCEPT !.open = o].open = o
         /\ [n EXCEPT !.open = o].group = n.group
         /\ Granted(n) \in Node
         /\ Granted(n).open = n.open
         /\ n.group \in {OwnGroup, Boundary} => Granted(n).group = Boundary
BY DEF Node, Granted, Boundary

(* Each step of the start, the ends of the daemon and the removal of its    *)
(* directory keep the invariant.                                            *)
LEMMA AccessStep ==
  ASSUME AccessInv,
         Start \/ Starting \/ Stop \/ Exit \/ StartFails \/ Die \/ SystemdClears
  PROVE  AccessInv'
<1> USE NodeIsThere DEF AccessInv, AccessTypeOK, DirFits, SockFits, Step, Stage, Owned, Bound
<1>1. CASE Start
  BY <1>1 DEF Start
<1>2. CASE CreateDir
  <2> DEFINE new == [group |-> OwnGroup, open |-> Umask.dir]
  <2>1. new \in Node /\ new.group = OwnGroup
    BY DEF Node
  <2> HIDE DEF new
  <2>2. dir' = IF dir = None THEN new ELSE dir
    BY <1>2 DEF CreateDir, new
  <2>3. /\ dir' \in Node
        /\ ours => dir'.group \in {OwnGroup, Boundary}
        /\ sock' = sock /\ stage' = "created" /\ stage = "loading" /\ ours' = ours
    BY <1>2, <2>1, <2>2 DEF CreateDir
  <2> QED BY <2>3 DEF Boundary
<1>3. CASE NarrowDir
  <2>1. dir \in Node /\ dir' = [dir EXCEPT !.open = "owner"] /\ sock' = sock /\ ours
        /\ stage' = "narrowed" /\ stage = "created" /\ ours' = ours
    BY <1>3 DEF NarrowDir
  <2>2. dir' \in Node /\ dir'.open = "owner" /\ dir'.group = dir.group
    BY <2>1, NodeChanges DEF Opening
  <2> QED BY <2>1, <2>2 DEF Boundary
<1>4. CASE LeaveDir
  BY <1>4 DEF LeaveDir, Boundary
<1>5. CASE GroupDir
  <2>1. dir \in Node /\ dir' = Granted(dir) /\ sock' = sock /\ ours /\ dir.open = "owner"
        /\ stage' = "prepared" /\ stage = "narrowed" /\ ours' = ours
        /\ dir.group \in {OwnGroup, Boundary}
    BY <1>5 DEF GroupDir
  <2>2. dir' \in Node /\ dir'.open = "owner" /\ dir'.group = Boundary
    BY <2>1, NodeChanges DEF Opening
  <2> QED BY <2>1, <2>2 DEF Boundary
<1>6. CASE Bind
  <2> DEFINE new == [group |-> OwnGroup, open |-> Umask.sock]
  <2>1. new \in Node /\ new.group = OwnGroup
    BY DEF Node
  <2> HIDE DEF new
  <2>2. sock' = new /\ dir' = dir /\ stage' = "bound" /\ stage = "prepared" /\ ours' = ours
    BY <1>6 DEF Bind, new
  <2> QED BY <2>1, <2>2 DEF Boundary
<1>7. CASE ModeSocket
  <2>1. sock \in Node /\ sock' = [sock EXCEPT !.open = "group"] /\ dir' = dir
        /\ stage' = "moded" /\ stage = "bound" /\ ours' = ours /\ sock.group = OwnGroup
    BY <1>7 DEF ModeSocket
  <2>2. sock' \in Node /\ sock'.open = "group" /\ sock'.group = OwnGroup
    BY <2>1, NodeChanges DEF Opening
  <2> QED BY <2>1, <2>2 DEF Boundary
<1>8. CASE GroupSocket
  <2>1. sock \in Node /\ sock' = Granted(sock) /\ dir' = dir /\ sock.open = "group"
        /\ stage' = "configured" /\ stage = "moded" /\ ours' = ours /\ sock.group = OwnGroup
    BY <1>8 DEF GroupSocket
  <2>2. sock' \in Node /\ sock'.open = "group" /\ sock'.group = Boundary
    BY <2>1, NodeChanges DEF Opening
  <2> QED BY <2>1, <2>2 DEF Boundary
<1>9. CASE WidenDir
  <2>1. dir \in Node /\ sock' = sock /\ stage' = "serving" /\ stage = "configured"
        /\ ours' = ours
        /\ dir' = IF ours THEN [dir EXCEPT !.open = "group"] ELSE dir
    BY <1>9 DEF WidenDir
  <2>2. /\ dir' \in Node
        /\ ours => dir'.open = "group" /\ dir'.group = Boundary
    BY <2>1, NodeChanges DEF Opening
  <2> QED BY <2>1, <2>2 DEF Boundary
<1>10. CASE Stop
  BY <1>10 DEF Stop, Boundary
<1>11. CASE Exit
  BY <1>11 DEF Exit, Boundary
<1>12. CASE StartFails
  BY <1>12 DEF StartFails, Boundary
<1>13. CASE Die
  BY <1>13 DEF Die, Boundary
<1>14. CASE SystemdClears
  BY <1>14 DEF SystemdClears, Boundary
<1> QED BY <1>1, <1>2, <1>3, <1>4, <1>5, <1>6, <1>7, <1>8, <1>9, <1>10, <1>11, <1>12,
           <1>13, <1>14 DEF Starting

(* The steps of a run of the daemon, of its clients and its users that      *)
(* touch neither node leave the invariant alone; the others are above.      *)
LEMMA AccessInductive == Spec => []AccessInv
<1>1. Init => AccessInv
  <2> SUFFICES ASSUME AccessInit PROVE AccessInv
    BY DEF Init
  <2>1. Foreign \in Node
    BY DEF Node
  <2> QED BY <2>1 DEF AccessInit, AccessInv, AccessTypeOK, DirFits, SockFits, Stage,
                      Owned, Bound
<1>2. AccessInv /\ [Next]_vars => AccessInv'
  <2> SUFFICES ASSUME AccessInv, [Next]_vars PROVE AccessInv'
    OBVIOUS
  <2>1. CASE UNCHANGED access
    BY <2>1 DEF access, AccessInv, AccessTypeOK, DirFits, SockFits, Boundary, Node
  <2>2. CASE Start \/ Starting \/ Stop \/ Exit \/ StartFails \/ Die \/ SystemdClears
    BY <2>2, AccessStep
  <2> QED
    BY <2>1, <2>2
    DEF Next, vars, DaemonStarts, DaemonStops, DaemonGoes, RuntimeCleared, DaemonServes,
        Retries, WindowSteps, UserSteps, CtlStarts, CtlWorks
<1> QED BY <1>1, <1>2, PTL DEF Spec

(* No account outside the group ever reaches the socket of a daemon that    *)
(* manages its directory, in any state of a start, a stop or a death; and a *)
(* member reaches that of one that serves.                                  *)
THEOREM OnlyTheGroup == Spec => []ExactlyTheGroup
<1>1. AccessInv => ExactlyTheGroup
  <2> SUFFICES ASSUME AccessInv PROVE ExactlyTheGroup
    OBVIOUS
  <2> USE DEF AccessInv, DirFits, SockFits, Owned, Bound
  <2>1. ASSUME NEW a \in Account \ Members, ours \/ stage = "serving"
        PROVE  Reach(a) # "open"
    <3>1. Boundary \notin GroupsOf[a]
      BY <2>1 DEF Members
    <3>2. CASE stage \in {"serving", "stopping"}
      BY <3>1, <3>2 DEF Reach, Admits
    <3>3. CASE ours /\ stage \in {"bound", "moded", "configured"}
      BY <3>3 DEF Reach, Admits
    <3>4. CASE stage \notin {"bound", "moded", "configured", "serving", "stopping"}
      BY <3>4 DEF Reach, Listening
    <3> QED BY <2>1, <3>2, <3>3, <3>4
  <2>2. ASSUME stage = "serving", ours, NEW a \in Members PROVE Reach(a) = "open"
    BY <2>2 DEF Reach, Admits, Members, Listening
  <2> QED BY <2>1, <2>2 DEF ExactlyTheGroup
<1> QED BY <1>1, AccessInductive, PTL

-----------------------------------------------------------------------------
(* Calls.                                                                   *)

(* A call is a record; one that may not be replayed is carried out only on  *)
(* its way from "asked" on, and never gets back there.                      *)
CallFits(k) ==
  /\ k \in [req : {k.req}, try : {k.try}, acts : Nat, answer : {k.answer}, fate : {k.fate}]
  /\ k.req.op \notin ReplaySafe => /\ k.acts <= 1
                                   /\ k.fate = "asked" => k.acts = 0

CallInv ==
  /\ \E S : call \in [Client -> S]
  /\ \A c \in Client : call[c] = None \/ CallFits(call[c])

(* One call changed, the others as they were. *)
LEMMA CallChange ==
  ASSUME CallInv, NEW c \in Client, NEW k, call' = [call EXCEPT ![c] = k],
         k = None \/ CallFits(k)
  PROVE  CallInv'
<1>1. PICK S : call \in [Client -> S]
  BY DEF CallInv
<1>2. call' \in [Client -> S \cup {k}]
  BY <1>1
<1>3. \A d \in Client : call'[d] = None \/ CallFits(call'[d])
  BY <1>1 DEF CallInv
<1> QED BY <1>2, <1>3 DEF CallInv

(* A call begins: it has not been carried out. *)
LEMMA AskKeeps ==
  ASSUME CallInv, NEW c \in Client, NEW req, Ask(c, req) \/ ConnectAndAsk(c, req)
  PROVE  CallInv'
<1> DEFINE k == Attempt(req, c)
           l == [Attempt(req, c) EXCEPT !.fate = "asked"]
<1>1. CallFits(k) /\ CallFits(l)
  BY DEF Attempt, CallFits
<1>2. call' = [call EXCEPT ![c] = k] \/ call' = [call EXCEPT ![c] = l]
  BY DEF Ask, ConnectAndAsk
<1> HIDE DEF k, l
<1> QED BY <1>1, <1>2, CallChange

(* Only what may be replayed is asked again. *)
LEMMA RetryKeeps == ASSUME CallInv, NEW c \in Client, Retry(c) PROVE CallInv'
<1> DEFINE k == [call[c] EXCEPT !.try = 2, !.fate = "asked"]
<1>1. CallFits(call[c]) /\ call[c].req.op \in ReplaySafe
  BY DEF CallInv, Retry, Lost, MayRetry
<1>2. CallFits(k)
  BY <1>1 DEF CallFits
<1>3. call' = [call EXCEPT ![c] = k]
  BY DEF Retry, CallInv
<1> HIDE DEF k
<1> QED BY <1>2, <1>3, CallChange

(* The daemon carries out what it is asked, and then it is no longer asked. *)
LEMMA ActKeeps ==
  ASSUME CallInv, NEW c \in Client, NEW op, Asked(c, op),
         NEW answer, Act(c, answer) \/ Tell(c, answer)
  PROVE  CallInv'
<1>1. CallFits(call[c]) /\ call[c].fate = "asked"
  BY DEF CallInv, Asked
<1>2. PICK fate \in {"acted", "answered"} :
        call' = [call EXCEPT ![c].fate = fate, ![c].answer = answer, ![c].acts = @ + 1]
  BY DEF Act, Tell
<1> DEFINE n == call[c].acts + 1
           k == [call[c] EXCEPT !.fate = fate, !.answer = answer, !.acts = n]
<1>3. n \in Nat /\ (call[c].req.op \notin ReplaySafe => n <= 1)
  BY <1>1 DEF CallFits
<1>4. call' = [call EXCEPT ![c] = k]
  BY <1>2 DEF CallInv
<1> HIDE DEF n
<1>5. k \in [req : {call[c].req}, try : {call[c].try}, acts : {n}, answer : {answer},
             fate : {fate}]
  BY <1>1 DEF CallFits
<1>6. CallFits(k)
  BY <1>3, <1>5 DEF CallFits
<1> HIDE DEF k
<1> QED BY <1>4, <1>6, CallChange

(* The reply, and the return of the call. *)
LEMMA ReplyKeeps ==
  ASSUME CallInv, NEW c \in Client, Reply(c) \/ Done(c) \/ Drop(c) PROVE CallInv'
<1> DEFINE k == [call[c] EXCEPT !.fate = "answered"]
<1>1. CASE Reply(c)
  <2>1. CallFits(call[c])
    BY <1>1 DEF CallInv, Reply
  <2>2. CallFits(k)
    BY <2>1 DEF CallFits
  <2>3. call' = [call EXCEPT ![c] = k]
    BY <1>1 DEF Reply, CallInv
  <2> HIDE DEF k
  <2> QED BY <2>2, <2>3, CallChange
<1>2. CASE Done(c) \/ Drop(c)
  <2>1. call' = [call EXCEPT ![c] = None]
    BY <1>2 DEF Done, Drop
  <2> QED BY <2>1, CallChange
<1> QED BY <1>1, <1>2

(* The daemon goes: no call is asked any more. *)
LEMMA SeverKeeps == ASSUME CallInv, Sever PROVE CallInv'
<1> DEFINE k(c) == [call[c] EXCEPT !.fate = "lost", !.answer = None]
           struck(c) == call[c] # None /\ call[c].fate \in {"asked", "acted"}
<1>1. call' = [c \in Client |-> IF struck(c) THEN k(c) ELSE call[c]]
  BY DEF Sever
<1>2. ASSUME NEW c \in Client PROVE call'[c] = None \/ CallFits(call'[c])
  <2>1. CASE struck(c)
    <3>1. CallFits(call[c])
      BY <2>1 DEF CallInv
    <3>2. CallFits(k(c))
      BY <3>1 DEF CallFits
    <3>3. call'[c] = k(c)
      BY <1>1, <2>1
    <3> HIDE DEF k
    <3> QED BY <3>2, <3>3
  <2>2. CASE ~struck(c)
    BY <1>1, <2>2 DEF CallInv
  <2> QED BY <2>1, <2>2
<1>3. call' \in [Client -> {call'[c] : c \in Client}]
  BY <1>1
<1> QED BY <1>2, <1>3 DEF CallInv

(* What the window does to its calls and to that of its pairing job.        *)
LEMMA WindowKeeps ==
  ASSUME CallInv, WindowWorks \/ UserActs PROVE CallInv'
<1>1. Main \in Client /\ Pairer \in Client
  BY ClientsAssumption
<1>2. CASE UNCHANGED call
  BY <1>2 DEF CallInv
<1>3. CASE \/ \E req : Ask(Main, req) \/ ConnectAndAsk(Main, req) \/ ConnectAndAsk(Pairer, req)
           \/ Done(Main) \/ Drop(Pairer)
  BY <1>1, <1>3, AskKeeps, ReplyKeeps
<1>4. CASE UserActs
  BY <1>2, <1>3, <1>4
  DEF UserActs, PickReload, PickRefresh, Edit, PickSave, PickPair, PickAuthorize, Save,
      Reconnect, ReconnectWorks, ReconnectFails, client
<1>5. CASE Opens \/ Probed \/ GotConfig \/ GotDevices \/ GotState \/ Refreshed
  BY <1>2, <1>3, <1>5
  DEF Opens, Probed, GotConfig, GotDevices, GotState, Refreshed,
      Reconnect, ReconnectWorks, ReconnectFails, client
<1>6. CASE Saved \/ Sounded \/ JobAsks \/ JobEnds
  BY <1>2, <1>3, <1>6 DEF Saved, Sounded, JobAsks, JobEnds, client
<1>7. CASE PollPairing \/ PollAuthorizing
  BY <1>2, <1>3, <1>7 DEF PollPairing, PollAuthorizing, Save, client
<1> QED BY <1>4, <1>5, <1>6, <1>7 DEF WindowWorks

(* The invariant is inductive. *)
LEMMA CallInductive == Spec => []CallInv
<1>1. Init => CallInv
  <2>1. call = [c \in Client |-> None] => call \in [Client -> {None}]
    OBVIOUS
  <2> QED BY <2>1 DEF Init, ClientInit, CallInv
<1>2. CallInv /\ [Next]_vars => CallInv'
  <2> SUFFICES ASSUME CallInv, [Next]_vars PROVE CallInv'
    OBVIOUS
  <2>1. Ctl \in Client
    BY ClientsAssumption
  <2>2. CASE UNCHANGED call
    BY <2>2 DEF CallInv
  <2>3. CASE \E c \in Client : DaemonServes(c)
    <3>1. PICK c \in Client : DaemonServes(c)
      BY <2>3
    <3>2. \/ \E op, answer : Asked(c, op) /\ (Act(c, answer) \/ Tell(c, answer))
          \/ Reply(c)
      BY <3>1 DEF DaemonServes, ServeRead, ServeLearn, ServeCommand, ServeSetConfig,
                  Replies, Serves
    <3> QED BY <3>2, ActKeeps, ReplyKeeps
  <2>4. CASE \E c \in Client : Retries(c)
    BY <2>4, RetryKeeps DEF Retries
  <2>5. CASE CtlStarts \/ CtlWorks
    <3>1. (\E req : Ask(Ctl, req) \/ ConnectAndAsk(Ctl, req)) \/ Drop(Ctl)
      BY <2>5 DEF CtlStarts, CtlRun, CtlWorks, CtlLearned, CtlGotConfig, CtlExits
    <3> QED BY <2>1, <3>1, AskKeeps, ReplyKeeps
  <2>6. CASE WindowSteps \/ UserSteps
    BY <2>6, WindowKeeps DEF WindowSteps, UserSteps
  <2>7. CASE DaemonGoes
    BY <2>7, SeverKeeps DEF DaemonGoes
  <2> QED
    BY <2>2, <2>3, <2>4, <2>5, <2>6, <2>7
    DEF Next, DaemonStarts, DaemonStops, RuntimeCleared, client, vars
<1> QED BY <1>1, <1>2, PTL DEF Spec

(* However often the connection breaks and wherever, a request that is not  *)
(* to be replayed is carried out at most once a call, by whomever asked.    *)
THEOREM NeverTwice == Spec => []AtMostOnce
<1>1. CallInv => AtMostOnce
  BY DEF CallInv, CallFits, AtMostOnce, OncePerCall, ReplaySafe
<1> QED BY <1>1, CallInductive, PTL

-----------------------------------------------------------------------------
(* Saves.                                                                   *)

Keyed(c) == "keys" \in DOMAIN c
Good(c)  == Keyed(c) /\ Valid(c)

(* Changing fields of a configuration. *)
LEMMA ConfigChanges ==
  ASSUME NEW c, Keyed(c)
  PROVE  /\ \A a : Good(ApplyLearned(c, a)) /\ ApplyLearned(c, a).keys = {a.key}
         /\ \A keys, full : /\ Keyed(Collected(c, keys, full))
                           /\ Collected(c, keys, full).keys = keys
         /\ Keyed([c EXCEPT !.other = "edited"])
BY DEF Keyed, Good, Valid, ApplyLearned, Collected

(* Every configuration that is sent or told is one. *)
Ended == {"acted", "answered"}

CallSays(k) ==
  /\ k.req.op = "SetConfig" => Good(k.req.cfg)
  /\ k.fate \in Ended /\ k.answer.kind = "Config" => Good(k.answer.cfg)

(* The window's call: what it saves, and that what was accepted was in      *)
(* force since the save began.                                              *)
SaveSays(k, d, s) ==
  /\ d \in {"saving", "testing", "pairing"} => k.req.op = "SetConfig"
  /\ d = "pairing" => k.req.cfg.keys = {Press.key}
  /\ k.req.op = "SetConfig" /\ k.fate \in Ended /\ k.answer.kind = "Ok" => k.req.cfg \in s

(* The job's call learns the press or nothing.                              *)
LearnSays(k) ==
  /\ k.req.op = "LearnRemote"
  /\ k.fate \in Ended => k.answer \in {Press, [kind |-> "TimedOut"], Refusal}

(* Every configuration on its way, in the file or in the window is good,    *)
(* and what an ended call says of the file was true during the call.        *)
SaveInv ==
  /\ Good(file) /\ Keyed(copy) /\ (got # None => Good(got))
  /\ \A c \in Client : call[c] # None => CallSays(call[c])
  /\ call[Main] # None => SaveSays(call[Main], doing, since)
  /\ call[Pairer] # None => LearnSays(call[Pairer])
  /\ job = "ended" /\ outcome.kind = "Learned" => outcome.key = Press.key

-----------------------------------------------------------------------------
(* What a step does to the calls.                                           *)

(* The daemon's answer to what client c asks. *)
Served(c) ==
  /\ call[c].req.op = "SetConfig" =>
       (call'[c].answer = Ok /\ file' = call[c].req.cfg) \/ call'[c].answer = Refusal
  /\ call[c].req.op = "LearnRemote" =>
       call'[c].answer \in {Press, [kind |-> "TimedOut"], Refusal}
  /\ call'[c].answer.kind = "Config" => call'[c].answer.cfg = file

(* The call of c ends, or goes on without a new result, or with one that    *)
(* the daemon gave.                                                         *)
Continues(c) ==
  \/ call'[c] = call[c] \/ call'[c] = None
  \/ /\ call[c] # None /\ call'[c].req = call[c].req
     /\ \/ call'[c].fate \in {"asked", "lost"}
        \/ call[c].fate \in Ended /\ call'[c].answer = call[c].answer
        \/ Served(c)

(* A call for req begins. *)
Begins(c, req) == call'[c].req = req /\ call'[c].fate \in {"asked", "lost"}

(* A client that asks begins a call, and nobody else does. *)
LEMMA BeginningOf ==
  ASSUME CallInv, NEW c \in Client, NEW req, Ask(c, req) \/ ConnectAndAsk(c, req)
  PROVE  Begins(c, req) /\ \A d \in Client \ {c} : call'[d] = call[d]
<1> DEFINE k == Attempt(req, c)
           l == [Attempt(req, c) EXCEPT !.fate = "asked"]
<1>1. /\ k.req = req /\ k.fate \in {"asked", "lost"}
      /\ l.req = req /\ l.fate \in {"asked", "lost"}
  BY DEF Attempt
<1>2. call' = [call EXCEPT ![c] = k] \/ call' = [call EXCEPT ![c] = l]
  BY DEF Ask, ConnectAndAsk
<1> HIDE DEF k, l
<1> QED BY <1>1, <1>2 DEF CallInv, Begins

(* A client that is done, or gives up, has no call any more. *)
LEMMA EndOf ==
  ASSUME CallInv, NEW c \in Client, Done(c) \/ Drop(c)
  PROVE  call'[c] = None /\ \A d \in Client \ {c} : call'[d] = call[d]
<1>1. call' = [call EXCEPT ![c] = None]
  BY DEF Done, Drop
<1> QED BY <1>1 DEF CallInv

(* A second attempt, a reply and a broken connection bring no new result.   *)
LEMMA ConnectionContinues ==
  ASSUME CallInv, (\E c \in Client : Retry(c) \/ Reply(c)) \/ Sever
  PROVE  \A c \in Client : Continues(c)
<1>1. ASSUME NEW c \in Client, Retry(c) \/ Reply(c), NEW d \in Client PROVE Continues(d)
  <2>1. call[c] # None /\ CallFits(call[c])
    BY <1>1 DEF CallInv, Retry, Lost, Reply
  <2>2. CASE d # c
    <3>1. call'[d] = call[d]
      BY <1>1, <2>2 DEF Retry, Reply, CallInv
    <3> QED BY <3>1 DEF Continues
  <2>3. CASE d = c /\ Retry(c)
    <3>1. call'[c] = [call[c] EXCEPT !.try = 2, !.fate = "asked"]
      BY <2>3 DEF Retry, CallInv
    <3>2. call'[c].req = call[c].req /\ call'[c].fate = "asked"
      BY <2>1, <3>1 DEF CallFits
    <3> QED BY <2>1, <2>3, <3>2 DEF Continues
  <2>4. CASE d = c /\ Reply(c)
    <3>1. call'[c] = [call[c] EXCEPT !.fate = "answered"] /\ call[c].fate \in Ended
      BY <2>4 DEF Reply, CallInv, Ended
    <3>2. call'[c].req = call[c].req /\ call'[c].answer = call[c].answer
      BY <2>1, <3>1 DEF CallFits
    <3> QED BY <2>1, <2>4, <3>1, <3>2 DEF Continues
  <2> QED BY <1>1, <2>2, <2>3, <2>4
<1>2. ASSUME Sever, NEW c \in Client PROVE Continues(c)
  <2>1. CASE call'[c] = call[c]
    BY <2>1 DEF Continues
  <2>2. CASE call'[c] # call[c]
    <3>1. /\ call[c] # None
          /\ call'[c] = [call[c] EXCEPT !.fate = "lost", !.answer = None]
      BY <1>2, <2>2 DEF Sever
    <3>2. CallFits(call[c])
      BY <3>1 DEF CallInv
    <3>3. call'[c].req = call[c].req /\ call'[c].fate = "lost"
      BY <3>1, <3>2 DEF CallFits
    <3> QED BY <3>1, <3>3 DEF Continues
  <2> QED BY <2>1, <2>2
<1> QED BY <1>1, <1>2

(* What the daemon answers is what it did. *)
LEMMA DaemonContinues ==
  ASSUME CallInv, NEW c \in Client, DaemonServes(c)
  PROVE  \A d \in Client : Continues(d)
<1>1. CASE Replies(c)
  BY <1>1, ConnectionContinues DEF Replies
<1>2. ASSUME NEW op, Asked(c, op), NEW answer, Act(c, answer) \/ Tell(c, answer),
             /\ op = "SetConfig" =>
                  (answer = Ok /\ file' = call[c].req.cfg) \/ answer = Refusal
             /\ op = "LearnRemote" => answer \in {Press, [kind |-> "TimedOut"], Refusal}
             /\ answer.kind = "Config" => answer.cfg = file
      PROVE  \A d \in Client : Continues(d)
  <2>1. call[c] # None /\ call[c].req.op = op /\ CallFits(call[c])
    BY <1>2 DEF Asked, CallInv
  <2>2. PICK fate \in {"acted", "answered"} :
          call' = [call EXCEPT ![c].fate = fate, ![c].answer = answer, ![c].acts = @ + 1]
    BY <1>2 DEF Act, Tell
  <2> DEFINE n == call[c].acts + 1
             k == [call[c] EXCEPT !.fate = fate, !.answer = answer, !.acts = n]
  <2>3. call'[c] = k /\ \A d \in Client \ {c} : call'[d] = call[d]
    BY <2>2 DEF CallInv
  <2> HIDE DEF n
  <2>4. k.req = call[c].req /\ k.answer = answer
    BY <2>1 DEF CallFits
  <2> HIDE DEF k
  <2>5. Served(c)
    BY <1>2, <2>1, <2>3, <2>4 DEF Served
  <2> QED BY <2>1, <2>3, <2>4, <2>5 DEF Continues
<1>3. CASE ServeRead(c)
  <2>1. PICK op \in {"GetConfig", "ListDevices", "GetState"},
             answer \in {[kind |-> "Config", cfg |-> file], [kind |-> "Devices"],
                         [kind |-> "State"]} :
          Asked(c, op) /\ Tell(c, answer)
    BY <1>3 DEF ServeRead, Serves
  <2>2. answer.kind = "Config" => answer.cfg = file
    <3>1. /\ [kind |-> "Config", cfg |-> file].cfg = file
          /\ [kind |-> "Devices"].kind # "Config" /\ [kind |-> "State"].kind # "Config"
      OBVIOUS
    <3> QED BY <2>1, <3>1
  <2>3. op # "SetConfig" /\ op # "LearnRemote"
    BY <2>1
  <2> QED BY <1>2, <2>1, <2>2, <2>3
<1>4. CASE ServeLearn(c)
  <2>1. PICK answer \in {Press, [kind |-> "TimedOut"], Refusal} :
          Asked(c, "LearnRemote") /\ Tell(c, answer)
    BY <1>4 DEF ServeLearn, Serves
  <2>2. answer.kind # "Config"
    BY ClientsAssumption DEF Refusal
  <2> QED BY <1>2, <2>1, <2>2
<1>5. CASE ServeCommand(c) \/ ServeSetConfig(c)
  <2>1. Ok.kind # "Config" /\ Refusal.kind # "Config"
    BY DEF Ok, Refusal
  <2> QED BY <1>2, <1>5, <2>1 DEF ServeCommand, ServeSetConfig, Serves
<1> QED BY <1>1, <1>3, <1>4, <1>5 DEF DaemonServes

-----------------------------------------------------------------------------
(* What the calls say stays true.                                           *)

(* A call begins, and a configuration it sends is a good one. *)
BeginsWell(c) ==
  \E req : Begins(c, req) /\ (req.op = "SetConfig" => Good(req.cfg))

(* What a call says stays true while it goes on or begins well. *)
LEMMA SaysKept ==
  ASSUME SaveInv, NEW c \in Client, Continues(c) \/ BeginsWell(c), call'[c] # None
  PROVE  CallSays(call'[c])
<1>1. CASE call'[c] = call[c]
  BY <1>1 DEF SaveInv
<1>2. CASE BeginsWell(c)
  BY <1>2 DEF BeginsWell, Begins, CallSays, Ended
<1>3. CASE Continues(c) /\ call'[c] # call[c]
  <2>1. call[c] # None /\ call'[c].req = call[c].req /\ CallSays(call[c])
    BY <1>3 DEF Continues, SaveInv
  <2>2. \/ call'[c].fate \notin Ended
        \/ call[c].fate \in Ended /\ call'[c].answer = call[c].answer
        \/ call'[c].answer.kind = "Config" => Good(call'[c].answer.cfg)
    BY <1>3 DEF Continues, Ended, Served, SaveInv
  <2> QED BY <2>1, <2>2 DEF CallSays
<1> QED BY <1>1, <1>2, <1>3

(* An accepted configuration stays in what was in force since the save      *)
(* began, and one that is accepted now is in force now.                     *)
LEMMA SaveKept ==
  ASSUME SaveInv, Continues(Main), Watch, call'[Main] # None,
         doing' = doing \/ doing' \notin {"saving", "testing", "pairing"}
  PROVE  SaveSays(call'[Main], doing', since')
<1>1. call[Main] # None /\ call'[Main].req = call[Main].req
  BY DEF Continues
<1>2. SaveSays(call[Main], doing, since)
  BY <1>1 DEF SaveInv
<1>3. ASSUME call'[Main].req.op = "SetConfig", call'[Main].fate \in Ended,
             call'[Main].answer.kind = "Ok"
      PROVE  call'[Main].req.cfg \in since'
  <2>1. since' = since \cup {file'}
    BY <1>1, <1>3 DEF Watch, Saves
  <2>2. \/ call[Main].fate \in Ended /\ call'[Main].answer = call[Main].answer
        \/ Served(Main)
    BY <1>3 DEF Continues, Ended
  <2>3. Refusal.kind # "Ok"
    BY DEF Refusal
  <2> QED BY <1>1, <1>2, <1>3, <2>1, <2>2, <2>3 DEF SaveSays, Served
<1> QED BY <1>1, <1>2, <1>3 DEF SaveSays

(* A new call of the window says nothing yet, but what it is about to save. *)
LEMMA SaveBegins ==
  ASSUME NEW req, Begins(Main, req),
         doing' \in {"saving", "testing", "pairing"} => req.op = "SetConfig",
         doing' = "pairing" => req.cfg.keys = {Press.key}
  PROVE  SaveSays(call'[Main], doing', since')
BY DEF Begins, SaveSays, Ended

(* The call that pairs goes on, and still learns the press or nothing. *)
LEMMA LearnKept ==
  ASSUME SaveInv, Continues(Pairer), call'[Pairer] # None
  PROVE  LearnSays(call'[Pairer])
<1>1. call[Pairer] # None /\ call'[Pairer].req = call[Pairer].req /\ LearnSays(call[Pairer])
  BY DEF Continues, SaveInv
<1> QED BY <1>1 DEF Continues, LearnSays, Served, Ended

(* Steps of the daemon and of alertu-ctl. *)
LEMMA OthersKeep ==
  ASSUME SaveInv, UNCHANGED window, Watch, Good(file'),
         \A c \in Client : Continues(c) \/ (c \notin {Main, Pairer} /\ BeginsWell(c))
  PROVE  SaveInv'
<1>1. Main \in Client /\ Pairer \in Client
  BY ClientsAssumption
<1>2. UNCHANGED <<copy, got, doing, job, outcome>>
  BY DEF window, form, buffers, jobs
<1>3. /\ Continues(Main) /\ Continues(Pairer)
      /\ \A c \in Client : Continues(c) \/ BeginsWell(c)
  BY <1>1
<1>4. \A c \in Client : call'[c] # None => CallSays(call'[c])
  BY <1>3, SaysKept
<1>5. call'[Main] # None => SaveSays(call'[Main], doing', since')
  BY <1>2, <1>3, SaveKept
<1>6. call'[Pairer] # None => LearnSays(call'[Pairer])
  BY <1>3, LearnKept
<1>7. /\ Keyed(copy') /\ (got' # None => Good(got'))
      /\ job' = "ended" /\ outcome'.kind = "Learned" => outcome'.key = Press.key
  BY <1>2 DEF SaveInv
<1> QED BY <1>4, <1>5, <1>6, <1>7 DEF SaveInv, CallSays, SaveSays, LearnSays, Good, Keyed, Valid

-----------------------------------------------------------------------------
(* Steps of the window, by what they do to its calls.                       *)

(* The rest of the invariant: working copy, load and job.                   *)
RestFits ==
  /\ Good(file) /\ Keyed(copy) /\ (got # None => Good(got))
  /\ job = "ended" /\ outcome.kind = "Learned" => outcome.key = Press.key

(* Nothing. *)
LEMMA QuietKeeps ==
  ASSUME SaveInv, Watch, RestFits', UNCHANGED call,
         doing' = doing \/ doing' \notin {"saving", "testing", "pairing"}
  PROVE  SaveInv'
<1>1. Main \in Client /\ Pairer \in Client /\ \A c \in Client : Continues(c)
  BY ClientsAssumption DEF Continues
<1>2. \A c \in Client : call'[c] # None => CallSays(call'[c])
  BY <1>1, SaysKept
<1>3. call'[Main] # None => SaveSays(call'[Main], doing', since')
  BY <1>1, SaveKept
<1>4. call'[Pairer] # None => LearnSays(call'[Pairer])
  BY <1>1, LearnKept
<1> QED BY <1>2, <1>3, <1>4 DEF SaveInv, RestFits, CallSays, SaveSays, LearnSays

(* A call begins. *)
LEMMA MainAsks ==
  ASSUME SaveInv, CallInv, Watch, RestFits', NEW req,
         Ask(Main, req) \/ ConnectAndAsk(Main, req),
         req.op = "SetConfig" => Good(req.cfg),
         doing' \in {"saving", "testing", "pairing"} => req.op = "SetConfig",
         doing' = "pairing" => req.cfg.keys = {Press.key}
  PROVE  SaveInv'
<1>1. Main \in Client /\ Pairer \in Client /\ Main # Pairer
  BY ClientsAssumption DEF Main, Pairer
<1>2. Begins(Main, req) /\ \A d \in Client \ {Main} : call'[d] = call[d]
  BY <1>1, BeginningOf
<1>3. \A c \in Client : Continues(c) \/ BeginsWell(c)
  BY <1>2 DEF Continues, BeginsWell
<1>4. \A c \in Client : call'[c] # None => CallSays(call'[c])
  BY <1>3, SaysKept
<1>5. SaveSays(call'[Main], doing', since')
  BY <1>2, SaveBegins
<1>6. call'[Pairer] # None => LearnSays(call'[Pairer])
  BY <1>1, <1>2, LearnKept DEF Continues
<1> QED BY <1>4, <1>5, <1>6 DEF SaveInv, RestFits, CallSays, SaveSays, LearnSays

(* A call is over. *)
LEMMA MainDone ==
  ASSUME SaveInv, CallInv, RestFits', Done(Main) PROVE SaveInv'
<1>1. Main \in Client /\ Pairer \in Client /\ Main # Pairer
  BY ClientsAssumption DEF Main, Pairer
<1>2. call'[Main] = None /\ \A d \in Client \ {Main} : call'[d] = call[d]
  BY <1>1, EndOf
<1>3. \A c \in Client : Continues(c)
  BY <1>2 DEF Continues
<1>4. \A c \in Client : call'[c] # None => CallSays(call'[c])
  BY <1>3, SaysKept
<1>5. call'[Pairer] # None => LearnSays(call'[Pairer])
  BY <1>1, <1>3, LearnKept
<1> QED BY <1>2, <1>4, <1>5 DEF SaveInv, RestFits, CallSays, SaveSays, LearnSays

(* The job asks for a press, or hands one over. *)
LEMMA JobKeeps ==
  ASSUME SaveInv, CallInv, Watch, UNCHANGED file, JobAsks \/ JobEnds PROVE SaveInv'
<1>1. Main \in Client /\ Pairer \in Client /\ Main # Pairer
  BY ClientsAssumption DEF Main, Pairer
<1>2. UNCHANGED <<copy, got, doing>>
  BY DEF JobAsks, JobEnds, form, buffers
<1>3. CASE job' = "asking"
  <2>1. ConnectAndAsk(Pairer, [op |-> "LearnRemote"])
    BY <1>3 DEF JobAsks, JobEnds
  <2>2. /\ Begins(Pairer, [op |-> "LearnRemote"])
        /\ \A d \in Client \ {Pairer} : call'[d] = call[d]
    BY <1>1, <2>1, BeginningOf
  <2>3. \A c \in Client : Continues(c) \/ BeginsWell(c)
    BY <2>2 DEF Continues, BeginsWell
  <2>4. \A c \in Client : call'[c] # None => CallSays(call'[c])
    BY <2>3, SaysKept
  <2>5. call'[Main] # None => SaveSays(call'[Main], doing', since')
    BY <1>1, <1>2, <2>2, SaveKept DEF Continues
  <2>6. LearnSays(call'[Pairer])
    BY <2>2 DEF Begins, LearnSays, Ended
  <2> QED BY <1>2, <1>3, <2>4, <2>5, <2>6
      DEF SaveInv, CallSays, SaveSays, LearnSays, Good, Keyed, Valid
<1>4. CASE UNCHANGED call /\ job' = "ended" /\ outcome' = [kind |-> "Failed"]
  <2>1. RestFits'
    BY <1>2, <1>4 DEF SaveInv, RestFits, Good, Keyed, Valid
  <2> QED BY <1>2, <1>4, <2>1, QuietKeeps
<1>5. CASE JobEnds
  <2>1. call'[Pairer] = None /\ \A d \in Client \ {Pairer} : call'[d] = call[d]
    BY <1>1, <1>5, EndOf DEF JobEnds
  <2>2. \A c \in Client : Continues(c)
    BY <2>1 DEF Continues
  <2>3. \A c \in Client : call'[c] # None => CallSays(call'[c])
    BY <2>2, SaysKept
  <2>4. call'[Main] # None => SaveSays(call'[Main], doing', since')
    BY <1>1, <1>2, <2>2, SaveKept
  <2>5. outcome'.kind = "Learned" => outcome'.key = Press.key
    <3>1. CASE Answered(Pairer) /\ outcome' = call[Pairer].answer
      <4>1. call[Pairer].answer \in {Press, [kind |-> "TimedOut"], Refusal}
        BY <3>1 DEF Answered, SaveInv, LearnSays, Ended
      <4> QED BY <3>1, <4>1 DEF Refusal
    <3>2. CASE outcome' = [kind |-> "Failed"]
      BY <3>2
    <3> QED BY <1>5, <3>1, <3>2 DEF JobEnds
  <2> QED BY <1>2, <2>1, <2>3, <2>4, <2>5
      DEF SaveInv, CallSays, SaveSays, LearnSays, Good, Keyed, Valid
<1> QED BY <1>3, <1>4, <1>5 DEF JobAsks, client

(* A step that leaves file, copy, load and job alone.                       *)
LEMMA RestKept ==
  ASSUME SaveInv, UNCHANGED <<file, copy, got, pairJob>> PROVE RestFits'
BY DEF SaveInv, RestFits, Good, Keyed, Valid, pairJob

(* reconnect, as a button or at first. *)
LEMMA ReconnectKeeps ==
  ASSUME SaveInv, CallInv, Watch, UNCHANGED file, Reconnect PROVE SaveInv'
<1>1. RestFits'
  BY RestKept DEF Reconnect, form, buffers, jobs, pairJob
<1>2. CASE ReconnectWorks
  BY <1>1, <1>2, MainAsks DEF ReconnectWorks
<1>3. CASE ReconnectFails
  BY <1>1, <1>3, QuietKeeps DEF ReconnectFails
<1> QED BY <1>2, <1>3 DEF Reconnect

(* save, of a configuration c. *)
LEMMA SaveKeeps ==
  ASSUME SaveInv, CallInv, Watch, RestFits', NEW c, Keyed(c), NEW why,
         Save(c, why), why = "pairing" => c.keys = {Press.key}
  PROVE  SaveInv'
<1> DEFINE req == [op |-> "SetConfig", cfg |-> c]
<1>1. CASE UNCHANGED <<client, doing>>
  BY <1>1, QuietKeeps DEF client
<1>2. CASE Valid(c) /\ Ask(Main, req) /\ doing' = why
  <2>1. req.op = "SetConfig" /\ Good(req.cfg) /\ req.cfg = c
    BY <1>2 DEF Good
  <2> HIDE DEF req
  <2> QED BY <1>2, <2>1, MainAsks
<1> QED BY <1>1, <1>2 DEF Save

(* What the user does. *)
LEMMA UserKeeps ==
  ASSUME SaveInv, CallInv, Watch, UNCHANGED file, UserActs PROVE SaveInv'
<1>1. CASE PickReload
  BY <1>1, ReconnectKeeps DEF PickReload
<1>2. CASE PickRefresh
  <2>1. RestFits'
    BY <1>2, RestKept DEF PickRefresh, form, buffers, jobs, pairJob
  <2> QED BY <1>2, <2>1, MainAsks DEF PickRefresh
<1>3. CASE Edit
  <2>1. Keyed(copy') /\ UNCHANGED <<got, pairJob, call, doing>>
    BY <1>3, ConfigChanges DEF Edit, SaveInv, form, buffers, jobs, pairJob, client
  <2>2. RestFits'
    BY <2>1 DEF SaveInv, RestFits, Good, Keyed, Valid, pairJob
  <2> QED BY <2>1, <2>2, QuietKeeps
<1>4. ASSUME NEW why \in {"saving", "testing"}, PickSave(why) PROVE SaveInv'
  <2> DEFINE c == Collected(copy, keysText, filled)
  <2>1. RestFits' /\ Keyed(copy) /\ Save(c, why)
    BY <1>4, RestKept DEF PickSave, SaveInv, form, buffers, jobs, pairJob
  <2>2. Keyed(c)
    BY <2>1, ConfigChanges
  <2> HIDE DEF c
  <2> QED BY <2>1, <2>2, SaveKeeps
<1>5. CASE PickPair
  <2>1. job' = "starting" /\ UNCHANGED <<copy, got, call, doing>>
    BY <1>5 DEF PickPair, form, buffers, client
  <2>2. RestFits'
    BY <2>1 DEF SaveInv, RestFits, Good, Keyed, Valid
  <2> QED BY <2>1, <2>2, QuietKeeps
<1>6. CASE PickAuthorize
  <2>1. RestFits'
    BY <1>6, RestKept DEF PickAuthorize, form, buffers
  <2> QED BY <1>6, <2>1, QuietKeeps DEF PickAuthorize, client
<1> QED BY <1>1, <1>2, <1>3, <1>4, <1>5, <1>6 DEF UserActs

(* The three answers of a load. *)
LEMMA LoadKeeps ==
  ASSUME SaveInv, CallInv, Watch, UNCHANGED file, GotConfig \/ GotDevices \/ GotState
  PROVE  SaveInv'
<1>1. CASE GotConfig
  <2>1. got' # None => Good(got')
    <3>1. ASSUME Returns(Main, "Config"), got' = call[Main].answer.cfg PROVE Good(got')
      <4>1. Answered(Main) /\ call[Main].answer.kind = "Config"
        BY <3>1 DEF Returns
      <4>2. CallSays(call[Main]) /\ call[Main].fate \in Ended
        BY <4>1, ClientsAssumption DEF Answered, SaveInv, Ended
      <4> QED BY <3>1, <4>1, <4>2 DEF CallSays
    <3> QED BY <1>1, <3>1 DEF GotConfig
  <2>2. RestFits'
    BY <1>1, <2>1 DEF GotConfig, SaveInv, RestFits, Good, Keyed, Valid, form, jobs
  <2> QED BY <1>1, <2>2, MainAsks DEF GotConfig
<1>2. CASE GotDevices
  <2>1. RestFits'
    BY <1>2 DEF GotDevices, SaveInv, RestFits, Good, Keyed, Valid, form, jobs
  <2> QED BY <1>2, <2>1, MainAsks DEF GotDevices
<1>3. CASE GotState
  <2>1. Keyed(copy')
    BY <1>3 DEF GotState, SaveInv, Good, form
  <2>2. RestFits'
    BY <1>3, <2>1 DEF GotState, SaveInv, RestFits, Good, Keyed, Valid, jobs
  <2> QED BY <1>3, <2>2, MainDone DEF GotState
<1> QED BY <1>1, <1>2, <1>3

(* The end of a save is that of its request. *)
LEMMA SavedSays ==
  ASSUME SaveInv, doing \in {"saving", "testing", "pairing"}, Returns(Main, "Ok")
  PROVE  /\ call[Main] # None /\ Good(call[Main].req.cfg) /\ call[Main].req.cfg \in since
         /\ doing = "pairing" => call[Main].req.cfg.keys = {Press.key}
<1>1. Answered(Main) /\ call[Main].answer.kind = "Ok"
  BY DEF Returns
<1>2. /\ CallSays(call[Main]) /\ SaveSays(call[Main], doing, since)
      /\ call[Main] # None /\ call[Main].fate \in Ended
  BY <1>1, ClientsAssumption DEF Answered, SaveInv, Ended
<1> QED BY <1>1, <1>2 DEF CallSays, SaveSays

(* The window is told the outcome of a save and goes on from there. *)
LEMMA SavedKeeps ==
  ASSUME SaveInv, CallInv, Watch, UNCHANGED file, Saved PROVE SaveInv'
<1>1. Keyed(copy')
  BY SavedSays DEF Saved, SaveInv, Good
<1>2. UNCHANGED <<file, got, pairJob>>
  BY DEF Saved, form, buffers, jobs, pairJob
<1>3. RestFits'
  BY <1>1, <1>2 DEF SaveInv, RestFits, Good, Keyed, Valid, pairJob
<1>4. \/ Ask(Main, [op |-> "TestSound"]) /\ doing' = "sounding"
      \/ Done(Main)
  BY DEF Saved
<1> QED BY <1>3, <1>4, MainAsks, MainDone

(* The outcome of a pairing goes into the working copy. *)
LEMMA PollKeeps ==
  ASSUME SaveInv, CallInv, Watch, UNCHANGED file, PollPairing PROVE SaveInv'
<1> DEFINE c == ApplyLearned(copy, outcome)
<1>1. job' = "none" /\ UNCHANGED got
  BY DEF PollPairing, form, buffers
<1>2. CASE outcome.kind = "Learned"
  <2> DEFINE full == Collected(c, c.keys, TRUE)
  <2>1. copy' = c /\ Save(full, "pairing")
    BY <1>2 DEF PollPairing
  <2>2. Keyed(c) /\ c.keys = {Press.key}
    <3>1. Keyed(copy) /\ outcome.key = Press.key
      BY <1>2 DEF PollPairing, SaveInv
    <3>2. Good(c) /\ c.keys = {outcome.key}
      BY <3>1, ConfigChanges
    <3> HIDE DEF c
    <3> QED BY <3>1, <3>2 DEF Good
  <2>3. Keyed(full) /\ full.keys = {Press.key}
    <3> HIDE DEF c
    <3>1. \A keys : /\ Keyed(Collected(c, keys, TRUE))
                    /\ Collected(c, keys, TRUE).keys = keys
      BY <2>2 DEF Keyed, Collected
    <3> QED BY <2>2, <3>1
  <2> HIDE DEF c, full
  <2>4. RestFits'
    BY <1>1, <2>1, <2>2 DEF SaveInv, RestFits, Good, Keyed, Valid
  <2> QED BY <2>1, <2>3, <2>4, SaveKeeps
<1>3. CASE outcome.kind # "Learned"
  <2>1. UNCHANGED <<copy, call, doing>>
    BY <1>3 DEF PollPairing, client, form
  <2>2. RestFits'
    BY <1>1, <2>1 DEF SaveInv, RestFits, Good, Keyed, Valid
  <2> QED BY <2>1, <2>2, QuietKeeps
<1> QED BY <1>2, <1>3

(* What the window does. *)
LEMMA WindowWorksKeeps ==
  ASSUME SaveInv, CallInv, Watch, UNCHANGED file, WindowWorks PROVE SaveInv'
<1>1. CASE Opens
  BY <1>1, ReconnectKeeps DEF Opens
<1>2. CASE Probed \/ PollAuthorizing
  <2>1. RestFits'
    BY <1>2, RestKept DEF Probed, PollAuthorizing, form, buffers, jobs, pairJob
  <2> QED BY <1>2, <2>1, QuietKeeps DEF Probed, PollAuthorizing, client
<1>3. CASE GotConfig \/ GotDevices \/ GotState
  BY <1>3, LoadKeeps
<1>4. CASE Refreshed \/ Sounded
  <2>1. RestFits'
    BY <1>4, RestKept DEF Refreshed, Sounded, form, buffers, jobs, pairJob
  <2> QED BY <1>4, <2>1, MainDone DEF Refreshed, Sounded
<1>5. CASE Saved
  BY <1>5, SavedKeeps
<1>6. CASE JobAsks \/ JobEnds
  BY <1>6, JobKeeps
<1>7. CASE PollPairing
  BY <1>7, PollKeeps
<1> QED BY <1>1, <1>2, <1>3, <1>4, <1>5, <1>6, <1>7 DEF WindowWorks

(* What alertu-ctl sends are configurations too.                            *)
LEMMA CtlKeeps ==
  ASSUME SaveInv, CallInv, CtlStarts \/ CtlWorks PROVE SaveInv'
<1>1. /\ Ctl \in Client \ {Main, Pairer} /\ Good(CtlFile)
      /\ UNCHANGED <<window, file>> /\ Watch
  BY ClientsAssumption DEF Ctl, Main, Pairer, Good, Keyed, CtlStarts, CtlWorks
<1>2. Good(file')
  BY <1>1 DEF SaveInv
<1>3. ASSUME NEW req, Ask(Ctl, req) \/ ConnectAndAsk(Ctl, req),
             req.op = "SetConfig" => Good(req.cfg)
      PROVE  SaveInv'
  <2>1. Begins(Ctl, req) /\ \A d \in Client \ {Ctl} : call'[d] = call[d]
    BY <1>1, <1>3, BeginningOf
  <2>2. \A c \in Client : Continues(c) \/ (c \notin {Main, Pairer} /\ BeginsWell(c))
    BY <1>1, <1>3, <2>1 DEF Continues, BeginsWell
  <2> QED BY <1>1, <1>2, <2>2, OthersKeep
<1>4. CASE CtlStarts
  <2>1. PICK cmd \in DOMAIN Opening1 : ConnectAndAsk(Ctl, FirstRequest(cmd))
    BY <1>4 DEF CtlStarts, CtlRun
  <2>2. FirstRequest(cmd).op = "SetConfig" => Good(FirstRequest(cmd).cfg)
    BY <1>1, <2>1 DEF FirstRequest, Opening1
  <2> QED BY <1>3, <2>1, <2>2
<1>5. CASE CtlLearned
  BY <1>3, <1>5 DEF CtlLearned
<1>6. CASE CtlGotConfig
  <2>1. Answered(Ctl) /\ call[Ctl].answer.kind = "Config"
    BY <1>6 DEF CtlGotConfig, Returns
  <2>2. Good(call[Ctl].answer.cfg)
    BY <1>1, <2>1 DEF Answered, SaveInv, CallSays, Ended
  <2> DEFINE c == ApplyLearned(call[Ctl].answer.cfg, pressed)
  <2>3. Good(c)
    BY <2>2, ConfigChanges DEF Good
  <2>4. Ask(Ctl, [op |-> "SetConfig", cfg |-> c])
    BY <1>6 DEF CtlGotConfig
  <2> HIDE DEF c
  <2> QED BY <1>3, <2>3, <2>4
<1>7. CASE CtlExits
  <2>1. call'[Ctl] = None /\ \A d \in Client \ {Ctl} : call'[d] = call[d]
    BY <1>1, <1>7, EndOf DEF CtlExits
  <2> QED BY <1>1, <1>2, <2>1, OthersKeep DEF Continues
<1> QED BY <1>4, <1>5, <1>6, <1>7 DEF CtlWorks

(* What the daemon puts in force is what it was sent.                       *)
LEMMA DaemonKeeps ==
  ASSUME SaveInv, CallInv, NEW c \in Client, DaemonServes(c) PROVE SaveInv'
<1>1. UNCHANGED window /\ Watch
  BY DEF DaemonServes
<1>2. Good(file')
  <2>1. CASE UNCHANGED file
    BY <2>1 DEF SaveInv
  <2>2. CASE ServeSetConfig(c)
    BY <2>2 DEF ServeSetConfig, Serves, Asked, SaveInv, CallSays
  <2> QED BY <2>1, <2>2 DEF DaemonServes, ServeRead, ServeLearn, ServeCommand, Replies
<1> QED BY <1>1, <1>2, DaemonContinues, OthersKeep

(* Every step keeps the invariant.                                          *)
LEMMA SaveInductive == SaveInv /\ CallInv /\ [Next]_vars => SaveInv'
<1> SUFFICES ASSUME SaveInv, CallInv, [Next]_vars PROVE SaveInv'
  OBVIOUS
<1>1. CASE UNCHANGED vars
  BY <1>1 DEF vars, client, window, form, buffers, jobs, SaveInv, Good, Keyed, Valid,
     CallSays, SaveSays, LearnSays
<1>2. CASE DaemonStarts \/ DaemonStops \/ RuntimeCleared
  <2>1. UNCHANGED <<call, window, file>> /\ Watch
    BY <1>2 DEF DaemonStarts, DaemonStops, RuntimeCleared, client
  <2>2. Good(file') /\ \A c \in Client : Continues(c)
    BY <2>1 DEF SaveInv, Continues
  <2> QED BY <2>1, <2>2, OthersKeep
<1>3. CASE DaemonGoes \/ \E c \in Client : Retries(c)
  <2>1. UNCHANGED <<window, file>> /\ Watch
    BY <1>3 DEF DaemonGoes, Retries
  <2>2. \A c \in Client : Continues(c)
    BY <1>3, ConnectionContinues DEF DaemonGoes, Retries
  <2>3. Good(file')
    BY <2>1 DEF SaveInv
  <2> QED BY <2>1, <2>2, <2>3, OthersKeep
<1>4. CASE \E c \in Client : DaemonServes(c)
  BY <1>4, DaemonKeeps
<1>5. CASE WindowSteps
  BY <1>5, WindowWorksKeeps DEF WindowSteps
<1>6. CASE UserSteps
  BY <1>6, UserKeeps DEF UserSteps
<1>7. CASE CtlStarts \/ CtlWorks
  BY <1>7, CtlKeeps
<1> QED BY <1>1, <1>2, <1>3, <1>4, <1>5, <1>6, <1>7 DEF Next

(* It holds at first: the window has the defaults, nobody has a call.       *)
LEMMA SaveStarts == Init => SaveInv
<1> SUFFICES ASSUME Init PROVE SaveInv
  OBVIOUS
<1>1. Good(FirstFile) /\ Good(Defaults)
  BY ClientsAssumption DEF Good, Keyed
<1>2. call[Main] = None /\ call[Pairer] = None /\ \A c \in Client : call[c] = None
  BY ClientsAssumption DEF Init, ClientInit
<1> QED BY <1>1, <1>2 DEF Init, WindowInit, SaveInv, Good

(* When the window says that it saved, its working copy was in force during *)
(* the save, however often it was sent and whoever wrote beside it; and     *)
(* what it calls paired has the key that was pressed.                       *)
THEOREM SavesAreTrue == Spec => SavedIsTrue
<1>2. SaveInv /\ [Next]_vars => [SaysSaved => copy' \in since /\ PairedAsPressed]_vars
  <2> SUFFICES ASSUME SaveInv, [Next]_vars, SaysSaved, vars' # vars
               PROVE  copy' \in since /\ PairedAsPressed
    OBVIOUS
  <2>1. Saved /\ Returns(Main, "Ok") /\ copy' = call[Main].req.cfg
    <3>1. Saved
      BY DEF SaysSaved, Next, DaemonStarts, DaemonStops, DaemonGoes, RuntimeCleared,
         DaemonServes, Retries, WindowSteps, UserSteps, CtlStarts, CtlWorks, window,
         WindowWorks, UserActs, Opens, Probed, GotConfig, GotDevices, GotState, Refreshed,
         Sounded, JobAsks, JobEnds, PollPairing, PollAuthorizing, Idle, Picks, Edit,
         PickReload, PickRefresh, PickSave, PickPair, PickAuthorize
    <3> QED BY <3>1 DEF Saved, SaysSaved
  <2> QED BY <2>1, SavedSays DEF SaysSaved, PairedAsPressed
<1> QED BY <1>2, SaveStarts, SaveInductive, CallInductive, PTL DEF Spec, SavedIsTrue

-----------------------------------------------------------------------------
(* Types.                                                                   *)

(* None is no record: neither a call nor an answer.                         *)
NoneIsNoRecord ==
  /\ \A q, t, n, a, f : None # [req |-> q, try |-> t, acts |-> n, answer |-> a, fate |-> f]
  /\ \A k : None # [kind |-> k]
  /\ \A k, c : None # [kind |-> k, cfg |-> c]
  /\ Press # None

Conn == {"none", "open", "broken"}

(* A call over a connection that is o.  Each attempt is carried out at most *)
(* once.                                                                    *)
CallTyped(k, o) ==
  /\ k.try \in 1..2 /\ k.acts \in 0..k.try /\ (k.fate = "asked" => k.acts < k.try)
  /\ k.fate \in {"asked", "acted", "answered", "lost"}
  /\ k.fate \in {"asked", "acted"} => o = "open"
  /\ (k.answer = None) = (k.fate \in {"asked", "lost"})

CallSound ==
  /\ conn \in [Client -> Conn]
  /\ \A c \in Client : call[c] # None => CallTyped(call[c], conn[c])

(* The same calls go on. *)
Persist == \A c \in Client : (call'[c] # None) = (call[c] # None)

(* A call is no None. *)
LEMMA CallIsThere ==
  ASSUME NoneIsNoRecord, NEW k, CallFits(k) PROVE k # None
<1>1. k = [req |-> k.req, try |-> k.try, acts |-> k.acts, answer |-> k.answer,
           fate |-> k.fate]
  BY DEF CallFits
<1> QED BY <1>1 DEF NoneIsNoRecord

(* One call and its connection change. *)
LEMMA OneCall ==
  ASSUME CallInv, CallSound, NEW c \in Client, NEW k, NEW o \in Conn,
         call' = [call EXCEPT ![c] = k], conn' = [conn EXCEPT ![c] = o],
         k = None \/ CallTyped(k, o)
  PROVE  CallSound' /\ call'[c] = k /\ \A d \in Client \ {c} : call'[d] = call[d]
<1>1. /\ call'[c] = k /\ \A d \in Client \ {c} : call'[d] = call[d]
      /\ conn'[c] = o /\ \A d \in Client \ {c} : conn'[d] = conn[d]
      /\ conn' \in [Client -> Conn]
  BY DEF CallInv, CallSound
<1>2. ASSUME NEW d \in Client, call'[d] # None PROVE CallTyped(call'[d], conn'[d])
  <2>1. CASE d = c
    BY <1>1, <1>2, <2>1
  <2>2. CASE d # c
    BY <1>1, <1>2, <2>2 DEF CallSound
  <2> QED BY <2>1, <2>2
<1> QED BY <1>1, <1>2 DEF CallSound, CallTyped

(* A call begins. *)
LEMMA AskTyped ==
  ASSUME NoneIsNoRecord, CallInv, CallSound, NEW c \in Client, NEW req,
         Ask(c, req) \/ ConnectAndAsk(c, req)
  PROVE  CallSound' /\ call'[c] # None /\ \A d \in Client \ {c} : call'[d] = call[d]
<1>1. conn[c] \in Conn /\ conn \in [Client -> Conn]
  BY DEF CallSound
<1> DEFINE f == IF conn[c] = "open" THEN "asked" ELSE "lost"
           k(g) == [req |-> req, try |-> 1, acts |-> 0, answer |-> None, fate |-> g]
<1>2. /\ CallTyped(k(f), conn[c])
      /\ CallTyped(k("asked"), "open")
  BY DEF CallTyped
<1>3. k(f) # None /\ k("asked") # None
  BY DEF NoneIsNoRecord
<1>4. Attempt(req, c) = k(f) /\ [Attempt(req, c) EXCEPT !.fate = "asked"] = k("asked")
  BY DEF Attempt
<1> HIDE DEF k
<1>5. CASE Ask(c, req)
  <2>1. call' = [call EXCEPT ![c] = k(f)] /\ conn' = [conn EXCEPT ![c] = conn[c]]
    BY <1>1, <1>4, <1>5 DEF Ask
  <2> QED BY <1>1, <1>2, <1>3, <2>1, OneCall
<1>6. CASE ConnectAndAsk(c, req)
  <2>1. call' = [call EXCEPT ![c] = k("asked")] /\ conn' = [conn EXCEPT ![c] = "open"]
    BY <1>4, <1>6 DEF ConnectAndAsk
  <2> QED BY <1>2, <1>3, <2>1, OneCall DEF Conn
<1> QED BY <1>5, <1>6

(* A call is over. *)
LEMMA EndTyped ==
  ASSUME CallInv, CallSound, NEW c \in Client, Done(c) \/ Drop(c)
  PROVE  CallSound' /\ call'[c] = None /\ \A d \in Client \ {c} : call'[d] = call[d]
<1>1. call' = [call EXCEPT ![c] = None]
  BY DEF Done, Drop
<1>2. PICK o \in Conn : conn' = [conn EXCEPT ![c] = o]
  <2>1. conn[c] \in Conn /\ conn = [conn EXCEPT ![c] = conn[c]]
    BY DEF CallSound
  <2> QED BY <2>1 DEF Done, Drop, Conn
<1> QED BY <1>1, <1>2, OneCall

(* A call goes on: as call k, over a connection o. *)
LEMMA GoesOn ==
  ASSUME NoneIsNoRecord, CallInv, CallSound, NEW c \in Client, call[c] # None,
         NEW k, NEW o \in Conn, CallFits(k), CallTyped(k, o),
         call' = [call EXCEPT ![c] = k], conn' = [conn EXCEPT ![c] = o]
  PROVE  CallSound' /\ Persist
<1>1. CallSound' /\ call'[c] = k /\ \A d \in Client \ {c} : call'[d] = call[d]
  BY OneCall
<1>2. k # None
  BY CallIsThere
<1> QED BY <1>1, <1>2 DEF Persist

(* A second attempt, what the daemon does, its reply. *)
LEMMA StepGoesOn ==
  ASSUME NoneIsNoRecord, CallInv, CallSound, NEW c \in Client,
         \/ Retry(c) \/ Reply(c)
         \/ \E op, answer : /\ answer # None /\ Asked(c, op)
                            /\ Act(c, answer) \/ Tell(c, answer)
  PROVE  CallSound' /\ Persist
<1>1. call[c] # None /\ CallFits(call[c]) /\ CallTyped(call[c], conn[c])
  BY DEF Retry, Lost, Reply, Asked, CallInv, CallSound
<1>2. conn[c] \in Conn /\ conn = [conn EXCEPT ![c] = conn[c]]
  BY DEF CallSound
<1>3. CASE Retry(c)
  <2> DEFINE k == [call[c] EXCEPT !.try = 2, !.fate = "asked"]
  <2>1. /\ call' = [call EXCEPT ![c] = k] /\ conn' = [conn EXCEPT ![c] = "open"]
        /\ call[c].try = 1 /\ call[c].fate = "lost" /\ call[c].req.op \in ReplaySafe
    BY <1>3 DEF Retry, Lost, MayRetry, CallInv
  <2>2. CallFits(k)
    BY <1>1, <2>1 DEF CallFits
  <2>3. /\ k.try = 2 /\ k.fate = "asked" /\ k.acts = call[c].acts
        /\ k.answer = call[c].answer
    BY <1>1 DEF CallFits
  <2> HIDE DEF k
  <2>4. CallTyped(k, "open")
    BY <1>1, <2>1, <2>3 DEF CallTyped
  <2> QED BY <1>1, <2>1, <2>2, <2>4, GoesOn DEF Conn
<1>4. CASE Reply(c)
  <2> DEFINE k == [call[c] EXCEPT !.fate = "answered"]
  <2>1. call' = [call EXCEPT ![c] = k] /\ conn' = conn /\ call[c].fate = "acted"
    BY <1>4 DEF Reply, CallInv
  <2>2. CallFits(k)
    BY <1>1, <2>1 DEF CallFits
  <2>3. /\ k.try = call[c].try /\ k.fate = "answered" /\ k.acts = call[c].acts
        /\ k.answer = call[c].answer
    BY <1>1 DEF CallFits
  <2> HIDE DEF k
  <2>4. CallTyped(k, conn[c])
    BY <1>1, <2>1, <2>3 DEF CallTyped
  <2> QED BY <1>1, <1>2, <2>1, <2>2, <2>4, GoesOn
<1>5. ASSUME NEW op, NEW answer, answer # None, Asked(c, op),
             Act(c, answer) \/ Tell(c, answer)
      PROVE  CallSound' /\ Persist
  <2>1. PICK fate \in {"acted", "answered"} :
          call' = [call EXCEPT ![c].fate = fate, ![c].answer = answer, ![c].acts = @ + 1]
    BY <1>5 DEF Act, Tell
  <2> DEFINE n == call[c].acts + 1
             k == [call[c] EXCEPT !.fate = fate, !.answer = answer, !.acts = n]
  <2>2. /\ call' = [call EXCEPT ![c] = k] /\ conn' = conn
        /\ conn[c] = "open" /\ call[c].fate = "asked"
    BY <1>5, <2>1 DEF Act, Tell, Asked, CallInv
  <2>3. n \in Nat /\ n \in 0..call[c].try /\ (call[c].req.op \notin ReplaySafe => n <= 1)
    BY <1>1, <2>2 DEF CallTyped, CallFits
  <2> HIDE DEF n
  <2>4. /\ k \in [req : {call[c].req}, try : {call[c].try}, acts : {n}, answer : {answer},
                  fate : {fate}]
    BY <1>1 DEF CallFits
  <2>5. CallFits(k)
    BY <2>3, <2>4 DEF CallFits
  <2>6. k.try = call[c].try /\ k.fate = fate /\ k.acts = n /\ k.answer = answer
    BY <2>4
  <2> HIDE DEF k
  <2>7. CallTyped(k, conn[c])
    BY <1>1, <1>5, <2>2, <2>3, <2>6 DEF CallTyped
  <2> QED BY <1>1, <1>2, <2>2, <2>5, <2>7, GoesOn
<1> QED BY <1>3, <1>4, <1>5

(* The daemon goes: what it had not answered is lost. *)
LEMMA SeverTyped ==
  ASSUME NoneIsNoRecord, CallInv, CallSound, Sever PROVE CallSound' /\ Persist
<1>1. conn' \in [Client -> Conn]
  BY DEF Sever, CallSound, Conn
<1>2. ASSUME NEW c \in Client
      PROVE  /\ (call'[c] # None) = (call[c] # None)
             /\ call'[c] # None => CallTyped(call'[c], conn'[c])
  <2> DEFINE k == [call[c] EXCEPT !.fate = "lost", !.answer = None]
  <2>1. CASE call[c] # None /\ call[c].fate \in {"asked", "acted"}
    <3>1. CallFits(call[c]) /\ CallTyped(call[c], conn[c])
      BY <2>1 DEF CallInv, CallSound
    <3>2. call'[c] = k
      BY <2>1 DEF Sever
    <3>3. CallFits(k)
      BY <3>1 DEF CallFits
    <3>4. /\ k.try = call[c].try /\ k.fate = "lost" /\ k.acts = call[c].acts
          /\ k.answer = None
      BY <3>1 DEF CallFits
    <3> HIDE DEF k
    <3>5. CallTyped(k, conn'[c])
      BY <3>1, <3>4 DEF CallTyped
    <3>6. k # None
      BY <3>3, CallIsThere
    <3> QED BY <2>1, <3>2, <3>5, <3>6
  <2>2. CASE ~(call[c] # None /\ call[c].fate \in {"asked", "acted"})
    <3>1. call'[c] = call[c]
      BY <2>2 DEF Sever
    <3>2. CASE call[c] # None
      <4>1. CallTyped(call[c], conn[c]) /\ call[c].fate \notin {"asked", "acted"}
        BY <2>2, <3>2 DEF CallSound
      <4>2. CallTyped(call[c], conn'[c])
        BY <4>1 DEF CallTyped
      <4> QED BY <3>1, <3>2, <4>2
    <3> QED BY <3>1, <3>2
  <2> QED BY <2>1, <2>2
<1> QED BY <1>1, <1>2 DEF CallSound, Persist, CallTyped

-----------------------------------------------------------------------------
(* The window blocks in a call exactly where it says so, and its job too.   *)

(* What the window or its user does to connections and calls. *)
LEMMA WindowCalls ==
  ASSUME NoneIsNoRecord, CallInv, CallSound, WindowTypeOK, WindowWorks \/ UserActs
  PROVE  CallSound'
<1>1. Main \in Client /\ Pairer \in Client
  BY ClientsAssumption
<1>2. CASE UNCHANGED client
  BY <1>2 DEF client, CallSound, CallTyped
<1>3. CASE \/ \E req : Ask(Main, req) \/ ConnectAndAsk(Main, req) \/ ConnectAndAsk(Pairer, req)
           \/ Done(Main) \/ Drop(Pairer)
  BY <1>1, <1>3, AskTyped, EndTyped
<1>4. CASE ReconnectFails /\ doing \in {"opening", "idle"}
  <2>1. call[Main] = None
    BY <1>4 DEF WindowTypeOK
  <2>2. call' = [call EXCEPT ![Main] = None] /\ conn' = [conn EXCEPT ![Main] = "none"]
    BY <1>4, <2>1 DEF ReconnectFails, CallInv
  <2> QED BY <1>1, <2>2, OneCall DEF Conn
<1>5. CASE UserActs
  BY <1>2, <1>3, <1>4, <1>5
  DEF UserActs, PickReload, PickRefresh, Edit, PickSave, PickPair, PickAuthorize, Save,
      Picks, Idle, Reconnect, ReconnectWorks
<1>6. CASE Opens \/ Probed \/ GotConfig \/ GotDevices \/ GotState \/ Refreshed
  BY <1>2, <1>3, <1>4, <1>6
  DEF Opens, Probed, GotConfig, GotDevices, GotState, Refreshed, Reconnect, ReconnectWorks
<1>7. CASE Saved \/ Sounded \/ JobAsks \/ JobEnds
  BY <1>2, <1>3, <1>7 DEF Saved, Sounded, JobAsks, JobEnds
<1>8. CASE PollPairing \/ PollAuthorizing
  BY <1>2, <1>3, <1>8 DEF PollPairing, PollAuthorizing, Save
<1> QED BY <1>5, <1>6, <1>7, <1>8 DEF WindowWorks

(* Connections and calls, whoever steps. *)
LEMMA CallsTyped ==
  ASSUME NoneIsNoRecord, CallInv, CallSound, WindowTypeOK, [Next]_vars
  PROVE  CallSound'
<1>1. Ctl \in Client
  BY ClientsAssumption
<1>2. CASE UNCHANGED client
  BY <1>2 DEF client, CallSound, CallTyped
<1>3. CASE \E c \in Client : DaemonServes(c) \/ Retries(c)
  <2>1. PICK c \in Client : DaemonServes(c) \/ Retries(c)
    BY <1>3
  <2>2. Ok # None /\ Refusal # None /\ Press # None
        /\ [kind |-> "Devices"] # None /\ [kind |-> "State"] # None
        /\ [kind |-> "TimedOut"] # None /\ [kind |-> "Config", cfg |-> file] # None
    BY DEF NoneIsNoRecord, Ok, Refusal
  <2>3. \/ Retry(c) \/ Reply(c)
        \/ \E op, answer : /\ answer # None /\ Asked(c, op)
                           /\ Act(c, answer) \/ Tell(c, answer)
    BY <2>1, <2>2
    DEF DaemonServes, Retries, ServeRead, ServeLearn, ServeCommand, ServeSetConfig,
        Replies, Serves
  <2> QED BY <2>3, StepGoesOn
<1>4. CASE CtlStarts \/ CtlWorks
  <2>1. (\E req : Ask(Ctl, req) \/ ConnectAndAsk(Ctl, req)) \/ Drop(Ctl)
    BY <1>4 DEF CtlStarts, CtlRun, CtlWorks, CtlLearned, CtlGotConfig, CtlExits
  <2> QED BY <1>1, <2>1, AskTyped, EndTyped
<1>5. CASE WindowSteps \/ UserSteps
  BY <1>5, WindowCalls DEF WindowSteps, UserSteps
<1>6. CASE DaemonGoes
  BY <1>6, SeverTyped DEF DaemonGoes
<1> QED
  BY <1>2, <1>3, <1>4, <1>5, <1>6
  DEF Next, DaemonStarts, DaemonStops, RuntimeCleared, vars

(* Others leave the window alone, and its calls where they are. *)
LEMMA OthersTyped ==
  ASSUME WindowTypeOK, UNCHANGED window,
         \A c \in {Main, Pairer} : (call'[c] # None) = (call[c] # None)
  PROVE  WindowTypeOK'
BY DEF WindowTypeOK, window, jobs, form, buffers, budget

(* The window asks: it is blocked in a call then. *)
LEMMA AsksTyped ==
  ASSUME NoneIsNoRecord, CallInv, CallSound, WindowTypeOK, NEW req,
         Ask(Main, req) \/ ConnectAndAsk(Main, req),
         doing' \in {"GetConfig", "ListDevices", "GetState", "refreshing", "saving",
                     "testing", "sounding", "pairing"},
         UNCHANGED <<job, outcome>> \/ (job # "asking" /\ job' = "none" /\ outcome' = None),
         linked' \in BOOLEAN, authorizing' \in BOOLEAN, forbidden' \in BOOLEAN,
         filled' \in BOOLEAN, picks' \in 0..MaxPicks, edits' \in 0..MaxEdits
  PROVE  WindowTypeOK'
<1>1. Main \in Client /\ Pairer \in Client /\ Main # Pairer
  BY ClientsAssumption DEF Main, Pairer
<1>2. call'[Main] # None /\ call'[Pairer] = call[Pairer]
  BY <1>1, AskTyped
<1> QED BY <1>2 DEF WindowTypeOK

(* The window does something without a call, or its call is over.           *)
LEMMA IdlesTyped ==
  ASSUME CallInv, CallSound, WindowTypeOK,
         \/ Done(Main) /\ doing' \in {"opening", "idle", "probing"}
         \/ UNCHANGED <<call, doing>>
         \/ UNCHANGED call /\ call[Main] = None /\ doing' \in {"opening", "idle", "probing"},
         \/ UNCHANGED <<job, outcome>>
         \/ job # "asking" /\ job' \in {"none", "starting"} /\ outcome' = None,
         linked' \in BOOLEAN, authorizing' \in BOOLEAN, forbidden' \in BOOLEAN,
         filled' \in BOOLEAN, picks' \in 0..MaxPicks, edits' \in 0..MaxEdits
  PROVE  WindowTypeOK'
<1>1. Main \in Client /\ Pairer \in Client /\ Main # Pairer
  BY ClientsAssumption DEF Main, Pairer
<1>2. Done(Main) => call'[Main] = None /\ call'[Pairer] = call[Pairer]
  BY <1>1, EndTyped
<1> QED BY <1>2 DEF WindowTypeOK

(* reconnect *)
LEMMA ReconnectTyped ==
  ASSUME NoneIsNoRecord, CallInv, CallSound, WindowTypeOK, Reconnect,
         doing \in {"opening", "idle"}, picks' \in 0..MaxPicks, edits' \in 0..MaxEdits
  PROVE  WindowTypeOK'
<1>1. /\ call[Main] = None /\ UNCHANGED <<job, outcome, authorizing, forbidden, filled>>
      /\ linked \in BOOLEAN /\ authorizing \in BOOLEAN /\ forbidden \in BOOLEAN
      /\ filled \in BOOLEAN
  BY DEF WindowTypeOK, Reconnect, jobs, form, buffers
<1>2. CASE ReconnectWorks
  BY <1>1, <1>2, AsksTyped DEF ReconnectWorks
<1>3. CASE ReconnectFails
  BY <1>1, <1>3, IdlesTyped DEF ReconnectFails
<1> QED BY <1>2, <1>3 DEF Reconnect

(* save *)
LEMMA SaveTyped ==
  ASSUME NoneIsNoRecord, CallInv, CallSound, WindowTypeOK, NEW c,
         NEW why \in {"saving", "testing", "pairing"}, Save(c, why),
         \/ UNCHANGED <<job, outcome>>
         \/ job # "asking" /\ job' = "none" /\ outcome' = None,
         UNCHANGED <<linked, authorizing, forbidden>>, filled' \in BOOLEAN,
         picks' \in 0..MaxPicks, edits' \in 0..MaxEdits
  PROVE  WindowTypeOK'
<1>1. /\ linked' \in BOOLEAN /\ authorizing' \in BOOLEAN /\ forbidden' \in BOOLEAN
      /\ filled' \in BOOLEAN
  BY DEF WindowTypeOK
<1>2. CASE Ask(Main, [op |-> "SetConfig", cfg |-> c]) /\ doing' = why
  BY <1>1, <1>2, AsksTyped
<1>3. CASE UNCHANGED <<call, doing>>
  BY <1>1, <1>3, IdlesTyped
<1> QED BY <1>2, <1>3 DEF Save, client

(* The user picks or edits. *)
LEMMA UserTyped ==
  ASSUME NoneIsNoRecord, CallInv, CallSound, WindowTypeOK, UserActs
  PROVE  WindowTypeOK'
<1>1. picks' \in 0..MaxPicks /\ edits' \in 0..MaxEdits
  <2>1. \/ picks < MaxPicks /\ picks' = picks + 1 /\ edits' = edits
        \/ edits < MaxEdits /\ edits' = edits + 1 /\ picks' = picks
    BY DEF UserActs, PickReload, PickRefresh, Edit, PickSave, PickPair, PickAuthorize, Picks
  <2>2. picks \in 0..MaxPicks /\ edits \in 0..MaxEdits
    BY DEF WindowTypeOK
  <2> QED BY <2>1, <2>2, WindowAssumption
<1>2. /\ linked \in BOOLEAN /\ authorizing \in BOOLEAN /\ forbidden \in BOOLEAN
      /\ filled \in BOOLEAN /\ TRUE \in BOOLEAN
  BY DEF WindowTypeOK
<1>3. CASE PickReload
  BY <1>1, <1>3, ReconnectTyped DEF PickReload, Picks, Idle
<1>4. CASE PickRefresh
  BY <1>1, <1>2, <1>4, AsksTyped DEF PickRefresh, jobs, form, buffers
<1>5. CASE PickSave("saving") \/ PickSave("testing")
  BY <1>1, <1>2, <1>5, SaveTyped DEF PickSave, jobs, form, buffers
<1>6. CASE Edit
  BY <1>1, <1>2, <1>6, IdlesTyped DEF Edit, jobs, form, buffers, client
<1>7. CASE PickPair
  <2>1. outcome = None
    BY <1>7 DEF PickPair, WindowTypeOK
  <2> QED BY <1>1, <1>2, <1>7, <2>1, IdlesTyped DEF PickPair, form, buffers, client
<1>8. CASE PickAuthorize
  BY <1>1, <1>2, <1>8, IdlesTyped DEF PickAuthorize, form, buffers, client, pairJob
<1> QED BY <1>3, <1>4, <1>5, <1>6, <1>7, <1>8 DEF UserActs

(* The window's own steps. *)
LEMMA WorksTyped ==
  ASSUME NoneIsNoRecord, CallInv, CallSound, WindowTypeOK, WindowWorks
  PROVE  WindowTypeOK'
<1>1. UNCHANGED budget
  BY DEF WindowWorks, Opens, Probed, GotConfig, GotDevices, GotState, Refreshed, Saved,
         Sounded, JobAsks, JobEnds, PollPairing, PollAuthorizing
<1>2. picks' \in 0..MaxPicks /\ edits' \in 0..MaxEdits
  BY <1>1 DEF WindowTypeOK, budget
<1>3. /\ linked \in BOOLEAN /\ authorizing \in BOOLEAN /\ forbidden \in BOOLEAN
      /\ filled \in BOOLEAN /\ TRUE \in BOOLEAN /\ FALSE \in BOOLEAN
  BY DEF WindowTypeOK
<1>4. CASE Opens
  BY <1>2, <1>4, ReconnectTyped DEF Opens
<1>5. CASE Probed
  <2>1. /\ forbidden' \in BOOLEAN /\ doing' = "idle" /\ UNCHANGED <<call, job, outcome>>
        /\ call[Main] = None /\ UNCHANGED <<linked, authorizing, filled>>
    BY <1>5 DEF Probed, WindowTypeOK, client, jobs, form, buffers
  <2> QED BY <1>2, <1>3, <2>1, IdlesTyped
<1>6. CASE GotConfig \/ GotDevices
  <2>1. PICK req : Ask(Main, req)
    BY <1>6 DEF GotConfig, GotDevices
  <2>2. /\ doing' \in {"ListDevices", "GetState"}
        /\ UNCHANGED <<job, outcome, linked, authorizing, forbidden, filled>>
    BY <1>6 DEF GotConfig, GotDevices, jobs, form, buffers
  <2> QED BY <1>2, <1>3, <2>1, <2>2, AsksTyped
<1>7. CASE GotState \/ Refreshed \/ Sounded
  <2>1. /\ Done(Main) /\ doing' = "idle" /\ UNCHANGED <<job, outcome, authorizing>>
        /\ linked' \in BOOLEAN /\ forbidden' \in BOOLEAN /\ filled' \in BOOLEAN
    BY <1>3, <1>7 DEF GotState, Refreshed, Sounded, LoadBuffers, jobs, form, buffers
  <2> QED BY <1>2, <1>3, <2>1, IdlesTyped
<1>8. CASE Saved
  <2>1. UNCHANGED <<job, outcome, linked, authorizing, forbidden, filled>>
    BY <1>8 DEF Saved, jobs, form, buffers
  <2>2. CASE Done(Main) /\ doing' = "idle"
    BY <1>2, <1>3, <2>1, <2>2, IdlesTyped
  <2>3. CASE Ask(Main, [op |-> "TestSound"]) /\ doing' = "sounding"
    BY <1>2, <1>3, <2>1, <2>3, AsksTyped
  <2> QED BY <1>8, <2>2, <2>3 DEF Saved
<1>9. CASE JobAsks \/ JobEnds
  <2>1. Main \in Client /\ Pairer \in Client /\ Main # Pairer
    BY ClientsAssumption DEF Main, Pairer
  <2>2. UNCHANGED <<doing, linked, authorizing, forbidden, filled>>
    BY <1>9 DEF JobAsks, JobEnds, form, buffers
  <2>3. CASE ConnectAndAsk(Pairer, [op |-> "LearnRemote"]) /\ job' = "asking"
             /\ UNCHANGED outcome /\ job = "starting"
    <3>1. call'[Pairer] # None /\ call'[Main] = call[Main]
      BY <2>1, <2>3, AskTyped
    <3> QED BY <1>2, <2>2, <2>3, <3>1 DEF WindowTypeOK
  <2>4. [kind |-> "Failed"] # None
    BY DEF NoneIsNoRecord
  <2>5. CASE JobAsks /\ job' = "ended"
    <3>1. UNCHANGED call /\ outcome' # None /\ job = "starting"
      BY <1>9, <2>4, <2>5 DEF JobAsks, client
    <3> QED BY <1>2, <2>2, <2>5, <3>1 DEF WindowTypeOK
  <2>6. CASE JobEnds
    <3>1. call'[Pairer] = None /\ call'[Main] = call[Main] /\ job' = "ended"
      BY <2>1, <2>6, EndTyped DEF JobEnds
    <3>2. Answered(Pairer) => call[Pairer].answer # None
      BY <2>1 DEF Answered, CallSound, CallTyped
    <3>3. outcome' # None
      BY <2>4, <2>6, <3>2 DEF JobEnds
    <3> QED BY <1>2, <2>2, <3>1, <3>3 DEF WindowTypeOK
  <2> QED BY <1>9, <2>3, <2>5, <2>6 DEF JobAsks
<1>10. CASE PollPairing
  <2>1. /\ job # "asking" /\ job' = "none" /\ outcome' = None
        /\ UNCHANGED <<linked, authorizing, forbidden>> /\ filled' \in {TRUE, filled}
        /\ (\E c : Save(c, "pairing")) \/ UNCHANGED <<client, doing>>
    BY <1>10 DEF PollPairing, LoadBuffers, form, buffers
  <2>2. CASE \E c : Save(c, "pairing")
    BY <1>2, <1>3, <2>1, <2>2, SaveTyped
  <2>3. CASE UNCHANGED <<client, doing>>
    BY <1>2, <1>3, <2>1, <2>3, IdlesTyped DEF client
  <2> QED BY <2>1, <2>2, <2>3
<1>11. CASE PollAuthorizing
  <2>1. authorizing' = FALSE /\ UNCHANGED <<call, doing, job, outcome, linked, forbidden, filled>>
    BY <1>11 DEF PollAuthorizing, client, pairJob, form, buffers
  <2> QED BY <1>2, <1>3, <2>1, IdlesTyped
<1> QED BY <1>4, <1>5, <1>6, <1>7, <1>8, <1>9, <1>10, <1>11 DEF WindowWorks

(* The window, whoever steps. *)
LEMMA WindowTyped ==
  ASSUME NoneIsNoRecord, CallInv, CallSound, WindowTypeOK, [Next]_vars
  PROVE  WindowTypeOK'
<1>1. Main \in Client /\ Pairer \in Client /\ Ctl \in Client \ {Main, Pairer}
  BY ClientsAssumption DEF Main, Pairer, Ctl
<1>2. CASE UNCHANGED <<call, window>>
  BY <1>2, OthersTyped
<1>3. CASE Persist /\ UNCHANGED window
  BY <1>1, <1>3, OthersTyped DEF Persist
<1>4. CASE \E c \in Client : DaemonServes(c) \/ Retries(c)
  <2>1. PICK c \in Client : DaemonServes(c) \/ Retries(c)
    BY <1>4
  <2>2. Ok # None /\ Refusal # None /\ Press # None
        /\ [kind |-> "Devices"] # None /\ [kind |-> "State"] # None
        /\ [kind |-> "TimedOut"] # None /\ [kind |-> "Config", cfg |-> file] # None
    BY DEF NoneIsNoRecord, Ok, Refusal
  <2>3. \/ Retry(c) \/ Reply(c)
        \/ \E op, answer : /\ answer # None /\ Asked(c, op)
                           /\ Act(c, answer) \/ Tell(c, answer)
    BY <2>1, <2>2
    DEF DaemonServes, Retries, ServeRead, ServeLearn, ServeCommand, ServeSetConfig,
        Replies, Serves
  <2> QED BY <1>3, <2>1, <2>3, StepGoesOn DEF DaemonServes, Retries
<1>5. CASE CtlStarts \/ CtlWorks
  <2>1. (\E req : Ask(Ctl, req) \/ ConnectAndAsk(Ctl, req)) \/ Drop(Ctl)
    BY <1>5 DEF CtlStarts, CtlRun, CtlWorks, CtlLearned, CtlGotConfig, CtlExits
  <2>2. call'[Main] = call[Main] /\ call'[Pairer] = call[Pairer]
    BY <1>1, <2>1, AskTyped, EndTyped
  <2> QED BY <1>5, <2>2, OthersTyped DEF CtlStarts, CtlWorks
<1>6. CASE DaemonGoes
  BY <1>3, <1>6, SeverTyped DEF DaemonGoes
<1> QED
  BY <1>2, <1>4, <1>5, <1>6, UserTyped, WorksTyped
  DEF Next, DaemonStarts, DaemonStops, RuntimeCleared, WindowSteps, UserSteps, client, vars

(* Socket and directory, calls and connections, window and job fit their    *)
(* types: the window is blocked exactly while a call of its is under way.   *)
THEOREM TypeCorrect == ASSUME NoneIsNoRecord PROVE Spec => []TypeOK
<1>1. Init => CallSound /\ WindowTypeOK
  <2> SUFFICES ASSUME Init PROVE CallSound /\ WindowTypeOK
    OBVIOUS
  <2>1. \A c \in Client : call[c] = None /\ conn[c] = "none"
    BY DEF Init, ClientInit
  <2>2. CallSound
    BY <2>1 DEF Init, ClientInit, CallSound, Conn
  <2>3. call[Main] = None /\ call[Pairer] = None
    BY <2>1, ClientsAssumption
  <2>4. /\ linked = FALSE /\ authorizing = FALSE /\ forbidden = FALSE /\ filled = FALSE
        /\ doing = "opening" /\ job = "none" /\ outcome = None /\ picks = 0 /\ edits = 0
    BY DEF Init, WindowInit
  <2>5. /\ linked \in BOOLEAN /\ authorizing \in BOOLEAN /\ forbidden \in BOOLEAN
        /\ filled \in BOOLEAN
    BY <2>4
  <2>6. picks \in 0..MaxPicks /\ edits \in 0..MaxEdits
    BY <2>4, WindowAssumption
  <2>7. /\ (call[Main] # None) = (doing \notin {"opening", "idle", "probing"})
        /\ (call[Pairer] # None) = (job = "asking")
        /\ (outcome # None) = (job = "ended")
    BY <2>3, <2>4
  <2> QED BY <2>2, <2>4, <2>5, <2>6, <2>7 DEF WindowTypeOK
<1>3. CallInv /\ CallSound /\ WindowTypeOK /\ [Next]_vars => (CallSound /\ WindowTypeOK)'
  BY CallsTyped, WindowTyped
<1>4. AccessInv /\ CallSound /\ WindowTypeOK /\ SaveInv => TypeOK
  BY DEF AccessInv, CallSound, CallTyped, Conn, ClientTypeOK, SaveInv, Good, TypeOK
<1> QED BY <1>1, <1>3, <1>4, AccessInductive, CallInductive, SaveStarts, SaveInductive,
           PTL DEF Spec
=============================================================================
