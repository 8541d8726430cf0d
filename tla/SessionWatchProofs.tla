------------------------- MODULE SessionWatchProofs -------------------------
(***************************************************************************)
(* What SessionWatch guarantees for every set of sessions, whatever locks  *)
(* and unlocks them, and however small the channel to the machine.         *)
(***************************************************************************)
EXTENDS SessionWatch, SequenceTheorems, TLAPS

USE WatchAssumption

-----------------------------------------------------------------------------
(* What each place of the watcher implies, disturbed or not: only a live    *)
(* subscription holds signals, all of a session that did change, and only a *)
(* poll remembers or compares values.                                       *)
Shape ==
  /\ signals # <<>> => pc = "subscribed" /\ watched \in changed
  /\ pc \in {"subscribed", "asking", "comparing"} => watched \in Sessions
  /\ pc \in {"subscribing", "subscribed"} => last = None
  /\ pc = "comparing" => answer \in BOOLEAN
  /\ pc # "comparing" => answer = None

Polling == pc \in {"sleeping", "asking", "comparing"}

(* A daemon not pointed elsewhere watches its session, and has seen no      *)
(* other value of a session that never changed.                             *)
Faithful ==
  "moved" \notin upset =>
    /\ last # None => id \in Sessions
    /\ pc = "subscribing" => watched \in {None, id}
    /\ pc \in {"subscribed", "asking", "comparing"} => watched = id
    /\ Polling /\ id \in Sessions \ changed
         => last \in {None, hint[id]} /\ answer \in {None, hint[id]}

(* The last report, the signals not yet reported and the hint alternate.    *)
Alternates ==
  /\ signals = <<>> => told \in {None, hint[watched]}
  /\ signals # <<>> => signals[1] # told /\ signals[Len(signals)] = hint[watched]
  /\ \A i \in 1..(Len(signals) - 1) : signals[i] # signals[i + 1]

(* Undisturbed, reports go no further than what was seen. *)
Steady ==
  upset = {} =>
    /\ pc = "subscribing" => told = None
    /\ pc = "subscribed" => bus /\ Alternates
    /\ Polling => told \in {None, last}

WatchInv == TypeOK /\ Shape /\ Faithful /\ Steady

-----------------------------------------------------------------------------
(* A sequence of length 0 is empty.                                         *)
LEMMA Empty == ASSUME NEW q \in Seq(BOOLEAN) PROVE q = <<>> <=> Len(q) = 0
OBVIOUS

(* A change of the hint that the subscription hears of continues the        *)
(* alternation.                                                             *)
LEMMA AlternatesMore ==
  ASSUME TypeOK, Alternates, watched \in Sessions,
         hint' = [hint EXCEPT ![watched] = ~@],
         signals' = Append(signals, hint'[watched]),
         UNCHANGED <<watched, told>>
  PROVE  Alternates'
<1> DEFINE n == Len(signals)
<1>1. /\ signals \in Seq(BOOLEAN) /\ n \in Nat /\ hint'[watched] = ~hint[watched]
      /\ hint[watched] \in BOOLEAN /\ hint'[watched] \in BOOLEAN
  BY DEF TypeOK
<1>2. hint'[watched] # hint[watched]
  BY <1>1
<1>3. /\ Len(signals') = n + 1 /\ signals' # <<>> /\ signals'[n + 1] = hint'[watched]
      /\ \A i \in 1..n : signals'[i] = signals[i]
      /\ signals = <<>> <=> n = 0
  BY <1>1
<1>4. signals'[1] # told
  <2>1. CASE n = 0
    <3>1. told \in {None, hint[watched]} /\ signals'[1] = hint'[watched]
      BY <1>3, <2>1 DEF Alternates
    <3>2. hint'[watched] # None
      BY <1>1
    <3> QED BY <1>2, <3>1, <3>2
  <2>2. CASE n # 0
    BY <1>1, <1>3, <2>2 DEF Alternates
  <2> QED BY <2>1, <2>2
<1>5. ASSUME NEW i \in 1..n PROVE signals'[i] # signals'[i + 1]
  <2>1. CASE i = n
    BY <1>1, <1>2, <1>3, <2>1 DEF Alternates
  <2>2. CASE i # n
    <3>1. i \in 1..(n - 1) /\ i + 1 \in 1..n
      BY <1>1, <2>2
    <3> QED BY <1>3, <3>1 DEF Alternates
  <2> QED BY <2>1, <2>2
<1> QED BY <1>3, <1>4, <1>5 DEF Alternates

(* Forwarding the oldest signal keeps the alternation, and never repeats    *)
(* what was told.                                                           *)
LEMMA AlternatesLess ==
  ASSUME TypeOK, Alternates, signals # <<>>, signals' = Tail(signals),
         told' = Head(signals), UNCHANGED <<watched, hint>>
  PROVE  Alternates' /\ told' # told
<1> DEFINE n == Len(signals)
<1>1. /\ signals \in Seq(BOOLEAN) /\ n \in Nat \ {0} /\ Head(signals) = signals[1]
      /\ Len(signals') = n - 1 /\ \A i \in 1..(n - 1) : signals'[i] = signals[i + 1]
      /\ signals' = <<>> <=> n = 1
  <2>1. signals \in Seq(BOOLEAN) /\ n \in Nat \ {0}
    BY DEF TypeOK
  <2>2. /\ Tail(signals) \in Seq(BOOLEAN) /\ Len(Tail(signals)) = n - 1
        /\ \A i \in 1..(n - 1) : Tail(signals)[i] = signals[i + 1]
        /\ Head(signals) = signals[1]
    BY <2>1
  <2>3. Tail(signals) = <<>> <=> Len(Tail(signals)) = 0
    BY <2>2, Empty
  <2> QED BY <2>1, <2>2, <2>3
<1>2. told' # told
  BY <1>1 DEF Alternates
<1>3. signals' = <<>> => told' = hint[watched]
  BY <1>1 DEF Alternates
<1>4. signals' # <<>> => signals'[1] # told' /\ signals'[Len(signals')] = hint[watched]
  <2> SUFFICES ASSUME signals' # <<>>
               PROVE  signals'[1] # told' /\ signals'[Len(signals')] = hint[watched]
    OBVIOUS
  <2>1. 1 \in 1..(n - 1) /\ n - 1 \in 1..(n - 1)
    BY <1>1
  <2> QED BY <1>1, <2>1 DEF Alternates
<1>5. ASSUME NEW i \in 1..(Len(signals') - 1) PROVE signals'[i] # signals'[i + 1]
  <2>1. i \in 1..(n - 1) /\ i + 1 \in 1..(n - 1)
    BY <1>1
  <2> QED BY <1>1, <2>1 DEF Alternates
<1> QED BY <1>2, <1>3, <1>4, <1>5 DEF Alternates

-----------------------------------------------------------------------------
(* The watch begins with nothing told.                                      *)
LEMMA Initially == Init => WatchInv
BY DEF Init, WatchInv, TypeOK, Value, Shape, Faithful, Steady, Polling

(* Someone locks or unlocks a session.                                      *)
LEMMA ChangeHintStep ==
  ASSUME WatchInv, NEW s \in Sessions, ChangeHint(s) PROVE WatchInv'
<1>1. /\ hint' \in [Sessions -> BOOLEAN] /\ hint'[s] = ~hint[s] /\ changed' = changed \cup {s}
      /\ \A r \in Sessions : r # s => hint'[r] = hint[r]
      /\ UNCHANGED <<id, bus, pc, watched, last, answer, lockQ, machine, told, upset>>
  BY DEF ChangeHint, WatchInv, TypeOK
<1> DEFINE heard == pc = "subscribed" /\ bus /\ watched = s
<1>2. signals' = IF heard THEN Append(signals, hint'[s]) ELSE signals
  BY DEF ChangeHint
<1>3. TypeOK'
  <2>1. hint'[s] \in BOOLEAN /\ signals \in Seq(BOOLEAN)
    BY <1>1 DEF WatchInv, TypeOK
  <2>2. Append(signals, hint'[s]) \in Seq(BOOLEAN)
    BY <2>1
  <2>3. signals' \in Seq(BOOLEAN)
    BY <1>2, <2>1, <2>2
  <2> QED BY <1>1, <2>3 DEF WatchInv, TypeOK, Value
<1>4. Shape'
  BY <1>1, <1>2 DEF WatchInv, Shape
<1>5. Faithful'
  BY <1>1 DEF WatchInv, TypeOK, Faithful, Polling
<1>6. Steady'
  <2> SUFFICES ASSUME upset = {}, pc = "subscribed" PROVE Alternates'
    BY <1>1 DEF WatchInv, Steady, Polling
  <2>1. bus /\ Alternates /\ watched \in Sessions
    BY DEF WatchInv, Steady, Shape
  <2>2. CASE watched = s
    BY <1>1, <1>2, <2>1, <2>2, AlternatesMore DEF ChangeHint, WatchInv
  <2>3. CASE watched # s
    BY <1>1, <1>2, <2>1, <2>3 DEF Alternates
  <2> QED BY <2>2, <2>3
<1> QED BY <1>3, <1>4, <1>5, <1>6 DEF WatchInv

(* The bus goes, the daemon is pointed elsewhere, the machine reads or ends.*)
LEMMA EnvironmentStep ==
  ASSUME WatchInv,
         \/ BusDies \/ MachineReads \/ MachineEnds
         \/ \E s \in Sessions \cup {None} : UpdateFrom(s)
  PROVE  WatchInv'
<1> USE DEF WatchInv, TypeOK, Shape, Faithful, Steady, Polling, Alternates,
            watcher, world, history
<1>1. CASE BusDies
  BY <1>1 DEF BusDies
<1>2. CASE MachineReads
  <2>1. lockQ' \in Seq(BOOLEAN) /\ Len(lockQ') <= QueueCap
    BY <1>2 DEF MachineReads
  <2> QED BY <1>2, <2>1 DEF MachineReads
<1>3. CASE MachineEnds
  <2>1. lockQ' \in Seq(BOOLEAN) /\ Len(lockQ') <= QueueCap
    BY <1>3 DEF MachineEnds
  <2> QED BY <1>3, <2>1 DEF MachineEnds
<1>4. ASSUME NEW s \in Sessions \cup {None}, UpdateFrom(s) PROVE WatchInv'
  BY <1>4 DEF UpdateFrom
<1> QED BY <1>1, <1>2, <1>3, <1>4

(* What a report does to the channel. *)
LEMMA ReportType ==
  ASSUME TypeOK, NEW v \in BOOLEAN, Report(v)
  PROVE  lockQ' \in Seq(BOOLEAN) /\ Len(lockQ') <= QueueCap /\ told' = v /\ Value = Value'
         /\ told' \in Value
BY DEF TypeOK, Report, Value

(* The steps of the subscription.                                           *)
LEMMA SubscriptionStep ==
  ASSUME WatchInv,
         ReadId \/ Subscribe \/ CannotSubscribe \/ ForwardSignal \/ NobodyListens
           \/ Recheck \/ StreamEnds
  PROVE  WatchInv'
<1> USE DEF WatchInv, Shape, Faithful, Steady, Polling, world, history
<1>1. CASE ReadId
  BY <1>1 DEF ReadId, TypeOK, Alternates
<1>2. CASE Subscribe
  BY <1>2 DEF Subscribe, TypeOK, Alternates
<1>3. CASE CannotSubscribe
  BY <1>3 DEF CannotSubscribe, StartPolling, TypeOK, Value
<1>4. CASE ForwardSignal
  <2>1. Head(signals) \in BOOLEAN /\ Tail(signals) \in Seq(BOOLEAN)
    BY <1>4 DEF ForwardSignal, TypeOK
  <2>2. /\ pc = "subscribed" /\ signals # <<>> /\ signals' = Tail(signals)
        /\ told' = Head(signals)
        /\ UNCHANGED <<id, pc, watched, last, answer, hint, bus, machine, changed, upset>>
    BY <1>4 DEF ForwardSignal, Report
  <2>3. TypeOK'
    BY <1>4, <2>1, <2>2, ReportType DEF ForwardSignal, TypeOK
  <2>4. Steady'
    BY <2>2, AlternatesLess
  <2> QED BY <2>2, <2>3, <2>4
<1>5. CASE NobodyListens
  BY <1>5 DEF NobodyListens, TypeOK
<1>6. CASE Recheck
  BY <1>6 DEF Recheck, TypeOK
<1>7. CASE StreamEnds
  BY <1>7 DEF StreamEnds, StartPolling, TypeOK, Value
<1> QED BY <1>1, <1>2, <1>3, <1>4, <1>5, <1>6, <1>7

(* The steps of the poll.                                                   *)
LEMMA PollStep ==
  ASSUME WatchInv, Ask \/ Answered \/ Observe \/ ReportChange \/ StopPolling
  PROVE  WatchInv'
<1> USE DEF WatchInv, Shape, Faithful, Steady, Polling, world, history
<1>1. CASE Ask
  BY <1>1 DEF Ask, TypeOK
<1>2. CASE Answered
  BY <1>2 DEF Answered, TypeOK, Value
<1>3. CASE Observe
  BY <1>3 DEF Observe, TypeOK, Value
<1>4. CASE ReportChange
  <2>1. answer \in BOOLEAN /\ Report(answer)
    BY <1>4 DEF ReportChange
  <2>2. /\ pc = "comparing" /\ pc' = "sleeping" /\ last' = answer /\ answer' = None
        /\ told' = answer
        /\ UNCHANGED <<id, watched, signals, hint, bus, machine, changed, upset>>
    BY <1>4 DEF ReportChange, Report
  <2>3. TypeOK'
    BY <2>1, <2>2, ReportType DEF TypeOK, Value
  <2> QED BY <2>1, <2>2, <2>3
<1>5. CASE StopPolling
  BY <1>5 DEF StopPolling, TypeOK, Value
<1> QED BY <1>1, <1>2, <1>3, <1>4, <1>5

(* Every step keeps the invariant.                                          *)
LEMMA Inductive == WatchInv /\ [Next]_vars => WatchInv'
<1> SUFFICES ASSUME WatchInv, [Next]_vars PROVE WatchInv'
  OBVIOUS
<1>1. CASE UNCHANGED vars
  BY <1>1 DEF vars, watcher, world, history, WatchInv, TypeOK, Shape, Faithful, Steady,
              Polling, Alternates
<1> QED BY <1>1, ChangeHintStep, EnvironmentStep, SubscriptionStep, PollStep DEF Next, WatchStep

(* The watch keeps to its invariant, disturbed or not.                      *)
LEMMA Invariance == Spec => []WatchInv
BY Initially, Inductive, PTL DEF Spec

(* Every variable of the watch keeps its type, and the channel its bound.   *)
THEOREM TypeCorrect == Spec => []TypeOK
<1>1. WatchInv => TypeOK
  BY DEF WatchInv
<1> QED BY <1>1, Invariance, PTL

(* An undisturbed watch at rest has told the machine the present state of   *)
(* the session, or nothing: neither dbus_watch nor monitor loses the last   *)
(* of several changes.                                                      *)
THEOREM LastChangeTold == Spec => []InformedWhenSteady
<1>1. WatchInv => InformedWhenSteady
  BY DEF WatchInv, InformedWhenSteady, Informed, AtRest, Steady, Alternates, Polling, Faithful
<1> QED BY <1>1, Invariance, PTL

(* Only two steps report, and each reports a value other than the last.     *)
LEMMA ReportsOf ==
  ASSUME WatchInv, [Next]_vars, Reports
  PROVE  \/ ForwardSignal
         \/ ReportChange
<1>1. lockQ' # lockQ /\ Len(lockQ) \in Nat /\ lockQ \in Seq(BOOLEAN)
  BY DEF Reports, WatchInv, TypeOK
<1>2. ~MachineReads /\ ~MachineEnds
  <2>1. lockQ # <<>> => Len(Tail(lockQ)) = Len(lockQ) - 1
    BY <1>1
  <2> QED BY <1>1, <2>1 DEF MachineReads, MachineEnds, Reports
<1> QED BY <1>1, <1>2 DEF Next, WatchStep, vars, ReadId, Subscribe, CannotSubscribe,
     NobodyListens, Recheck, StreamEnds, Ask, Answered, Observe, StopPolling, BusDies,
     ChangeHint, UpdateFrom

(* An undisturbed watch never reports the same value twice in a row: the    *)
(* machine is not told of an unlock it has already answered.                *)
THEOREM NeverToldTwice == Spec => NoRepeats
<1>1. WatchInv /\ [Next]_vars => [Reports /\ upset = {} => told' # told]_vars
  <2> SUFFICES ASSUME WatchInv, [Next]_vars, Reports, upset = {} PROVE told' # told
    OBVIOUS
  <2>1. CASE ForwardSignal
    BY <2>1, AlternatesLess DEF ForwardSignal, Report, WatchInv, Steady, world
  <2>2. CASE ReportChange
    BY <2>2 DEF ReportChange, Report, WatchInv, Steady, Polling, Shape
  <2> QED BY <2>1, <2>2, ReportsOf
<1> QED BY <1>1, Invariance, PTL DEF Spec, NoRepeats

(* Without a move to another session every report is of a session that was  *)
(* locked or unlocked: an unlock nobody made never disarms the guard.       *)
THEOREM ReportsAreGenuine == Spec => GenuineWhenNotMoved
<1>1. WatchInv /\ [Next]_vars
        => [Reports /\ "moved" \notin upset => watched \in changed]_vars
  <2> SUFFICES ASSUME WatchInv, [Next]_vars, Reports, "moved" \notin upset
               PROVE  watched \in changed
    OBVIOUS
  <2>1. CASE ForwardSignal
    BY <2>1 DEF ForwardSignal, WatchInv, Shape
  <2>2. CASE ReportChange
    BY <2>2 DEF ReportChange, WatchInv, Faithful, Polling, Shape
  <2> QED BY <2>1, <2>2, ReportsOf
<1> QED BY <1>1, Invariance, PTL DEF Spec, GenuineWhenNotMoved

-----------------------------------------------------------------------------
(* The promise of module LockReports.                                       *)

(* What is appended to the second part is appended to the whole ...         *)
LEMMA LineGrows ==
  ASSUME NEW q \in Seq(BOOLEAN), NEW r \in Seq(BOOLEAN), NEW v \in BOOLEAN
  PROVE  q \o Append(r, v) = Append(q \o r, v)
<1> DEFINE left == q \o Append(r, v)
           right == Append(q \o r, v)
<1>1. left \in Seq(BOOLEAN) /\ right \in Seq(BOOLEAN) /\ Len(left) = Len(right)
  OBVIOUS
<1>2. \A i \in 1..Len(left) : left[i] = right[i]
  OBVIOUS
<1> QED BY <1>1, <1>2, SeqEqual

(* ... what is taken from the first part is taken from the whole ...        *)
LEMMA LineShrinks ==
  ASSUME NEW q \in Seq(BOOLEAN), NEW r \in Seq(BOOLEAN), q # <<>>
  PROVE  q \o r # <<>> /\ Tail(q) \o r = Tail(q \o r)
<1>1. /\ Len(q) \in Nat \ {0} /\ Tail(q) \in Seq(BOOLEAN) /\ Len(Tail(q)) = Len(q) - 1
      /\ \A i \in 1..(Len(q) - 1) : Tail(q)[i] = q[i + 1]
  BY EmptySeq, HeadTailProperties
<1>2. q \o r \in Seq(BOOLEAN) /\ Len(q \o r) = Len(q) + Len(r) /\ q \o r # <<>>
  BY <1>1, ConcatProperties, EmptySeq
<1>3. /\ Tail(q \o r) \in Seq(BOOLEAN) /\ Len(Tail(q \o r)) = Len(q) + Len(r) - 1
      /\ \A i \in 1..(Len(q) + Len(r) - 1) : Tail(q \o r)[i] = (q \o r)[i + 1]
  BY <1>2
<1>4. Tail(q) \o r \in Seq(BOOLEAN) /\ Len(Tail(q) \o r) = Len(q) + Len(r) - 1
  BY <1>1
<1>5. \A i \in 1..(Len(q) + Len(r) - 1) : (Tail(q) \o r)[i] = Tail(q \o r)[i]
  BY <1>1, <1>3
<1> QED BY <1>2, <1>3, <1>4, <1>5, SeqEqual

(* ... and the oldest of the second may become the last of the first.       *)
LEMMA LineMoves ==
  ASSUME NEW q \in Seq(BOOLEAN), NEW r \in Seq(BOOLEAN), r # <<>>
  PROVE  Append(q, Head(r)) \o Tail(r) = q \o r
<1> DEFINE left == Append(q, Head(r)) \o Tail(r)
           right == q \o r
<1>1. /\ Len(r) \in Nat \ {0} /\ Tail(r) \in Seq(BOOLEAN) /\ Len(Tail(r)) = Len(r) - 1
      /\ Head(r) = r[1] /\ Head(r) \in BOOLEAN
      /\ \A i \in 1..(Len(r) - 1) : Tail(r)[i] = r[i + 1]
  BY EmptySeq, HeadTailProperties
<1>2. /\ Append(q, Head(r)) \in Seq(BOOLEAN) /\ Len(Append(q, Head(r))) = Len(q) + 1
      /\ \A i \in 1..Len(q) : Append(q, Head(r))[i] = q[i]
      /\ Append(q, Head(r))[Len(q) + 1] = r[1]
  BY <1>1
<1>3. left \in Seq(BOOLEAN) /\ right \in Seq(BOOLEAN) /\ Len(left) = Len(right)
  BY <1>1, <1>2
<1>4. ASSUME NEW i \in 1..Len(left) PROVE left[i] = right[i]
  <2>1. CASE i \in 1..Len(q)
    BY <1>1, <1>2, <2>1
  <2>2. CASE i = Len(q) + 1
    BY <1>1, <1>2, <2>2
  <2>3. CASE i \in (Len(q) + 2)..(Len(q) + Len(r))
    BY <1>1, <1>2, <2>3
  <2> QED BY <1>1, <1>2, <2>1, <2>2, <2>3
<1> QED BY <1>3, <1>4, SeqEqual

(* Where a watch that was not moved looks, and what it may hold there.      *)
LEMMA Followed ==
  ASSUME WatchInv, "moved" \notin upset
  PROVE  /\ Locked \in BOOLEAN
         /\ id \in Sessions => Locked = hint[id]
         /\ pc \in {"subscribed", "asking", "comparing"} => watched = id /\ id \in Sessions
         /\ pc = "subscribed" => last = None
         /\ answer # None <=> pc = "comparing"
         /\ last # None => id \in Sessions
         /\ last \in Value /\ answer \in Value /\ None \notin BOOLEAN
         /\ signals # <<>> => pc = "subscribed"
BY DEF WatchInv, TypeOK, Shape, Faithful, Locked, Value

LEMMA DiffersType ==
  ASSUME NEW u \in Value, NEW v \in BOOLEAN PROVE Differs(u, v) \in Seq(BOOLEAN)
<1>1. <<v>> \in Seq(BOOLEAN) /\ <<>> \in Seq(BOOLEAN)
  OBVIOUS
<1>2. Differs(u, v) = <<>> \/ Differs(u, v) = <<v>>
  BY DEF Differs
<1> QED BY <1>1, <1>2

LEMMA LineType ==
  ASSUME WatchInv, "moved" \notin upset
  PROVE  lockQ \in Seq(BOOLEAN) /\ Unreported \in Seq(BOOLEAN) /\ Line \in Seq(BOOLEAN)
<1>1. lockQ \in Seq(BOOLEAN) /\ signals \in Seq(BOOLEAN)
  BY DEF WatchInv, TypeOK
<1>2. Differs(last, Locked) \in Seq(BOOLEAN)
  <2>1. last \in Value /\ Locked \in BOOLEAN
    BY Followed
  <2> QED BY ONLY <2>1, DiffersType
<1>3. answer # None => Differs(last, answer) \o Differs(answer, Locked) \in Seq(BOOLEAN)
  <2> SUFFICES ASSUME answer # None
               PROVE  Differs(last, answer) \o Differs(answer, Locked) \in Seq(BOOLEAN)
    OBVIOUS
  <2>1. answer \in BOOLEAN /\ answer \in Value /\ last \in Value /\ Locked \in BOOLEAN
    BY Followed DEF Value
  <2>2. Differs(last, answer) \in Seq(BOOLEAN)
    BY ONLY <2>1, DiffersType
  <2>3. Differs(answer, Locked) \in Seq(BOOLEAN)
    BY ONLY <2>1, DiffersType
  <2> QED BY <2>2, <2>3, ConcatProperties
<1>4. Unreported \in Seq(BOOLEAN)
  BY <1>1, <1>2, <1>3 DEF Unreported
<1> QED BY <1>1, <1>4, ConcatProperties, EmptySeq DEF Line

(* A poll remembers the last value it saw, of those reported and of those   *)
(* it is about to report; what it will find out next is the last of its     *)
(* line.                                                                    *)
ToReport(v) ==
  IF answer = None THEN Differs(last, v) ELSE Differs(last, answer) \o Differs(answer, v)

LEMMA PolledLine ==
  ASSUME WatchInv, "moved" \notin upset, Mode = "polled"
  PROVE  \E q \in Seq(BOOLEAN), u \in BOOLEAN :
           \A v \in BOOLEAN : lockQ \o ToReport(v) = q \o Differs(u, v)
<1>1. /\ machine /\ pc # "subscribed" /\ (last # None \/ answer # None)
      /\ lockQ \in Seq(BOOLEAN) /\ last \in Value /\ answer \in Value
  BY Followed, LineType DEF Mode
<1>2. CASE answer = None
  <2>1. last \in BOOLEAN /\ \A v \in BOOLEAN : ToReport(v) = Differs(last, v)
    BY <1>1, <1>2 DEF ToReport, Value
  <2> QED BY <1>1, <2>1
<1>3. CASE answer # None
  <2>1. answer \in BOOLEAN
    BY <1>1, <1>3 DEF Value
  <2>2. Differs(last, answer) \in Seq(BOOLEAN)
    BY ONLY <1>1, <2>1, DiffersType
  <2>3. ASSUME NEW v \in BOOLEAN
        PROVE  lockQ \o ToReport(v) = (lockQ \o Differs(last, answer)) \o Differs(answer, v)
    <3>1. answer \in Value
      BY <1>1
    <3>2. Differs(answer, v) \in Seq(BOOLEAN)
      BY ONLY <3>1, DiffersType
    <3>3. ToReport(v) = Differs(last, answer) \o Differs(answer, v)
      BY <1>3 DEF ToReport
    <3> QED BY <1>1, <2>2, <3>2, <3>3, ConcatAssociative
  <2>4. lockQ \o Differs(last, answer) \in Seq(BOOLEAN)
    BY <1>1, <2>2, ConcatProperties
  <2> QED BY <2>1, <2>3, <2>4
<1> QED BY <1>2, <1>3

(* A change that a poll has yet to see is the last of its line, or undoes   *)
(* the one that was.                                                        *)
LEMMA PolledChange ==
  ASSUME NEW q \in Seq(BOOLEAN), NEW u \in BOOLEAN, NEW v \in BOOLEAN, NEW w \in BOOLEAN,
         v # w
  PROVE  \/ q \o Differs(u, w) = Append(q \o Differs(u, v), w)
         \/ q \o Differs(u, v) = Append(q \o Differs(u, w), v)
<1>1. \A x \in BOOLEAN : q \o <<x>> = Append(q, x) /\ q \o <<>> = q
  <2> TAKE x \in BOOLEAN
  <2>1. q \o Append(<<>>, x) = Append(q \o <<>>, x)
    BY LineGrows, EmptySeq
  <2> QED BY <2>1, ConcatEmptySeq
<1>2. u = v \/ u = w
  OBVIOUS
<1>3. u # None /\ v # None /\ w # None
  OBVIOUS
<1>4. CASE u = v
  <2>1. Differs(u, v) = <<>> /\ Differs(u, w) = <<w>>
    BY <1>3, <1>4 DEF Differs
  <2> QED BY <1>1, <2>1
<1>5. CASE u = w
  <2>1. Differs(u, w) = <<>> /\ Differs(u, v) = <<v>>
    BY <1>3, <1>5 DEF Differs
  <2> QED BY <1>1, <2>1
<1> QED BY <1>2, <1>4, <1>5

-----------------------------------------------------------------------------
(* What each step of the watch is to the line. *)

Same == UNCHANGED <<Locked, Mode, Line, Trust>>

(* A session is locked or unlocked. *)
LEMMA ChangeReported ==
  ASSUME WatchInv, WatchInv', "moved" \notin upset, NEW s \in Sessions, ChangeHint(s)
  PROVE  Promised!RNext \/ Same
<1>1. /\ hint' = [hint EXCEPT ![s] = ~@]
      /\ signals' = IF pc = "subscribed" /\ bus /\ watched = s
                      THEN Append(signals, hint'[s]) ELSE signals
      /\ UNCHANGED <<id, bus, pc, watched, last, answer, lockQ, machine, told, upset>>
  BY DEF ChangeHint
<1>2. UNCHANGED <<Mode, Trust>>
  BY <1>1 DEF Mode, Trust
<1>3. CASE s # id
  <2>1. Locked' = Locked
    BY <1>1, <1>3 DEF Locked, WatchInv, TypeOK
  <2>2. signals' = signals
    BY <1>1, <1>3, Followed
  <2>3. Line' = Line
    BY <1>1, <2>1, <2>2 DEF Line, Unreported
  <2> QED BY <1>2, <2>1, <2>3 DEF Same
<1>4. CASE s = id
  <2>1. /\ Locked' = hint'[s] /\ Locked = hint[s] /\ Locked' \in BOOLEAN /\ Locked \in BOOLEAN
        /\ Locked' = ~Locked
    BY <1>1, <1>4 DEF Locked, WatchInv, TypeOK
  <2>2. Locked' # Locked
    BY <2>1
  <2>3. CASE Mode = "subscribed"
    <3>1. machine /\ pc = "subscribed" /\ watched = s
      BY <1>4, <2>3, Followed DEF Mode
    <3>2. CASE bus
      <4>1. signals' = Append(signals, Locked')
        BY <1>1, <2>1, <3>1, <3>2
      <4>2. Line = lockQ \o signals /\ Line' = lockQ \o Append(signals, Locked')
        BY <1>1, <3>1, <4>1 DEF Line, Unreported
      <4>3. lockQ \in Seq(BOOLEAN) /\ signals \in Seq(BOOLEAN)
        BY DEF WatchInv, TypeOK
      <4>4. Line' = Append(Line, Locked')
        BY <2>1, <4>2, <4>3, LineGrows
      <4> QED BY <1>2, <2>1, <2>3, <4>4 DEF Promised!RNext, Promised!RNoticed, Promised!Listens
    <3>3. CASE ~bus
      <4>1. signals' = signals
        BY <1>1, <3>3
      <4>2. Line' = Line
        BY <1>1, <3>1, <4>1 DEF Line, Unreported
      <4>3. Trust = "gaps"
        BY <3>1, <3>3 DEF Trust, WatchInv, Steady
      <4> QED BY <1>2, <2>1, <2>3, <4>2, <4>3
             DEF Promised!RNext, Promised!RUnnoticed, Promised!Listens
    <3> QED BY <3>2, <3>3 DEF WatchInv, TypeOK
  <2>4. CASE Mode = "polled"
    <3>1. PICK q \in Seq(BOOLEAN), u \in BOOLEAN :
             \A v \in BOOLEAN : lockQ \o ToReport(v) = q \o Differs(u, v)
      BY <2>4, PolledLine
    <3>2. Line = q \o Differs(u, Locked)
      <4>1. Line = lockQ \o ToReport(Locked)
        BY <2>4 DEF Mode, Line, Unreported, ToReport
      <4> QED BY <2>1, <3>1, <4>1
    <3>3. Line' = q \o Differs(u, Locked')
      <4>1. Line' = lockQ \o ToReport(Locked')
        BY <1>1, <2>4 DEF Mode, Line, Unreported, ToReport
      <4> QED BY <2>1, <3>1, <4>1
    <3>4. \/ Line' = Append(Line, Locked')
          \/ Line = Append(Line', Locked)
      <4> DEFINE v == Locked
                 w == Locked'
      <4>1. v \in BOOLEAN /\ w \in BOOLEAN /\ v # w
        BY <2>1, <2>2
      <4>2. Line = q \o Differs(u, v) /\ Line' = q \o Differs(u, w)
        BY <3>2, <3>3
      <4> HIDE DEF v, w
      <4>3. \/ q \o Differs(u, w) = Append(q \o Differs(u, v), w)
            \/ q \o Differs(u, v) = Append(q \o Differs(u, w), v)
        BY ONLY <4>1, PolledChange
      <4> QED BY <4>2, <4>3 DEF v, w
    <3>5. Line' \in Seq(BOOLEAN)
      <4>1. Differs(u, Locked') \in Seq(BOOLEAN)
        <5>1. <<>> \in Seq(BOOLEAN) /\ <<Locked'>> \in Seq(BOOLEAN)
          BY <2>1, EmptySeq
        <5>2. Differs(u, Locked') \in {<<>>, <<Locked'>>}
          BY DEF Differs
        <5> QED BY ONLY <5>1, <5>2
      <4> QED BY <3>1, <3>3, <4>1, ConcatProperties
    <3> QED BY <1>2, <2>1, <2>4, <3>4, <3>5
             DEF Promised!RNext, Promised!RNoticed, Promised!RUndone, Promised!Listens
  <2>5. CASE Mode \notin {"subscribed", "polled"}
    <3>1. ~machine \/ (pc # "subscribed" /\ last = None /\ answer = None)
      BY <2>5 DEF Mode
    <3>2. Line' = Line
      BY <1>1, <3>1 DEF Line, Unreported, Differs
    <3> QED BY <1>2, <2>1, <2>5, <3>2
             DEF Promised!RNext, Promised!RUnnoticed, Promised!Listens
  <2> QED BY <2>3, <2>4, <2>5
<1> QED BY <1>3, <1>4

(* The bus goes, the machine reads or ends.                                 *)
LEMMA EnvironmentReported ==
  ASSUME WatchInv, "moved" \notin upset, BusDies \/ MachineReads \/ MachineEnds
  PROVE  Promised!RNext \/ Same
<1>1. CASE BusDies
  <2>1. UNCHANGED <<Locked, Mode, Line>>
    BY <1>1 DEF BusDies, watcher, Locked, Mode, Line, Unreported
  <2>2. upset' = upset \cup {"bus"} /\ upset \subseteq {"bus"}
    BY <1>1 DEF BusDies, WatchInv, TypeOK
  <2>3. Trust' = "gaps" /\ Trust \in {"whole", "gaps"}
    BY <2>2 DEF Trust
  <2> QED BY <2>1, <2>3 DEF Promised!RNext, Promised!RFail, Same
<1>2. CASE MachineReads
  <2>1. UNCHANGED <<Locked, Mode, Trust>>
    BY <1>2 DEF MachineReads, watcher, world, history, Locked, Mode, Trust
  <2>2. Line = lockQ \o Unreported /\ Line' = Tail(lockQ) \o Unreported
    BY <1>2 DEF MachineReads, watcher, world, history, Line, Unreported, Locked
  <2>3. lockQ # <<>> /\ lockQ \in Seq(BOOLEAN) /\ Unreported \in Seq(BOOLEAN)
    BY <1>2, LineType DEF MachineReads
  <2>4. Line # <<>> /\ Line' = Tail(Line)
    BY <2>2, <2>3, LineShrinks
  <2> QED BY <2>1, <2>4 DEF Promised!RNext, Promised!RTake
<1>3. CASE MachineEnds
  BY <1>3 DEF MachineEnds, watcher, world, history, Locked, Mode, Line, Trust,
               Promised!RNext, Promised!REnd
<1> QED BY <1>1, <1>2, <1>3

(* The steps of the subscription.                                           *)
LEMMA SubscriptionReported ==
  ASSUME WatchInv, "moved" \notin upset,
         ReadId \/ Subscribe \/ CannotSubscribe \/ ForwardSignal \/ NobodyListens
           \/ Recheck \/ StreamEnds
  PROVE  Promised!RNext \/ Same
<1> DEFINE Still == UNCHANGED <<id, hint, lockQ, machine, upset>>
<1>1. Still => UNCHANGED <<Locked, Trust>>
  BY DEF Locked, Trust
<1>2. lockQ \in Seq(BOOLEAN) /\ signals \in Seq(BOOLEAN) /\ lockQ \o <<>> = lockQ
  BY ConcatEmptySeq DEF WatchInv, TypeOK
<1>3. CASE ReadId
  BY <1>1, <1>3 DEF ReadId, world, history, Same, Mode, Line, Unreported
<1>4. CASE Subscribe
  <2>1. /\ pc = "subscribing" /\ pc' = "subscribed" /\ last = None /\ answer = None
        /\ signals = <<>> /\ UNCHANGED <<last, answer, signals>> /\ Still
    BY <1>4 DEF Subscribe, world, history, WatchInv, Shape
  <2>2. Line' = Line
    BY <1>1, <2>1 DEF Line, Unreported, Differs
  <2> QED BY <1>1, <2>1, <2>2 DEF Mode, Same, Promised!RNext, Promised!RBegin
<1>5. CASE CannotSubscribe
  <2>1. /\ pc = "subscribing" /\ pc' = "sleeping" /\ UNCHANGED <<last, answer, signals>> /\ Still
    BY <1>5 DEF CannotSubscribe, StartPolling, world, history, WatchInv, Shape
  <2> QED BY <1>1, <2>1 DEF Mode, Line, Unreported, Same
<1>6. CASE ForwardSignal
  <2>1. /\ machine /\ pc = "subscribed" /\ signals # <<>> /\ signals' = Tail(signals)
        /\ lockQ' = Append(lockQ, Head(signals))
        /\ UNCHANGED <<id, hint, machine, upset, pc, last, answer>>
    BY <1>6 DEF ForwardSignal, Report, world
  <2>2. Line = lockQ \o signals /\ Line' = Append(lockQ, Head(signals)) \o Tail(signals)
    BY <2>1 DEF Line, Unreported
  <2>3. Line' = Line
    BY <1>2, <2>1, <2>2, LineMoves
  <2> QED BY <2>1, <2>3 DEF Same, Locked, Mode, Trust
<1>7. CASE NobodyListens
  BY <1>1, <1>7 DEF NobodyListens, world, history, Same, Mode, Line
<1>8. CASE Recheck
  BY <1>8, Followed DEF Recheck
<1>9. CASE StreamEnds
  <2>1. /\ pc = "subscribed" /\ pc' = "sleeping" /\ last = None /\ answer = None
        /\ ~bus /\ signals = <<>> /\ UNCHANGED <<last, answer, signals>> /\ Still
    BY <1>9 DEF StreamEnds, StartPolling, world, history, WatchInv, Shape
  <2>2. Line' = Line
    BY <1>1, <2>1 DEF Line, Unreported, Differs
  <2>3. Trust = "gaps"
    BY <2>1 DEF WatchInv, Steady, Trust
  <2> QED BY <1>1, <2>1, <2>2, <2>3 DEF Mode, Same, Promised!RNext, Promised!RLapse
<1> QED BY <1>3, <1>4, <1>5, <1>6, <1>7, <1>8, <1>9

(* The steps of the poll.                                                   *)
LEMMA PollReported ==
  ASSUME WatchInv, "moved" \notin upset, Ask \/ Answered \/ Observe \/ ReportChange \/ StopPolling
  PROVE  Promised!RNext \/ Same
<1> DEFINE Still == UNCHANGED <<id, hint, machine, upset>>
<1>1. Still => UNCHANGED <<Locked, Trust>>
  BY DEF Locked, Trust
<1>2. /\ lockQ \in Seq(BOOLEAN) /\ Locked \in BOOLEAN /\ last \in Value /\ None \notin BOOLEAN
      /\ Differs(last, Locked) \in Seq(BOOLEAN)
  <2>1. last \in Value /\ Locked \in BOOLEAN
    BY Followed
  <2>2. Differs(last, Locked) \in Seq(BOOLEAN)
    BY ONLY <2>1, DiffersType
  <2> QED BY <2>1, <2>2, Followed DEF WatchInv, TypeOK
<1>3. CASE Ask
  <2>1. /\ pc = "sleeping" /\ pc' = "asking" /\ Still /\ UNCHANGED <<last, answer, signals, lockQ>>
    BY <1>3 DEF Ask, world, history
  <2> QED BY <1>1, <2>1 DEF Mode, Line, Unreported, Same
<1>4. CASE Answered
  <2>1. /\ pc = "asking" /\ pc' \in {"comparing", "sleeping"} /\ Still
        /\ UNCHANGED <<last, signals, lockQ>> /\ answer = None
        /\ (answer' = Locked \/ answer' = None)
    BY <1>4, Followed DEF Answered, world, history
  <2>2. CASE answer' = None
    BY <1>1, <2>1, <2>2 DEF Mode, Line, Unreported, Same
  <2>3. CASE answer' = Locked
    <3>1. Differs(answer', Locked) = <<>> /\ answer' # None
      BY <1>2, <2>3 DEF Differs
    <3>2. Unreported' = Differs(last, Locked) \o <<>>
      BY <1>1, <2>1, <2>3, <3>1 DEF Unreported
    <3>3. Unreported' = Unreported
      BY <1>2, <2>1, <3>2, ConcatEmptySeq DEF Unreported
    <3>4. Line' = Line
      BY <2>1, <3>3 DEF Line
    <3> QED BY <1>1, <2>1, <3>1, <3>4 DEF Mode, Same, Promised!RNext, Promised!RBegin
  <2> QED BY <2>1, <2>2, <2>3
<1>5. CASE Observe
  <2>1. /\ pc = "comparing" /\ pc' = "sleeping" /\ Still /\ UNCHANGED <<signals, lockQ>>
        /\ answer \in BOOLEAN /\ answer # None /\ answer' = None /\ last' = answer
        /\ last \in {None, answer}
    BY <1>5 DEF Observe, world, history, WatchInv, Shape
  <2>2. Differs(last, answer) = <<>> /\ Differs(answer, Locked) \in Seq(BOOLEAN)
    <3>1. answer \in Value /\ Locked \in BOOLEAN
      BY <1>2, <2>1 DEF Value
    <3>2. Differs(answer, Locked) \in Seq(BOOLEAN)
      BY ONLY <3>1, DiffersType
    <3>3. Differs(last, answer) = <<>>
      BY <2>1 DEF Differs
    <3> QED BY <3>2, <3>3
  <2>3. Unreported = Differs(answer, Locked)
    BY <2>1, <2>2, ConcatEmptySeq DEF Unreported
  <2>4. Unreported' = Differs(answer, Locked)
    BY <1>1, <2>1 DEF Unreported
  <2> QED BY <1>1, <2>1, <2>3, <2>4 DEF Mode, Line, Same
<1>6. CASE ReportChange
  <2>1. /\ pc = "comparing" /\ pc' = "sleeping" /\ Still /\ signals' = signals
        /\ answer \in BOOLEAN /\ answer # None /\ answer' = None /\ last' = answer
        /\ last # None /\ last # answer /\ machine /\ lockQ' = Append(lockQ, answer)
    BY <1>6 DEF ReportChange, Report, world, history, WatchInv, Shape
  <2> DEFINE rest == Differs(answer, Locked)
  <2>2. rest \in Seq(BOOLEAN)
    <3>1. answer \in Value /\ Locked \in BOOLEAN
      BY <1>2, <2>1 DEF Value
    <3> QED BY ONLY <3>1, DiffersType
  <2>3. Unreported = <<answer>> \o rest
    <3>1. Differs(last, answer) = <<answer>>
      BY <2>1 DEF Differs
    <3> QED BY <2>1, <3>1 DEF Unreported
  <2>4. Unreported' = rest
    BY <1>1, <2>1 DEF Unreported
  <2> HIDE DEF rest
  <2>5. lockQ \o (<<answer>> \o rest) = Append(lockQ, answer) \o rest
    <3>1. <<answer>> \in Seq(BOOLEAN) /\ <<>> \in Seq(BOOLEAN)
      BY <2>1
    <3>2. lockQ \o (<<answer>> \o rest) = (lockQ \o <<answer>>) \o rest
      BY <1>2, <2>2, <3>1, ConcatAssociative
    <3>3. lockQ \o Append(<<>>, answer) = Append(lockQ \o <<>>, answer)
      BY <1>2, <2>1, <3>1, LineGrows
    <3>4. lockQ \o <<answer>> = Append(lockQ, answer)
      BY <1>2, <3>3, ConcatEmptySeq
    <3> QED BY <3>2, <3>4
  <2>6. Line' = Line
    BY <2>1, <2>3, <2>4, <2>5 DEF Line
  <2> QED BY <1>1, <2>1, <2>6 DEF Mode, Same
<1>7. CASE StopPolling
  BY <1>1, <1>7 DEF StopPolling, world, history, Same, Mode, Line
<1> QED BY <1>3, <1>4, <1>5, <1>6, <1>7

(* The watch keeps its promise step by step: while nobody moves it, every   *)
(* change is on the line, once and in its place, from the moment the watch  *)
(* hears of it, or the poll could, until the machine takes it.              *)
THEOREM ReportsKept == Spec => KeepsReports
<1>1. Init => Promised!RInit
  BY Followed, Initially DEF Init, Promised!RInit, Mode, Line, Unreported, Differs, Trust
<1>2. WatchInv /\ WatchInv' /\ [Next]_vars => [Promised!RNext]_Promised!rvars
  <2> SUFFICES ASSUME WatchInv, WatchInv', [Next]_vars PROVE Promised!RNext \/ Same
    BY DEF Promised!rvars, Same
  <2>1. CASE "moved" \in upset'
    BY <2>1 DEF Promised!RNext, Promised!RMove, Trust
  <2>2. CASE "moved" \notin upset'
    <3>1. "moved" \notin upset
      BY <2>2 DEF Next, WatchStep, vars, world, history, watcher, MachineReads, MachineEnds,
         BusDies, ChangeHint, UpdateFrom, ReadId, Subscribe, CannotSubscribe, ForwardSignal,
         NobodyListens, Recheck, StreamEnds, Ask, Answered, Observe, ReportChange,
         StopPolling, Report
    <3>2. ASSUME NEW s \in Sessions \cup {None}, UpdateFrom(s) PROVE FALSE
      BY <2>2, <3>2 DEF UpdateFrom
    <3>3. CASE UNCHANGED vars
      BY <3>3 DEF vars, world, history, watcher, Same, Locked, Mode, Line, Unreported, Trust
    <3> QED BY <3>1, <3>2, <3>3, ChangeReported, EnvironmentReported, SubscriptionReported,
               PollReported DEF Next, WatchStep
  <2> QED BY <2>1, <2>2
<1> QED BY <1>1, <1>2, Invariance, PTL DEF Spec, KeepsReports, Promised!RSpec

(* What module LockReports promises keeps the line in order.                *)
LEMMA OrderKept ==
  ASSUME Promised!InOrder, [Promised!RNext]_(Promised!rvars) PROVE Promised!InOrder'
<1> DEFINE n == Len(Line)
<1> SUFFICES ASSUME Trust' = "whole" PROVE Promised!InOrder'
  BY DEF Promised!InOrder
<1>1. Trust = "whole"
  BY DEF Promised!RNext, Promised!RNoticed, Promised!RUndone, Promised!RUnnoticed,
     Promised!RBegin, Promised!RTake, Promised!RFail, Promised!RLapse, Promised!REnd,
     Promised!RMove, Promised!rvars
<1>2. /\ Locked \in BOOLEAN /\ Line \in Seq(BOOLEAN) /\ n \in Nat
      /\ Mode = "blind" => Line = <<>>
      /\ Promised!Listens =>
           \A i \in 1..n : Line[i] = IF i = n THEN Locked ELSE ~Line[i + 1]
  BY <1>1 DEF Promised!InOrder
<1>3. CASE Promised!RNoticed
  <2>1. /\ Locked' = ~Locked /\ Line' = Append(Line, Locked') /\ Mode' = Mode /\ Promised!Listens
    BY <1>3 DEF Promised!RNoticed
  <2>2. /\ Locked' \in BOOLEAN /\ Line' \in Seq(BOOLEAN) /\ Len(Line') = n + 1
        /\ Line'[n + 1] = Locked' /\ \A i \in 1..n : Line'[i] = Line[i]
    BY <1>2, <2>1
  <2>3. ASSUME NEW i \in 1..(n + 1)
        PROVE  Line'[i] = IF i = n + 1 THEN Locked' ELSE ~Line'[i + 1]
    <3>1. CASE i = n + 1
      BY <2>2, <3>1
    <3>2. CASE i = n
      <4>1. i # n + 1 /\ (n = 0 \/ n \in 1..n)
        BY <1>2, <3>2
      <4>2. CASE n \in 1..n
        <5>1. Line[n] = Locked
          BY <1>2, <2>1, <4>2
        <5>2. Line'[i] = Locked
          BY <2>2, <3>2, <4>2, <5>1
        <5>3. Line'[i + 1] = ~Locked
          BY <2>1, <2>2, <3>2
        <5>4. (~Line'[i + 1]) = Locked
          BY ONLY <1>2, <5>3
        <5> QED BY <4>1, <5>2, <5>4
      <4>3. CASE n = 0
        BY <1>2, <2>3, <3>2, <4>3
      <4> QED BY <4>1, <4>2, <4>3
    <3>3. CASE i \in 1..(n - 1)
      <4>1. i \in 1..n /\ i + 1 \in 1..n /\ i # n
        BY <1>2, <3>3
      <4> QED BY <1>2, <2>1, <2>2, <4>1
    <3> QED BY <1>2, <3>1, <3>2, <3>3
  <2> QED BY <2>1, <2>2, <2>3 DEF Promised!InOrder, Promised!Listens
<1>4. CASE Promised!RUndone
  <2>1. /\ Mode' = Mode /\ Mode = "polled" /\ Locked' = ~Locked
        /\ Line' \in Seq(BOOLEAN) /\ Line = Append(Line', Locked)
    BY <1>4 DEF Promised!RUndone
  <2> QED BY <1>2, <2>1 DEF Promised!InOrder, Promised!Listens
<1>5. CASE Promised!RTake
  <2>1. Line # <<>> /\ Line' = Tail(Line) /\ Locked' = Locked /\ Mode' = Mode
    BY <1>5 DEF Promised!RTake
  <2>2. /\ n \in Nat \ {0} /\ Line' \in Seq(BOOLEAN) /\ Len(Line') = n - 1
        /\ \A i \in 1..(n - 1) : Line'[i] = Line[i + 1]
    BY <1>2, <2>1, EmptySeq, HeadTailProperties
  <2>3. ASSUME Promised!Listens, NEW i \in 1..(n - 1)
        PROVE  Line'[i] = IF i = n - 1 THEN Locked' ELSE ~Line'[i + 1]
    <3>1. i + 1 \in 1..n /\ (i # n - 1 => i + 1 \in 1..(n - 1))
      BY <2>2
    <3>2. Line[i + 1] = IF i + 1 = n THEN Locked ELSE ~Line[i + 1 + 1]
      BY <1>2, <2>3, <3>1
    <3>3. CASE i = n - 1
      <4>1. i + 1 = n
        BY <2>2, <3>3
      <4>2. Line'[i] = Line[i + 1]
        BY <2>2
      <4> QED BY <2>1, <3>2, <3>3, <4>1, <4>2
    <3>4. CASE i # n - 1
      <4>1. i + 1 # n /\ i + 1 \in 1..(n - 1) /\ i \in 1..(n - 1)
        BY <2>2, <3>1, <3>4
      <4>2. Line'[i] = Line[i + 1] /\ Line'[i + 1] = Line[i + 1 + 1]
        BY <2>2, <4>1
      <4>3. Line'[i] = ~Line'[i + 1]
        BY <3>2, <4>1, <4>2
      <4> QED BY <3>4, <4>3
    <3> QED BY <3>3, <3>4
  <2> QED BY <1>2, <2>1, <2>2, <2>3 DEF Promised!InOrder, Promised!Listens
<1>6. CASE Promised!RUnnoticed
  BY <1>1, <1>2, <1>6 DEF Promised!RUnnoticed, Promised!InOrder, Promised!Listens
<1>7. CASE Promised!RBegin
  BY <1>2, <1>7 DEF Promised!RBegin, Promised!InOrder, Promised!Listens
<1>8. CASE Promised!RFail \/ Promised!RLapse \/ Promised!RMove
  BY <1>1, <1>8 DEF Promised!RFail, Promised!RLapse, Promised!RMove
<1>9. CASE Promised!REnd
  BY <1>2, <1>9, EmptySeq DEF Promised!REnd, Promised!InOrder, Promised!Listens
<1>10. CASE UNCHANGED Promised!rvars
  BY <1>2, <1>10 DEF Promised!rvars, Promised!InOrder, Promised!Listens
<1> QED BY <1>3, <1>4, <1>5, <1>6, <1>7, <1>8, <1>9, <1>10 DEF Promised!RNext

(* As long as nothing has disturbed the watch, what is on its way to the    *)
(* machine, waiting in the stream or in the channel, alternates and ends in *)
(* the present state of the session.                                        *)
THEOREM LineInOrder == Spec => []Promised!InOrder
<1>1. Promised!RInit => Promised!InOrder
  BY EmptySeq DEF Promised!RInit, Promised!InOrder
<1>2. Promised!InOrder /\ [Promised!RNext]_(Promised!rvars) => Promised!InOrder'
  BY OrderKept
<1> QED BY <1>1, <1>2, ReportsKept, PTL DEF KeepsReports, Promised!RSpec
=============================================================================
