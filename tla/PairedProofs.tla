---------------------------- MODULE PairedProofs ----------------------------
(***************************************************************************)
(* What the tray reports as paired is heard, if the daemon neither refuses *)
(* to write it nor dies before it has.  The press is followed from the     *)
(* device through answer, copy and request into the configuration and from *)
(* there to the reader, for any devices, nodes, deaths and rivals.         *)
(***************************************************************************)
EXTENDS PairingProofs, SequenceTheorems, WellFoundedInduction

IsSet(r) == r.op = "SetConfig"

(* Of the requests in q the last that sets a configuration sets one that    *)
(* suits d; if none does, c suits it.                                       *)
LastSuits(q, c, d) ==
  /\ \A i \in DOMAIN q :
       IsSet(q[i]) /\ (\A j \in DOMAIN q : j > i => ~IsSet(q[j])) => Suits(q[i].cfg, d)
  /\ (\A i \in DOMAIN q : ~IsSet(q[i])) => Suits(c, d)

(* The requests on their way, the oldest first. *)
Line == sent \o queued

(* What is owed, and has been neither refused nor lost nor undone, is on    *)
(* its way or in force, and nothing else follows it.  Over a connection     *)
(* that is gone nothing of it is on its way.                                *)
OwedInv ==
  owed # None /\ fate = "kept" =>
    /\ owed \in Device
    /\ LastSuits(Line, cfg, owed)
    /\ ~peer => \A i \in DOMAIN queued : ~IsSet(queued[i])

-----------------------------------------------------------------------------
(* The line.                                                                *)

(* A request joins the line. *)
LEMMA Joins ==
  ASSUME NEW S, NEW q \in Seq(S), NEW x \in S, NEW c, NEW d
  PROVE  /\ ~IsSet(x) /\ LastSuits(q, c, d) => LastSuits(Append(q, x), c, d)
         /\ IsSet(x) /\ Suits(x.cfg, d) => LastSuits(Append(q, x), c, d)
<1> DEFINE p == Append(q, x)
           n == Len(q)
<1>1. /\ n \in Nat /\ DOMAIN q = 1..n /\ DOMAIN p = 1..(n + 1)
      /\ p[n + 1] = x /\ \A i \in 1..n : p[i] = q[i]
  BY AppendProperties, LenProperties
<1> HIDE DEF p, n
<1>2. ASSUME ~IsSet(x), LastSuits(q, c, d) PROVE LastSuits(p, c, d)
  <2>1. ASSUME NEW i \in DOMAIN p, IsSet(p[i]), \A j \in DOMAIN p : j > i => ~IsSet(p[j])
        PROVE  Suits(p[i].cfg, d)
    <3>1. i \in 1..n
      BY <1>1, <1>2, <2>1
    <3>2. p[i] = q[i] /\ \A j \in DOMAIN q : j > i => ~IsSet(q[j])
      BY <1>1, <2>1, <3>1
    <3> QED BY <1>1, <1>2, <2>1, <3>1, <3>2 DEF LastSuits
  <2>2. (\A i \in DOMAIN p : ~IsSet(p[i])) => \A i \in DOMAIN q : ~IsSet(q[i])
    BY <1>1
  <2> QED BY <1>2, <2>1, <2>2 DEF LastSuits
<1>3. ASSUME IsSet(x), Suits(x.cfg, d) PROVE LastSuits(p, c, d)
  <2>1. n + 1 \in DOMAIN p /\ IsSet(p[n + 1]) /\ p[n + 1] = x
    BY <1>1, <1>3
  <2>2. ASSUME NEW i \in DOMAIN p, \A j \in DOMAIN p : j > i => ~IsSet(p[j])
        PROVE  i = n + 1
    <3>1. ~(n + 1 > i)
      BY <2>1, <2>2
    <3> QED BY <1>1, <3>1
  <2> QED BY <1>3, <2>1, <2>2 DEF LastSuits
<1> QED BY <1>2, <1>3 DEF p

(* The oldest request leaves it, and is carried out if it sets one. *)
LEMMA Leaves ==
  ASSUME NEW S, NEW q \in Seq(S), q # <<>>, NEW c, NEW d, LastSuits(q, c, d), NEW b,
         IF IsSet(Head(q)) THEN b = Head(q).cfg ELSE b = c
  PROVE  LastSuits(Tail(q), b, d)
<1> DEFINE t == Tail(q)
           n == Len(q)
<1>1. /\ n \in Nat /\ n > 0 /\ DOMAIN q = 1..n /\ DOMAIN t = 1..(n - 1)
      /\ Head(q) = q[1] /\ \A i \in 1..(n - 1) : t[i] = q[i + 1]
  <2>1. t \in Seq(S) /\ Len(t) = n - 1 /\ \A i \in 1..Len(t) : t[i] = q[i + 1]
    BY HeadTailProperties
  <2>2. n \in Nat \ {0} /\ DOMAIN q = 1..n
    BY EmptySeq, LenProperties
  <2>3. DOMAIN t = 1..Len(t)
    BY <2>1, LenProperties
  <2> HIDE DEF t, n
  <2> QED BY <2>1, <2>2, <2>3
<1> HIDE DEF t, n
<1>2. ASSUME NEW i \in DOMAIN t, IsSet(t[i]), \A j \in DOMAIN t : j > i => ~IsSet(t[j])
      PROVE  Suits(t[i].cfg, d)
  <2>1. i \in 1..(n - 1) /\ i + 1 \in DOMAIN q /\ t[i] = q[i + 1]
    BY <1>1
  <2>2. ASSUME NEW j \in DOMAIN q, j > i + 1 PROVE ~IsSet(q[j])
    <3>1. j - 1 \in DOMAIN t /\ j - 1 > i /\ t[j - 1] = q[j]
      BY <1>1, <2>1, <2>2
    <3> QED BY <1>2, <3>1
  <2> QED BY <1>2, <2>1, <2>2 DEF LastSuits
<1>3. ASSUME \A i \in DOMAIN t : ~IsSet(t[i]) PROVE Suits(b, d)
  <2>1. ASSUME NEW j \in DOMAIN q, j > 1 PROVE ~IsSet(q[j])
    <3>1. j - 1 \in DOMAIN t /\ t[j - 1] = q[j]
      BY <1>1, <2>1
    <3> QED BY <1>3, <3>1
  <2>2. 1 \in DOMAIN q /\ \A i \in DOMAIN q : i = 1 \/ i > 1
    BY <1>1
  <2>3. CASE IsSet(q[1])
    BY <1>1, <2>1, <2>2, <2>3 DEF LastSuits
  <2>4. CASE ~IsSet(q[1])
    <3>1. \A i \in DOMAIN q : ~IsSet(q[i])
      BY <2>1, <2>2, <2>4
    <3> QED BY <1>1, <2>4, <3>1 DEF LastSuits
  <2> QED BY <2>3, <2>4
<1> QED BY <1>2, <1>3 DEF LastSuits, t

(* Sent and queued requests are one line: what is queued joins it, what the *)
(* daemon takes leaves it, what is written stays where it was.              *)
LEMMA OneLine ==
  ASSUME NEW S, NEW s \in Seq(S), NEW q \in Seq(S)
  PROVE  /\ s \o q \in Seq(S)
         /\ \A x \in S : s \o Append(q, x) = Append(s \o q, x)
         /\ s # <<>> => /\ s \o q # <<>> /\ Head(s \o q) = Head(s)
                        /\ Tail(s) \o q = Tail(s \o q)
         /\ q # <<>> => Append(s, Head(q)) \o Tail(q) = s \o q
         /\ s = <<>> => s \o q = q
<1>1. s \o q \in Seq(S) /\ (s = <<>> => s \o q = q)
  BY ConcatProperties, ConcatEmptySeq
<1>2. ASSUME NEW x \in S PROVE s \o Append(q, x) = Append(s \o q, x)
  <2>1. <<x>> \in Seq(S)
    OBVIOUS
  <2>2. Append(q, x) = q \o <<x>> /\ Append(s \o q, x) = (s \o q) \o <<x>>
    BY <1>1, AppendIsConcat
  <2> QED BY <2>1, <2>2, ConcatAssociative
<1>3. ASSUME q # <<>> PROVE Append(s, Head(q)) \o Tail(q) = s \o q
  <2>1. Head(q) \in S /\ Tail(q) \in Seq(S)
    BY <1>3, HeadTailProperties
  <2>2. <<Head(q)>> \in Seq(S)
    BY <2>1
  <2>3. Append(s, Head(q)) = s \o <<Head(q)>>
    BY <2>1, AppendIsConcat
  <2>4. <<Head(q)>> \o Tail(q) = q
    BY <1>3, <2>1
  <2> QED BY <2>1, <2>2, <2>3, <2>4, ConcatAssociative
<1>4. ASSUME s # <<>>
      PROVE  s \o q # <<>> /\ Head(s \o q) = Head(s) /\ Tail(s) \o q = Tail(s \o q)
  <2>1. Head(s) \in S /\ Tail(s) \in Seq(S) /\ <<Head(s)>> \in Seq(S)
    BY <1>4, HeadTailProperties
  <2>2. <<Head(s)>> \o Tail(s) = s
    BY <1>4, <2>1
  <2>3. s \o q = <<Head(s)>> \o (Tail(s) \o q)
    BY <2>1, <2>2, ConcatAssociative
  <2>4. Tail(s) \o q \in Seq(S)
    BY <2>1, ConcatProperties
  <2> DEFINE r == Tail(s) \o q
             h == Head(s)
  <2>5. h \in S /\ r \in Seq(S) /\ s \o q = <<h>> \o r
    BY <2>1, <2>3, <2>4
  <2> HIDE DEF r, h
  <2>6. <<h>> \o r # <<>> /\ Head(<<h>> \o r) = h /\ Tail(<<h>> \o r) = r
    BY <2>5
  <2> QED BY <2>5, <2>6 DEF r, h
<1> QED BY <1>1, <1>2, <1>3, <1>4

-----------------------------------------------------------------------------
(* The steps.                                                               *)

(* A copy of the configuration that a press is applied to suits its device. *)
LEMMA AppliedSuits ==
  ASSUME NEW O, NEW c \in Cfg(O), NEW a \in Presses
  PROVE  Suits(ApplyLearned(c, a), a.device)
<1> DEFINE h == IF a.name = None THEN c.hint ELSE a.name
           p == IF a.name = None THEN a.path ELSE None
           k == {a.key}
<1>1. ApplyLearned(c, a) = [c EXCEPT !.hint = h, !.path = p, !.keys = k]
  BY DEF ApplyLearned, Cfg
<1>2. /\ KeyOf[a.device] \in k
      /\ NameOf[a.device] # None => p = None /\ h = NameOf[a.device]
  BY PressSays
<1> HIDE DEF h, p, k
<1>3. /\ [c EXCEPT !.hint = h, !.path = p, !.keys = k].keys = k
      /\ [c EXCEPT !.hint = h, !.path = p, !.keys = k].path = p
      /\ [c EXCEPT !.hint = h, !.path = p, !.keys = k].hint = h
  BY DEF Cfg
<1> QED BY <1>1, <1>2, <1>3 DEF Suits

(* Requests, of whatever kind, that are on their way. *)
LEMMA LineFits ==
  ASSUME PairingInv
  PROVE  \E S : /\ S = Requests(Others) /\ sent \in Seq(S) /\ queued \in Seq(S)
                /\ Line \in Seq(S)
<1>1. PICK S : S = Requests(Others)
  OBVIOUS
<1>2. sent \in Seq(S) /\ queued \in Seq(S)
  BY <1>1 DEF PairingInv, Fits, WireFits
<1> QED BY <1>1, <1>2, OneLine DEF Line

(* With nothing that sets a configuration on the line, the one in force     *)
(* counts.                                                                  *)
LEMMA NothingOnLine ==
  ASSUME NEW q, NEW c, NEW d, \A i \in DOMAIN q : ~IsSet(q[i])
  PROVE  LastSuits(q, c, d) <=> Suits(c, d)
BY DEF LastSuits

(* A request on the line is sent or queued. *)
LEMMA OnLine ==
  ASSUME NEW S, NEW s \in Seq(S), NEW q \in Seq(S)
  PROVE  (\E i \in DOMAIN (s \o q) : IsSet((s \o q)[i])) <=>
           \/ \E i \in DOMAIN s : IsSet(s[i])
           \/ \E i \in DOMAIN q : IsSet(q[i])
<1> DEFINE p == s \o q
           m == Len(s)
           n == Len(q)
<1>1. /\ m \in Nat /\ n \in Nat /\ DOMAIN s = 1..m /\ DOMAIN q = 1..n
      /\ DOMAIN p = 1..(m + n)
      /\ \A i \in 1..(m + n) : p[i] = IF i <= m THEN s[i] ELSE q[i - m]
  BY ConcatProperties, LenProperties
<1> HIDE DEF p, m, n
<1>2. ASSUME NEW i \in DOMAIN p
      PROVE  \/ i \in DOMAIN s /\ p[i] = s[i]
             \/ i - m \in DOMAIN q /\ p[i] = q[i - m]
  BY <1>1
<1>3. ASSUME NEW i \in DOMAIN s PROVE i \in DOMAIN p /\ p[i] = s[i]
  BY <1>1
<1>4. ASSUME NEW i \in DOMAIN q PROVE i + m \in DOMAIN p /\ p[i + m] = q[i]
  <2>1. i + m \in 1..(m + n) /\ ~(i + m <= m) /\ i + m - m = i
    BY <1>1
  <2> QED BY <1>1, <2>1
<1>5. (\E i \in DOMAIN p : IsSet(p[i])) <=>
        \/ \E i \in DOMAIN s : IsSet(s[i])
        \/ \E i \in DOMAIN q : IsSet(q[i])
  BY <1>2, <1>3, <1>4
<1> QED BY <1>5 DEF p

(* What is under way is on the line. *)
LEMMA UnderWay ==
  ASSUME PairingInv
  PROVE  SetConfigUnderWay <=> \E i \in DOMAIN Line : IsSet(Line[i])
BY LineFits, OnLine DEF Line, SetConfigUnderWay, IsSet

(* While something that sets a configuration is on the line, the one in     *)
(* force does not matter.                                                   *)
LEMMA LineDecides ==
  ASSUME NEW q, NEW b, NEW c, NEW d, LastSuits(q, b, d), \E i \in DOMAIN q : IsSet(q[i])
  PROVE  LastSuits(q, c, d)
BY DEF LastSuits

(* Nothing the debt depends on changes. *)
LEMMA OwedKept ==
  ASSUME OwedInv, UNCHANGED <<sent, queued, peer, owed, fate, cfg>>
  PROVE  OwedInv'
BY DEF OwedInv, Line, LastSuits, Suits, IsSet

(* The report has turned out wrong. *)
LEMMA OwedCleared ==
  ASSUME fate' # "kept" PROVE OwedInv'
BY DEF OwedInv

(* The tray queues a request that sets nothing. *)
LEMMA QueuesOther ==
  ASSUME PairingInv, OwedInv, NEW x \in Requests(Others), ~IsSet(x),
         queued' = Append(queued, x), UNCHANGED <<sent, peer, owed, fate, cfg>>
  PROVE  OwedInv'
<1>1. PICK S : S = Requests(Others) /\ sent \in Seq(S) /\ queued \in Seq(S) /\ Line \in Seq(S)
  BY LineFits
<1>2. Line' = Append(Line, x) /\ x \in S
  BY <1>1, OneLine DEF Line
<1>3. owed # None /\ fate = "kept" => LastSuits(Line', cfg', owed')
  BY <1>1, <1>2, Joins DEF OwedInv
<1>4. ASSUME owed # None, fate = "kept", ~peer
      PROVE  \A i \in DOMAIN queued' : ~IsSet(queued'[i])
  <2>1. \A i \in DOMAIN queued : ~IsSet(queued[i])
    BY <1>4 DEF OwedInv
  <2>2. /\ DOMAIN queued = 1..Len(queued) /\ DOMAIN queued' = 1..(Len(queued) + 1)
        /\ queued'[Len(queued) + 1] = x /\ \A i \in 1..Len(queued) : queued'[i] = queued[i]
        /\ Len(queued) \in Nat
    BY <1>1, <1>2, AppendProperties, LenProperties
  <2>3. ASSUME NEW i \in DOMAIN queued' PROVE i \in DOMAIN queued \/ i = Len(queued) + 1
    BY <2>2
  <2> QED BY <2>1, <2>2, <2>3
<1> QED BY <1>3, <1>4 DEF OwedInv, IsSet

(* The daemon takes the oldest request, and carries it out if it sets a     *)
(* configuration.                                                           *)
LEMMA Taken ==
  ASSUME PairingInv, OwedInv, peer, sent # <<>>, sent' = Tail(sent),
         UNCHANGED <<queued, peer, owed, fate>>,
         IF IsSet(Head(sent)) THEN cfg' = Head(sent).cfg ELSE cfg' = cfg
  PROVE  OwedInv'
<1>1. PICK S : S = Requests(Others) /\ sent \in Seq(S) /\ queued \in Seq(S) /\ Line \in Seq(S)
  BY LineFits
<1>2. Line # <<>> /\ Head(Line) = Head(sent) /\ Line' = Tail(Line)
  BY <1>1, OneLine DEF Line
<1>3. ASSUME owed # None, fate = "kept" PROVE LastSuits(Line', cfg', owed')
  <2>1. IF IsSet(Head(Line)) THEN cfg' = Head(Line).cfg ELSE cfg' = cfg
    BY <1>2
  <2>2. LastSuits(Line, cfg, owed)
    BY <1>3 DEF OwedInv
  <2>3. LastSuits(Tail(Line), cfg', owed)
    BY <1>1, <1>2, <2>1, <2>2, Leaves
  <2> QED BY <1>2, <2>3
<1> QED BY <1>3 DEF OwedInv

(* The other client writes into the present configuration, or takes back    *)
(* what was paired, unless that is yet to come.                             *)
LEMMA RivalOwes ==
  ASSUME PairingInv, OwedInv, RivalWrites PROVE OwedInv'
<1>1. UNCHANGED <<sent, queued, peer, owed>>
  BY DEF RivalWrites, tray, wire
<1>2. CASE fate' # "kept"
  BY <1>2, OwedCleared
<1>3. CASE cfg' = [cfg EXCEPT !.other = 1] /\ fate' = fate
  <2>1. cfg'.keys = cfg.keys /\ cfg'.path = cfg.path /\ cfg'.hint = cfg.hint
    BY <1>3 DEF PairingInv, Cfg
  <2>2. \A d : Suits(cfg, d) => Suits(cfg', d)
    BY <2>1 DEF Suits
  <2>3. \A q, d : LastSuits(q, cfg, d) => LastSuits(q, cfg', d)
    BY <2>2 DEF LastSuits
  <2> QED BY <1>1, <1>3, <2>3 DEF OwedInv, Line, IsSet
<1>4. CASE SetConfigUnderWay /\ fate' = fate
  <2>1. Line' = Line
    BY <1>1 DEF Line
  <2>2. \A d : LastSuits(Line, cfg, d) => LastSuits(Line, cfg', d)
    BY <1>4, UnderWay, LineDecides
  <2> QED BY <1>1, <1>4, <2>1, <2>2 DEF OwedInv, IsSet
<1> QED BY <1>2, <1>3, <1>4 DEF RivalWrites

(* What the daemon does with a request. *)
LEMMA DaemonOwes ==
  ASSUME PairingInv, OwedInv, DaemonStep PROVE OwedInv'
<1>1. UNCHANGED <<queued, peer>> /\ peer /\ sent # <<>> /\ sent' = Tail(sent)
  BY DEF DaemonStep, ServeGetConfig, ServeToggle, ServeSetConfig, RefuseSetConfig,
         ServeLearnRemote, RefuseLearnRemote, Answer, Take
<1>2. CASE ServeSetConfig
  <2>1. cfg' = Head(sent).cfg /\ IsSet(Head(sent)) /\ UNCHANGED <<owed, fate>>
    BY <1>2 DEF ServeSetConfig, Answer, history, IsSet
  <2> QED BY <1>1, <2>1, Taken
<1>3. CASE RefuseSetConfig
  <2>1. /\ IsSet(Head(sent)) /\ UNCHANGED <<cfg, owed>>
        /\ fate' = IF SetConfigUnderWay' THEN fate ELSE "refused"
    BY <1>3 DEF RefuseSetConfig, Answer, daemon, IsSet
  <2>2. CASE ~SetConfigUnderWay'
    BY <2>1, <2>2, OwedCleared
  <2>3. CASE SetConfigUnderWay'
    <3>1. PICK S : /\ S = Requests(Others) /\ sent \in Seq(S) /\ queued \in Seq(S)
                   /\ Line \in Seq(S)
      BY LineFits
    <3>2. Line # <<>> /\ Head(Line) = Head(sent) /\ Line' = Tail(Line)
      BY <1>1, <3>1, OneLine DEF Line
    <3>3. sent' \in Seq(S) /\ queued' \in Seq(S)
      BY <1>1, <3>1, HeadTailProperties
    <3>4. \E i \in DOMAIN Line' : IsSet(Line'[i])
      BY <2>3, <3>3, OnLine DEF Line, SetConfigUnderWay, IsSet
    <3>5. ASSUME owed # None, fate = "kept" PROVE LastSuits(Line', cfg', owed')
      <4>1. LastSuits(Line, cfg, owed)
        BY <3>5 DEF OwedInv
      <4>2. LastSuits(Tail(Line), Head(Line).cfg, owed)
        BY <2>1, <3>1, <3>2, <4>1, Leaves
      <4> QED BY <2>1, <3>2, <3>4, <4>2, LineDecides
    <3> QED BY <1>1, <2>1, <2>3, <3>5 DEF OwedInv
  <2> QED BY <2>2, <2>3
<1>4. CASE ServeGetConfig \/ ServeToggle \/ ServeLearnRemote \/ RefuseLearnRemote
  <2>1. UNCHANGED <<cfg, owed, fate>>
    BY <1>4 DEF ServeGetConfig, ServeToggle, ServeLearnRemote, RefuseLearnRemote, daemon,
                history
  <2>2. ~IsSet(Head(sent))
    BY <1>4 DEF ServeGetConfig, ServeToggle, ServeLearnRemote, RefuseLearnRemote, Answer,
                Take, IsSet
  <2> QED BY <1>1, <2>1, <2>2, Taken
<1> QED BY <1>2, <1>3, <1>4 DEF DaemonStep

(* A daemon that dies with a request of the tray on its way never reads it. *)
LEMMA DeathOwes ==
  ASSUME PairingInv, OwedInv, DaemonDies PROVE OwedInv'
<1>1. UNCHANGED <<cfg, queued, owed>> /\ sent' = <<>>
  BY DEF DaemonDies, HangUp
<1>2. CASE SetConfigUnderWay
  BY <1>2, OwedCleared DEF DaemonDies
<1>3. CASE ~SetConfigUnderWay
  <2>1. fate' = fate
    BY <1>3 DEF DaemonDies
  <2>2. \A i \in DOMAIN queued : ~IsSet(queued[i])
    BY <1>3 DEF SetConfigUnderWay, IsSet
  <2>3. Line' = queued
    BY <1>1, LineFits, ConcatEmptySeq DEF Line
  <2>4. ASSUME owed # None, fate = "kept" PROVE LastSuits(Line', cfg', owed')
    <3>1. Suits(cfg, owed)
      BY <1>3, <2>4, UnderWay, NothingOnLine DEF OwedInv
    <3> QED BY <1>1, <2>2, <2>3, <3>1, NothingOnLine
  <2> QED BY <1>1, <2>1, <2>2, <2>4 DEF OwedInv, IsSet
<1> QED BY <1>2, <1>3

(* A new connection has nothing of the old one. *)
LEMMA ConnectionOwes ==
  ASSUME PairingInv, OwedInv, TrayConnects PROVE OwedInv'
<1>1. /\ UNCHANGED <<cfg, owed, fate>> /\ peer' /\ queued' = <<>>
      /\ sent' = <<[op |-> "GetConfig", era |-> era']>>
      /\ ~peer /\ sent = <<>>
  BY DEF TrayConnects, Connect, Resync, Request, daemon, history, PairingInv, Base
<1>2. Line' = <<[op |-> "GetConfig", era |-> era']>>
  <2>1. PICK r : r = [op |-> "GetConfig", era |-> era']
    OBVIOUS
  <2>2. <<r>> \in Seq({r})
    OBVIOUS
  <2>3. <<r>> \o <<>> = <<r>>
    BY <2>2, ConcatEmptySeq
  <2> QED BY <1>1, <2>1, <2>3 DEF Line
<1>3. \A i \in DOMAIN Line' : ~IsSet(Line'[i])
  BY <1>2 DEF IsSet
<1>4. ASSUME owed # None, fate = "kept" PROVE LastSuits(Line', cfg', owed')
  <2>1. \A i \in DOMAIN queued : ~IsSet(queued[i])
    BY <1>1, <1>4 DEF OwedInv
  <2>2. ~SetConfigUnderWay
    BY <1>1, <2>1 DEF SetConfigUnderWay, IsSet
  <2>3. Suits(cfg, owed)
    BY <1>4, <2>2, UnderWay, NothingOnLine DEF OwedInv
  <2> QED BY <1>1, <1>3, <2>3, NothingOnLine
<1> QED BY <1>1, <1>4 DEF OwedInv

(* The supervisor writes, notices the end, or applies an answer.            *)
LEMMA SessionOwes ==
  ASSUME PairingInv, OwedInv, TrayWorks PROVE OwedInv'
<1>1. PICK S : S = Requests(Others) /\ sent \in Seq(S) /\ queued \in Seq(S) /\ Line \in Seq(S)
  BY LineFits
<1>2. /\ cfg' = cfg
      /\ ReportsPaired => /\ owed' = Head(answers).device
                          /\ fate' = IF peer THEN "kept" ELSE "lost"
      /\ ~ReportsPaired => UNCHANGED <<owed, fate>>
  BY DEF TrayWorks, daemon
<1>3. CASE WriteRequest
  <2>1. /\ sent' = Append(sent, Head(queued)) /\ queued' = Tail(queued) /\ queued # <<>>
        /\ UNCHANGED <<answers, peer>> /\ peer
    BY <1>3 DEF WriteRequest
  <2>2. Line' = Line
    BY <1>1, <2>1, OneLine DEF Line
  <2>3. ~ReportsPaired
    <3>1. answers \in Seq(Answers(Others))
      BY DEF PairingInv, Fits, WireFits
    <3>2. answers # <<>> => answers # Tail(answers)
      BY <3>1
    <3> QED BY <2>1, <3>2 DEF ReportsPaired
  <2> QED BY <1>2, <2>1, <2>2, <2>3 DEF OwedInv
<1>4. CASE WriteFails
  <2>1. queued # <<>> /\ ~peer /\ queued' = Tail(queued) /\ UNCHANGED <<sent, peer>>
        /\ sent = <<>>
    BY <1>4 DEF WriteFails, EndSession, PairingInv, Base
  <2>2. UNCHANGED <<owed, fate>>
    BY <1>2, <1>4 DEF WriteFails, EndSession, ReportsPaired
  <2> SUFFICES ASSUME owed # None, fate = "kept" PROVE OwedInv'
    BY <2>2 DEF OwedInv
  <2>3. \A i \in DOMAIN queued : ~IsSet(queued[i])
    BY <2>1 DEF OwedInv
  <2>4. \A i \in DOMAIN queued' : ~IsSet(queued'[i])
    <3>1. /\ queued' \in Seq(S) /\ Len(queued') = Len(queued) - 1
          /\ \A i \in 1..Len(queued') : queued'[i] = queued[i + 1]
          /\ DOMAIN queued = 1..Len(queued) /\ Len(queued) \in Nat
      BY <1>1, <2>1, HeadTailProperties, LenProperties
    <3>2. DOMAIN queued' = 1..Len(queued')
      BY <3>1, LenProperties
    <3>3. ASSUME NEW i \in DOMAIN queued'
          PROVE  i + 1 \in DOMAIN queued /\ queued'[i] = queued[i + 1]
      BY <3>1, <3>2
    <3> QED BY <2>3, <3>3
  <2>5. Line = queued /\ Line' = queued'
    <3>1. queued' \in Seq(S)
      BY <1>1, <2>1, HeadTailProperties
    <3> QED BY <1>1, <2>1, <3>1, OneLine DEF Line
  <2>6. LastSuits(Line', cfg', owed')
    BY <1>2, <2>2, <2>3, <2>4, <2>5, NothingOnLine DEF OwedInv
  <2> QED BY <2>2, <2>4, <2>6 DEF OwedInv, IsSet
<1>5. CASE EndOfStream \/ ShowOffline
  <2>1. UNCHANGED <<sent, queued, peer>> /\ ~ReportsPaired
    BY <1>5 DEF EndOfStream, EndSession, ShowOffline, wire, ReportsPaired
  <2> QED BY <1>2, <2>1, OwedKept
<1>6. CASE ApplyResponse
  <2> DEFINE a == Head(answers)
  <2>1. /\ UNCHANGED <<sent, peer, era>> /\ answers # <<>> /\ answers' = Tail(answers)
        /\ Applied(a) /\ a \in Answers(Others) /\ phase = "session"
    BY <1>6, Queue DEF ApplyResponse, PairingInv, Fits, WireFits
  <2>2. ReportsPaired <=> a.kind = "Learned" /\ pairing' = "Done"
    BY <1>6, <2>1 DEF ReportsPaired, ApplyResponse
  <2> HIDE DEF a
  <2>3. CASE a.kind # "Learned"
    <3>1. queued' = queued
      BY <2>1, <2>3 DEF Applied
    <3>2. UNCHANGED <<owed, fate>>
      BY <1>2, <2>2, <2>3
    <3> QED BY <1>2, <2>1, <3>1, <3>2, OwedKept
  <2>4. CASE a.kind = "Learned" /\ trayCfg = None
    <3>1. queued' = Append(queued, Request("GetConfig")) /\ pairing' = "Refused"
      BY <2>1, <2>4 DEF Applied, FinishPairing
    <3>2. UNCHANGED <<owed, fate>>
      BY <1>2, <2>2, <3>1
    <3>3. Request("GetConfig") \in Requests(Others) /\ ~IsSet(Request("GetConfig"))
      BY DEF Request, Requests, IsSet
    <3> QED BY <1>2, <2>1, <3>1, <3>2, <3>3, QueuesOther
  <2>5. CASE a.kind = "Learned" /\ trayCfg # None
    <3> DEFINE c == ApplyLearned(trayCfg, a)
    <3>1. queued' = Append(queued, SetConfig(c)) /\ pairing' = "Done"
      BY <2>1, <2>5 DEF Applied, FinishPairing
    <3>2. trayCfg \in Cfg(Others) /\ a \in Presses
      BY <2>1, <2>5 DEF PairingInv, Known, Answers
    <3>3. Suits(c, a.device) /\ c \in Cfg(Others) /\ a.device \in Device
      BY <3>2, AppliedSuits, ApplyLearnedType, PressSays
    <3> HIDE DEF c
    <3>4. SetConfig(c) \in S /\ IsSet(SetConfig(c)) /\ SetConfig(c).cfg = c
      BY <1>1, <3>3 DEF SetConfig, Requests, IsSet
    <3>5. Line' = Append(Line, SetConfig(c))
      BY <1>1, <2>1, <3>1, <3>4, OneLine DEF Line
    <3>6. LastSuits(Line', cfg', a.device)
      BY <1>1, <3>3, <3>4, <3>5, Joins
    <3>7. owed' = a.device /\ fate' = IF peer THEN "kept" ELSE "lost"
      BY <1>2, <2>2, <2>5, <3>1 DEF a
    <3> QED BY <2>1, <3>3, <3>6, <3>7 DEF OwedInv
  <2> QED BY <2>3, <2>4, <2>5
<1> QED BY <1>3, <1>4, <1>5, <1>6 DEF TrayWorks, Session

-----------------------------------------------------------------------------
(* Every step keeps what is owed on its way or in force. *)
LEMMA OwedInductive == Spec => []OwedInv
<1>1. Init => OwedInv
  BY PairingAssumption DEF Init, OwedInv
<1>2. PairingInv /\ OwedInv /\ [Next]_vars => OwedInv'
  <2> SUFFICES ASSUME PairingInv, OwedInv, [Next]_vars PROVE OwedInv'
    OBVIOUS
  <2> USE DEF devices, daemon, tray, wire, history
  <2>1. CASE UNCHANGED <<sent, queued, peer, owed, fate, cfg>>
    BY <2>1, OwedKept
  <2>2. CASE HardwareChanges
    BY <2>2, OwedKept DEF HardwareChanges
  <2>3. CASE UserPicks
    <3>1. PICK op \in {"Toggle", "LearnRemote"} : queued' = Append(queued, Request(op))
      BY <2>3 DEF UserPicks, ClickToggle, ClickPair
    <3>2. Request(op) \in Requests(Others) /\ ~IsSet(Request(op))
      BY DEF Request, Requests, IsSet
    <3>3. UNCHANGED <<sent, peer, owed, fate, cfg>>
      BY <2>3 DEF UserPicks, ClickToggle, ClickPair, Click
    <3> QED BY <3>1, <3>2, <3>3, QueuesOther
  <2>4. CASE \E n \in Nodes : Press(n)
    BY <2>1, <2>4 DEF Press, Pay
  <2>5. CASE AttemptSettles \/ AttemptTimesOut \/ HotplugWorks \/ MachineRescans
             \/ DaemonStarts \/ UNCHANGED vars
    BY <2>1, <2>5
    DEF AttemptSettles, AttemptTimesOut, Pay, HotplugWorks, HotplugStep, HotplugStarts,
        ReadEvent, Debounce, MachineRescans, Rescan, DaemonStarts, vars
  <2> QED BY <2>2, <2>3, <2>4, <2>5, RivalOwes, DaemonOwes, DeathOwes, ConnectionOwes,
             SessionOwes DEF Next
<1> QED BY <1>1, <1>2, PairingInductive, PTL DEF Spec

(* Among nodes there is a first one. *)
LEMMA FirstIsLeast ==
  ASSUME NEW S \in SUBSET Nat, S # {}
  PROVE  First(S) \in S /\ \A m \in S : First(S) <= m
<1> DEFINE Less == OpToRel(<, Nat)
<1>1. \A m, n \in Nat : <<m, n>> \in Less <=> m < n
  BY DEF OpToRel
<1>2. IsWellFoundedOn(Less, Nat)
  BY NatLessThanWellFounded
<1> HIDE DEF Less
<1>3. PICK n \in S : \A m \in S : ~(<<m, n>> \in Less)
  BY <1>2, WFMin
<1>4. ASSUME NEW m \in S PROVE n <= m
  <2>1. m \in Nat /\ n \in Nat /\ ~(m < n)
    BY <1>1, <1>3
  <2> QED BY <2>1
<1> QED BY <1>4 DEF First

(* A name that a device bears is found, on that node or before it.          *)
LEMMA FoundByName ==
  ASSUME PairingInv, NEW n \in Listed, NameOf[at[n]] # None
  PROVE  /\ ByHint(NameOf[at[n]]) \in Listed /\ ByHint(NameOf[at[n]]) <= n
         /\ <<NameOf[at[n]], NameOf[at[ByHint(NameOf[at[n]])]]>> \in Matches
<1> DEFINE found == {m \in Listed : <<NameOf[at[n]], NameOf[at[m]]>> \in Matches}
<1>1. at[n] \in Device /\ Listed \subseteq Nodes /\ Nodes \subseteq Nat
  BY DevicesAssumption DEF Listed, PairingInv, Base
<1>2. n \in found
  BY <1>1, DevicesAssumption
<1>3. First(found) \in found /\ \A m \in found : First(found) <= m
  BY <1>1, <1>2, FirstIsLeast
<1>4. ByHint(NameOf[at[n]]) = First(found)
  BY <1>2 DEF ByHint
<1> QED BY <1>2, <1>3, <1>4

(* Whatever is unplugged, restarted or edited in between, the device the    *)
(* tray reported as paired, and whose report was neither refused nor lost   *)
(* nor undone, toggles the guard once nothing is on its way, or the one     *)
(* that bears its name at an earlier node does; unless its key has no name, *)
(* or the reader has failed since.                                          *)
THEOREM PairedMeansHeard == Spec => []PairedRemoteHeard
<1>1. PairingInv /\ OwedInv /\ ReadersMatch => PairedRemoteHeard
  <2> SUFFICES ASSUME PairingInv, OwedInv, ReadersMatch, up, Settled, ~unseen,
                      owed # None, fate = "kept", ~SetConfigUnderWay
               PROVE  /\ KeyOf[owed] \in cfg.keys
                      /\ KeyOf[owed] \notin Unknown =>
                           \A n \in Listed : at[n] = owed =>
                             IF NameOf[owed] = None THEN cfg.path = n => Attended(n)
                             ELSE \E m \in Listed :
                                    /\ m <= n
                                    /\ <<NameOf[owed], NameOf[at[m]]>> \in Matches
                                    /\ Attended(m)
    BY DEF PairedRemoteHeard
  <2>1. ReadersOf(cfg)
    BY DEF ReadersMatch
  <2>2. Suits(cfg, owed)
    BY UnderWay, NothingOnLine DEF OwedInv
  <2>3. ASSUME KeyOf[owed] \notin Unknown, RemoteNode(cfg) \in Listed
        PROVE  Attended(RemoteNode(cfg))
    <3>1. RemoteNode(cfg) \in Nodes /\ Parsed(cfg.keys) # {}
      BY <2>2, <2>3 DEF Suits, Listed, Parsed
    <3>2. Roles(cfg)[RemoteNode(cfg)] = "remote"
      BY <2>3, <3>1 DEF Roles
    <3> QED BY <2>1, <3>1, <3>2 DEF ReadersOf, Attended
  <2>4. ASSUME KeyOf[owed] \notin Unknown, NEW n \in Listed, at[n] = owed,
               NameOf[owed] = None, cfg.path = n
        PROVE  Attended(n)
    <3>1. n # None
      BY DevicesAssumption DEF Listed
    <3> QED BY <2>3, <2>4, <3>1 DEF RemoteNode
  <2>5. ASSUME KeyOf[owed] \notin Unknown, NEW n \in Listed, at[n] = owed,
               NameOf[owed] # None
        PROVE  \E m \in Listed : /\ m <= n /\ <<NameOf[owed], NameOf[at[m]]>> \in Matches
                                 /\ Attended(m)
    <3>1. RemoteNode(cfg) = ByHint(NameOf[owed])
      BY <2>2, <2>5 DEF Suits, RemoteNode
    <3> QED BY <2>3, <2>5, <3>1, FoundByName
  <2>6. KeyOf[owed] \in cfg.keys
    BY <2>2 DEF Suits
  <2> QED BY <2>4, <2>5, <2>6
<1> QED BY <1>1, PairingInductive, OwedInductive, ReadersAlwaysMatch, PTL
=============================================================================
