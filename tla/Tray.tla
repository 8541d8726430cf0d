-------------------------------- MODULE Tray --------------------------------
(***************************************************************************)
(* The tray (alertu-gui): a menu whose entries queue requests on an        *)
(* unbounded channel, and a supervisor that holds one connection to the    *)
(* daemon after another, drains the channel into it and applies what comes *)
(* back.  How long it sleeps between two connections is left out.          *)
(*                                                                         *)
(* The far end of the connection is the two sequences `sent` and `answers` *)
(* and whether the peer is alive: the module that composes tray and daemon *)
(* says what happens there.                                                *)
(***************************************************************************)
EXTENDS Naturals, Sequences, Config

CONSTANT
  MaxClicks     \* bound on the entries the user picks

VARIABLES
  phase,        \* of the supervisor: "offline", "session", "ended"
  queued,       \* requests on the channel, with the connection they are for
  sent,         \* requests written to the socket and not yet read there
  answers,      \* responses written by the daemon and not yet read here
  peer,         \* the daemon's end of the connection is open
  trayCfg,      \* AlertuTray::cfg
  pairing,      \* AlertuTray::pairing
  era,          \* history: connections so far
  clicks        \* bound: entries picked so far

wire == <<queued, sent, answers, peer>>
tray == <<phase, wire, trayCfg, pairing, era, clicks>>

(* A request, with the connection that was shown when it was made.          *)
Request(op) == [op |-> op, era |-> era]
SetConfig(c) == [op |-> "SetConfig", era |-> era, cfg |-> c]

TrayInit ==
  /\ phase = "offline"
  /\ queued = <<>> /\ sent = <<>> /\ answers = <<>> /\ peer = FALSE
  /\ trayCfg = None /\ pairing = "Idle"
  /\ era = 0 /\ clicks = 0

Connected == phase # "offline"

-----------------------------------------------------------------------------
(* The menu.  Entries are disabled unless the tray shows that it is         *)
(* connected, which it still does while a lost connection is unnoticed.     *)

Click ==
  /\ Connected /\ clicks < MaxClicks
  /\ clicks' = clicks + 1
  /\ UNCHANGED <<phase, sent, answers, peer, trayCfg, era>>

ClickToggle ==
  /\ Click
  /\ queued' = Append(queued, Request("Toggle"))
  /\ UNCHANGED pairing

(* The entry is an inactive row while an attempt is awaited. *)
ClickPair ==
  /\ Click /\ pairing # "Waiting"
  /\ pairing' = "Waiting"
  /\ queued' = Append(queued, Request("LearnRemote"))

-----------------------------------------------------------------------------
(* run_session *)

(* What a session begins with; Subscribe and ListDevices go with it, whose  *)
(* answers and pushes only change what the tray displays.                   *)
Resync == <<Request("GetConfig")>>

(* Form that replays what was queued offline. *)
ConnectKeeping ==
  /\ phase = "offline"
  /\ phase' = "session" /\ era' = era + 1
  /\ sent' = <<>> \o Resync' /\ answers' = <<>> /\ peer' = TRUE
  /\ UNCHANGED <<queued, trayCfg, pairing, clicks>>

(* Connected: what the channel holds is dropped, then the tray asks for     *)
(* pushes, configuration and devices.                                       *)
Connect ==
  /\ phase = "offline"
  /\ phase' = "session" /\ era' = era + 1
  /\ queued' = <<>> /\ sent' = Resync' /\ answers' = <<>> /\ peer' = TRUE
  /\ UNCHANGED <<trayCfg, pairing, clicks>>

(* A request goes from the channel to the socket ... *)
WriteRequest ==
  /\ phase = "session" /\ queued # <<>> /\ peer
  /\ sent' = Append(sent, Head(queued))
  /\ queued' = Tail(queued)
  /\ UNCHANGED <<phase, answers, peer, trayCfg, pairing, era, clicks>>

EndSession ==
  /\ phase' = "ended"
  /\ answers' = <<>>
  /\ UNCHANGED <<sent, peer, trayCfg, pairing, era, clicks>>

(* ... or, the daemon being gone, nowhere: the session is over, and what    *)
(* the daemon still answered is not read.                                   *)
WriteFails ==
  /\ phase = "session" /\ queued # <<>> /\ ~peer
  /\ queued' = Tail(queued)
  /\ EndSession

(* Everything the daemon wrote has been read, and it is gone. *)
EndOfStream ==
  /\ phase = "session" /\ answers = <<>> /\ ~peer
  /\ EndSession
  /\ UNCHANGED queued

(* main: set_connected(false), then the next attempt after a while.         *)
ShowOffline ==
  /\ phase = "ended"
  /\ phase' = "offline"
  /\ UNCHANGED <<wire, trayCfg, pairing, era, clicks>>

-----------------------------------------------------------------------------
(* apply_response, for the response a.                                      *)

(* finish_pairing with a press: the copy of the configuration is changed    *)
(* and all of it sent; without a copy there is nothing to send but a        *)
(* request for one.                                                         *)
FinishPairing(a) ==
  LET known == trayCfg # None
      c     == ApplyLearned(trayCfg, a)
  IN  /\ trayCfg' = IF known THEN c ELSE trayCfg
      /\ queued'  = Append(queued, IF known THEN SetConfig(c) ELSE Request("GetConfig"))
      /\ pairing' = IF known THEN "Done" ELSE "Refused"

(* Form that keeps the first copy of the configuration it was sent.         *)
AppliedOnce(a) ==
  \/ /\ a.kind = "Ok"
     /\ UNCHANGED <<queued, trayCfg, pairing>>
  \/ /\ a.kind = "Config"
     /\ trayCfg' = IF trayCfg = None THEN a.cfg ELSE trayCfg
     /\ UNCHANGED <<queued, pairing>>
  \/ /\ a.kind = "Learned"
     /\ FinishPairing(a)
  \/ /\ a.kind \in {"TimedOut", "Error"}
     /\ pairing' = "NothingPressed"
     /\ UNCHANGED <<queued, trayCfg>>

Applied(a) ==
  \/ /\ a.kind = "Ok"
     /\ UNCHANGED <<queued, trayCfg, pairing>>
  \/ /\ a.kind = "Config"
     /\ trayCfg' = a.cfg
     /\ UNCHANGED <<queued, pairing>>
  \/ /\ a.kind = "Learned"
     /\ FinishPairing(a)
  \/ /\ a.kind = "TimedOut"
     /\ pairing' = "NothingPressed"
     /\ UNCHANGED <<queued, trayCfg>>
  \/ /\ a.kind = "Error"
     /\ pairing' = IF pairing = "Waiting" THEN "Refused" ELSE pairing
     /\ UNCHANGED <<queued, trayCfg>>

ApplyResponse ==
  /\ phase = "session" /\ answers # <<>>
  /\ Applied(Head(answers))
  /\ answers' = Tail(answers)
  /\ UNCHANGED <<phase, sent, peer, era, clicks>>

Session == WriteRequest \/ WriteFails \/ EndOfStream \/ ShowOffline \/ ApplyResponse

-----------------------------------------------------------------------------
(* The daemon's end. *)

(* The handler takes the next request and writes a response ... *)
Answer(op, a) ==
  /\ peer /\ sent # <<>> /\ Head(sent).op = op
  /\ sent' = Tail(sent)
  /\ answers' = Append(answers, a)
  /\ UNCHANGED <<phase, queued, peer, trayCfg, pairing, era, clicks>>

(* ... or owes it, and reads no further request meanwhile ... *)
Take(op) ==
  /\ peer /\ sent # <<>> /\ Head(sent).op = op
  /\ sent' = Tail(sent)
  /\ UNCHANGED <<phase, queued, answers, peer, trayCfg, pairing, era, clicks>>

(* ... until later. *)
Pay(a) ==
  /\ answers' = IF peer THEN Append(answers, a) ELSE answers
  /\ UNCHANGED <<phase, queued, sent, peer, trayCfg, pairing, era, clicks>>

HangUp ==
  /\ peer' = FALSE /\ sent' = <<>>
  /\ UNCHANGED <<phase, queued, answers, trayCfg, pairing, era, clicks>>

-----------------------------------------------------------------------------
TrayTypeOK ==
  /\ phase \in {"offline", "session", "ended"}
  /\ peer \in BOOLEAN
  /\ pairing \in {"Idle", "Waiting", "Done", "NothingPressed", "Refused"}
  /\ era \in Nat /\ clicks \in 0..MaxClicks
  /\ \A i \in DOMAIN queued : queued[i].era \in 0..era
  /\ \A i \in DOMAIN sent : sent[i].era \in 0..era
=============================================================================
