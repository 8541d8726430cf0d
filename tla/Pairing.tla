------------------------------ MODULE Pairing ------------------------------
(***************************************************************************)
(* A remote is paired from the tray: the tray's dialog, the attempt that   *)
(* the daemon runs for it, the configuration that comes back, the readers  *)
(* spawned from it and the hotplug watch that keeps them on the device,    *)
(* with another client that writes the configuration and a daemon that may *)
(* die and come back.                                                      *)
(*                                                                         *)
(* The guard is Idle or Active here (Armed, Triggered, Alarm), and a       *)
(* handler of the state machine is one step: see Machine.                  *)
(***************************************************************************)
EXTENDS Learn, Tray

CONSTANTS
  Plugged,       \* the devices plugged in at first
  FirstConfig,   \* the configuration the daemon starts with
  MaxDeaths      \* bound on the daemon's deaths

ASSUME PairingAssumption ==
  /\ Plugged \in [Nodes -> Device \cup {None}]
  /\ \A n, m \in Nodes : Plugged[n] = Plugged[m] /\ Plugged[n] # None => n = m
  /\ FirstConfig \in [hint : {FirstConfig.hint}, path : {FirstConfig.path},
                      keys : {FirstConfig.keys}, other : {FirstConfig.other}]
  /\ Valid(FirstConfig)
  /\ None \notin Nat /\ MaxClicks \in Nat /\ MaxDeaths \in Nat

VARIABLES
  up,            \* the daemon runs
  state,         \* Machine::state
  cfg,           \* Machine::cfg, and the file
  edited,        \* history: the connection during which the other client wrote
  owed,          \* history: the device the tray has last reported as paired
  fate,          \* history: what has become of that report: "kept" so far, its
                 \* write "refused" or "lost", or "undone" by the other client
  deaths         \* bound: deaths so far

daemon  == <<up, state, cfg>>
history == <<edited, owed, fate>>
vars == <<devices, attempt, tray, daemon, history, deaths>>

Init ==
  /\ at = Plugged /\ granted = {n \in Nodes : at[n] # None}
  /\ cfg = FirstConfig /\ reader = Roles(cfg)
  /\ inotify = "off" /\ dirty = FALSE /\ rescan = FALSE /\ unseen = FALSE
  /\ moves = 0
  /\ attempt = None
  /\ TrayInit
  /\ up = TRUE /\ state = "Idle"
  /\ edited = None /\ owed = None /\ fate = "kept" /\ deaths = 0

-----------------------------------------------------------------------------
(* Hardware and the people around it. *)

HardwareChanges ==
  /\ \/ \E d \in Device, n \in Nodes : Plug(d, n) /\ UNCHANGED attempt
     \/ \E n \in Nodes : Grant(n) /\ UNCHANGED attempt
     \/ \E n \in Nodes : Unplug(n) /\ Deafen(n)
     \/ \E n \in Nodes : ReadFails(n) /\ (Deafen(n) \/ UNCHANGED attempt)
  /\ UNCHANGED <<tray, daemon, history, deaths>>

Toggled == IF state = "Idle" THEN "Active" ELSE "Idle"

(* A key is pressed: the pairing attempt and the readers hear it alike.     *)
Press(n) ==
  /\ up /\ n \in Listed
  /\ \/ LearnFrom(n) /\ Pay(Learned(n, at[n]))
     \/ ~Hears(n) /\ UNCHANGED <<attempt, tray>>
  /\ state' = IF reader[n] = "remote" /\ KeyOf[at[n]] \in Parsed(cfg.keys)
              THEN Toggled ELSE state
  /\ UNCHANGED <<devices, up, cfg, history, deaths>>

(* A SetConfig of the tray has not reached the daemon yet. *)
SetConfigUnderWay ==
  \/ \E i \in DOMAIN queued : queued[i].op = "SetConfig"
  \/ \E i \in DOMAIN sent : sent[i].op = "SetConfig"

UserPicks ==
  /\ ClickToggle \/ ClickPair
  /\ UNCHANGED <<devices, attempt, daemon, history, deaths>>

(* Another client writes a setting, once: into the present configuration,   *)
(* or into a copy it read before any of this.                               *)
RivalWrites ==
  /\ up /\ edited = None
  /\ edited' = era
  /\ \/ cfg' = [cfg EXCEPT !.other = 1] /\ UNCHANGED fate
     \/ /\ cfg' = [FirstConfig EXCEPT !.other = 1]
        /\ fate' = IF SetConfigUnderWay THEN fate ELSE "undone"
  /\ SpawnReaders(cfg') /\ UNCHANGED owed
  /\ UNCHANGED <<at, granted, hotplug, moves, attempt, tray, up, state, deaths>>

-----------------------------------------------------------------------------
(* The daemon. *)

(* The handler is not busy with a pairing. *)
Serving == up /\ attempt = None

ServeGetConfig ==
  /\ Serving
  /\ Answer("GetConfig", [kind |-> "Config", cfg |-> cfg])
  /\ UNCHANGED <<devices, attempt, daemon, history, deaths>>

ServeToggle ==
  /\ Serving
  /\ Answer("Toggle", [kind |-> "Ok"])
  /\ state' = Toggled
  /\ UNCHANGED <<devices, attempt, up, cfg, history, deaths>>

ServeSetConfig ==
  /\ Serving
  /\ Answer("SetConfig", [kind |-> "Ok"])
  /\ Valid(Head(sent).cfg)
  /\ cfg' = Head(sent).cfg
  /\ SpawnReaders(cfg')
  /\ UNCHANGED <<at, granted, hotplug, moves, attempt, up, state, history, deaths>>

(* The file could not be written: nothing changes.  What the tray reports   *)
(* is not withdrawn.                                                        *)
RefuseSetConfig ==
  /\ Serving
  /\ Answer("SetConfig", [kind |-> "Error"])
  /\ fate' = IF SetConfigUnderWay' THEN fate ELSE "refused"
  /\ UNCHANGED <<devices, attempt, daemon, edited, owed, deaths>>

(* Machine::learn_remote: refused unless Idle, otherwise detached.          *)
ServeLearnRemote ==
  /\ Serving /\ state = "Idle"
  /\ Take("LearnRemote") /\ Listen
  /\ UNCHANGED <<devices, daemon, history, deaths>>

(* Form that refuses without a word. *)
IgnoreLearnRemote ==
  /\ Serving
  /\ \/ state # "Idle" /\ UNCHANGED attempt
     \/ state = "Idle" /\ CannotListen
  /\ Take("LearnRemote")
  /\ UNCHANGED <<devices, daemon, history, deaths>>

RefuseLearnRemote ==
  /\ Serving
  /\ \/ state # "Idle" /\ UNCHANGED attempt
     \/ state = "Idle" /\ CannotListen
  /\ Answer("LearnRemote", [kind |-> "Error"])
  /\ UNCHANGED <<devices, daemon, history, deaths>>

AttemptSettles ==
  /\ Settle
  /\ UNCHANGED <<devices, tray, daemon, history, deaths>>

AttemptTimesOut ==
  /\ TimeOut /\ Pay([kind |-> "TimedOut"])
  /\ UNCHANGED <<devices, daemon, history, deaths>>

HotplugWorks ==
  /\ up
  /\ HotplugStep
  /\ UNCHANGED <<attempt, tray, daemon, history, deaths>>

MachineRescans ==
  /\ up
  /\ Rescan(cfg)
  /\ UNCHANGED <<attempt, tray, daemon, history, deaths>>

(* What it wrote can still be read from the socket. *)
DaemonDies ==
  /\ up /\ deaths < MaxDeaths
  /\ up' = FALSE /\ deaths' = deaths + 1
  /\ DevicesLost /\ attempt' = None /\ HangUp
  /\ fate' = IF SetConfigUnderWay THEN "lost" ELSE fate
  /\ UNCHANGED <<state, cfg, edited, owed>>

(* Machine::run lists and spawns; hotplug::watch, a task beside it, has not *)
(* begun to watch.                                                          *)
DaemonStarts ==
  /\ ~up
  /\ up' = TRUE /\ state' = "Idle"
  /\ SpawnReaders(cfg) /\ unseen' = FALSE
  /\ UNCHANGED <<at, granted, inotify, dirty, rescan, moves>>
  /\ UNCHANGED <<attempt, tray, cfg, history, deaths>>

-----------------------------------------------------------------------------
(* The tray. *)

TrayConnects ==
  /\ up
  /\ Connect
  /\ UNCHANGED <<devices, attempt, daemon, history, deaths>>

(* A step in which the tray applies a press and reports it as paired.       *)
ReportsPaired ==
  /\ phase' = "session" /\ answers # <<>> /\ answers' = Tail(answers)
  /\ Head(answers).kind = "Learned" /\ pairing' = "Done"

(* The report is as good as its word so far, if there is a daemon to write  *)
(* to.                                                                      *)
TrayWorks ==
  /\ Session
  /\ IF ReportsPaired
     THEN owed' = Head(answers).device /\ fate' = IF peer THEN "kept" ELSE "lost"
     ELSE UNCHANGED <<owed, fate>>
  /\ UNCHANGED <<devices, attempt, daemon, edited, deaths>>

-----------------------------------------------------------------------------
DaemonStep == \/ ServeGetConfig \/ ServeToggle \/ ServeSetConfig \/ RefuseSetConfig
              \/ ServeLearnRemote \/ RefuseLearnRemote

Next ==
  \/ HardwareChanges \/ (\E n \in Nodes : Press(n)) \/ UserPicks \/ RivalWrites
  \/ DaemonStep \/ AttemptSettles \/ AttemptTimesOut \/ HotplugWorks \/ MachineRescans
  \/ DaemonDies \/ DaemonStarts
  \/ TrayConnects \/ TrayWorks

Spec == Init /\ [][Next]_vars

(* Tasks are scheduled, timers fire, and inotify can be had.                *)
Fairness ==
  /\ WF_vars(DaemonStep) /\ WF_vars(AttemptSettles) /\ WF_vars(AttemptTimesOut)
  /\ WF_vars(HotplugWorks) /\ WF_vars(MachineRescans)
  /\ WF_vars(TrayConnects) /\ WF_vars(TrayWorks)

FairSpec == Spec /\ Fairness

-----------------------------------------------------------------------------
(* Every variable has a value the code could hold.                          *)
TypeOK ==
  /\ DevicesTypeOK /\ LearnTypeOK /\ TrayTypeOK
  /\ up \in BOOLEAN /\ state \in {"Idle", "Active"}
  /\ Valid(cfg)
  /\ owed \in Device \cup {None} /\ deaths \in 0..MaxDeaths
  /\ fate \in {"kept", "refused", "lost", "undone"}

(* Once a burst of plugging is over and no rescan is under way, the readers *)
(* are exactly those the configuration asks for on the devices that are     *)
(* there, whichever of readers, nodes and configuration changed when.  Left *)
(* out is what changed between the daemon's first listing and its inotify   *)
(* watch, which two independent tasks set up (main.rs:144-152); and a       *)
(* reader that has failed on a device that stayed does not come back by     *)
(* itself (input.rs:136-140).                                               *)
ReadersMatch ==
  up /\ Settled /\ ~unseen => ReadersOf(cfg)

(* Configuration c finds device d by its name, if it has one, and has its   *)
(* key.                                                                     *)
Suits(c, d) ==
  /\ KeyOf[d] \in c.keys
  /\ NameOf[d] # None => c.path = None /\ c.hint = NameOf[d]

(* "A key was learned and written to the daemon" is what the tray's Done    *)
(* means (tray.rs:39), "rather than reporting a success that was never      *)
(* written" (tray.rs:100): once its request is no longer on its way, the    *)
(* configuration suits what was paired, until another client undoes it.     *)
PairedIsWritten ==
  pairing = "Done" /\ owed # None /\ ~SetConfigUnderWay /\ fate # "undone" =>
    Suits(cfg, owed)

(* Node n is read as the remote, or was until its reader failed.            *)
Attended(n) == n = RemoteNode(cfg) /\ reader[n] \in {"remote", "ended"}

(* What the tray reports as paired, and the daemon neither refuses to write *)
(* nor dies before reading (then the tray is wrong: see PairedIsWritten),   *)
(* is heard: the device is back under any node, the daemon restarted, other *)
(* settings written, and still the reader on it listens for the key that    *)
(* was pressed.  Where an earlier node bears the same name the reader is    *)
(* there instead; a device without a name is found on its old node only     *)
(* (config.rs:166-170).  A key that has no name to be parsed from gets no   *)
(* reader at all (machine.rs:380-391).                                      *)
PairedRemoteHeard ==
  up /\ Settled /\ ~unseen /\ owed # None /\ fate = "kept" /\ ~SetConfigUnderWay =>
    /\ KeyOf[owed] \in cfg.keys
    /\ KeyOf[owed] \notin Unknown =>
         \A n \in Listed : at[n] = owed =>
           IF NameOf[owed] = None THEN cfg.path = n => Attended(n)
           ELSE \E m \in Listed : /\ m <= n /\ <<NameOf[owed], NameOf[at[m]]>> \in Matches
                                 /\ Attended(m)

(* "Queued requests are dropped rather than replayed" (tray.rs:14): what    *)
(* reaches the daemon was asked for over the connection it comes by, even   *)
(* if the entry was picked before a lost connection was noticed.            *)
NothingReplayed ==
  \A i \in DOMAIN sent : sent[i].era = era

(* The tray writes back a copy: it may undo what another client wrote while *)
(* it was connected, but never what was written before.                     *)
OldEditsSurvive ==
  [][cfg.other = 1 /\ cfg'.other = 0 => edited = era]_vars

(* The dialog's request, its attempt or its answer is somewhere. *)
InHand ==
  \/ \E i \in DOMAIN queued : queued[i].op = "LearnRemote"
  \/ \E i \in DOMAIN sent : sent[i].op = "LearnRemote"
  \/ attempt # None
  \/ \E i \in DOMAIN answers : answers[i].kind \in {"Learned", "TimedOut", "Error"}

(* A pairing dialog comes to an end while the daemon lives: a refusal, no   *)
(* device, every device gone, no press, a press: each is answered.          *)
PairingEnds ==
  pairing = "Waiting" /\ InHand ~> pairing # "Waiting" \/ ~peer

(* Plugging takes effect "without a manual refresh" (hotplug.rs:5): the     *)
(* readers follow the devices, if the daemon lives and watches in time.     *)
ReadersFollow ==
  up ~> ReadersOf(cfg) \/ unseen \/ ~up
=============================================================================
