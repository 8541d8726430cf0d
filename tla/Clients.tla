------------------------------ MODULE Clients ------------------------------
(***************************************************************************)
(* The settings window and alertu-ctl over the control socket of a daemon  *)
(* that starts step by step, may fail to, is stopped, dies, and starts     *)
(* again: main.rs and what a request does, with the state machine and the  *)
(* connection handlers reduced to carrying a request out and then          *)
(* answering it (see Machine and Ipc for both).                            *)
(***************************************************************************)
EXTENDS Window

CONSTANTS
  FirstFile,    \* the configuration in the file at first
  CtlFile,      \* the one given to alertu-ctl set-config
  Press,        \* what a pairing learns when the button is pressed
  MaxRuns,      \* bound on runs of alertu-ctl
  MaxEnds       \* bound on the times the daemon goes away

VARIABLES
  file,         \* the configuration, in the file and in force
  command,      \* of the alertu-ctl that runs, or None
  pressed,      \* what it has learned so far
  ctlRuns, ends,\* bounds
  since         \* history: configurations in force since the window's save began

ctl  == <<command, pressed, ctlRuns>>
vars == <<access, client, window, file, ctl, ends, since>>

Ctl == "ctl"

ASSUME ClientsAssumption ==
  /\ Client = {Main, Pairer, Ctl}
  /\ \A c \in {Defaults, FirstFile, CtlFile} : "keys" \in DOMAIN c /\ Valid(c)
  /\ Press.kind = "Learned"

Init ==
  /\ AccessInit /\ ClientInit /\ WindowInit
  /\ file = FirstFile
  /\ command = None /\ pressed = None
  /\ ctlRuns = 0 /\ ends = 0 /\ since = {}

(* A save that begins has seen the present only. *)
Saves(calls) == calls[Main] # None /\ calls[Main].req.op = "SetConfig"

Watch ==
  since' = IF ~Saves(call') THEN {} ELSE IF Saves(call) THEN since \cup {file'} ELSE {file'}

-----------------------------------------------------------------------------
(* alertu-ctl: one run at a time.  The commands that read print what they   *)
(* get; arm, disarm and toggle ask for themselves.                          *)

Opening1 == [toggle |-> "Toggle", pair |-> "LearnRemote", set |-> "SetConfig"]

FirstRequest(cmd) ==
  IF cmd = "set" THEN [op |-> "SetConfig", cfg |-> CtlFile] ELSE [op |-> Opening1[cmd]]

(* The process exits with an error if it cannot connect: nothing happens.   *)
CtlRun(cmd) ==
  /\ command = None /\ ctlRuns < MaxRuns
  /\ ConnectAndAsk(Ctl, FirstRequest(cmd))
  /\ command' = cmd /\ ctlRuns' = ctlRuns + 1
  /\ UNCHANGED pressed

(* pair: the press, then the configuration of that moment, changed and      *)
(* sent back.                                                               *)
CtlLearned ==
  /\ command = "pair" /\ Returns(Ctl, "Learned")
  /\ pressed' = call[Ctl].answer
  /\ Ask(Ctl, [op |-> "GetConfig"])
  /\ UNCHANGED <<command, ctlRuns>>

CtlGotConfig ==
  /\ command = "pair" /\ Returns(Ctl, "Config")
  /\ Ask(Ctl, [op |-> "SetConfig", cfg |-> ApplyLearned(call[Ctl].answer.cfg, pressed)])
  /\ UNCHANGED <<command, pressed, ctlRuns>>

CtlExits ==
  /\ command # None
  /\ \E kind \in {"Ok", "Error", "TimedOut", "Failed"} : Returns(Ctl, kind)
  /\ Drop(Ctl)
  /\ command' = None /\ pressed' = None /\ UNCHANGED ctlRuns

CtlWorks ==
  /\ CtlLearned \/ CtlGotConfig \/ CtlExits
  /\ UNCHANGED <<access, window, file, ends>> /\ Watch

-----------------------------------------------------------------------------
(* The daemon. *)

Serves(c, op) == Working /\ Asked(c, op)

Ok == [kind |-> "Ok"]
Refusal == [kind |-> "Error"]

ServeRead(c) ==
  /\ \/ Serves(c, "GetConfig") /\ Tell(c, [kind |-> "Config", cfg |-> file])
     \/ Serves(c, "ListDevices") /\ Tell(c, [kind |-> "Devices"])
     \/ Serves(c, "GetState") /\ Tell(c, [kind |-> "State"])
  /\ UNCHANGED file

(* The attempt changes nothing; the answer comes whenever it ends.          *)
ServeLearn(c) ==
  /\ Serves(c, "LearnRemote")
  /\ \E answer \in {Press, [kind |-> "TimedOut"], Refusal} : Tell(c, answer)
  /\ UNCHANGED file

ServeCommand(c) ==
  /\ Serves(c, "TestSound") \/ Serves(c, "Toggle")
  /\ Act(c, Ok)
  /\ UNCHANGED file

(* apply_config: written to the file by a rename and then adopted; or the   *)
(* file cannot be written, and nothing changes.                             *)
ServeSetConfig(c) ==
  /\ Serves(c, "SetConfig")
  /\ \/ Act(c, Ok) /\ file' = call[c].req.cfg
     \/ Act(c, Refusal) /\ UNCHANGED file

Replies(c) == Working /\ Reply(c) /\ UNCHANGED file

DaemonServes(c) ==
  /\ ServeRead(c) \/ ServeLearn(c) \/ ServeCommand(c) \/ ServeSetConfig(c) \/ Replies(c)
  /\ UNCHANGED <<access, window, ctl, ends>> /\ Watch

Retries(c) == Retry(c) /\ UNCHANGED <<access, window, file, ctl, ends>> /\ Watch

DaemonStarts ==
  /\ Start \/ Starting
  /\ UNCHANGED <<client, window, file, ctl, ends>> /\ Watch

DaemonStops ==
  /\ Stop /\ ends < MaxEnds /\ ends' = ends + 1
  /\ UNCHANGED <<client, window, file, ctl>> /\ Watch

DaemonGoes ==
  /\ \/ Exit /\ UNCHANGED ends
     \/ (StartFails \/ Die) /\ ends < MaxEnds /\ ends' = ends + 1
  /\ Sever
  /\ UNCHANGED <<window, file, ctl>> /\ Watch

RuntimeCleared == SystemdClears /\ UNCHANGED <<client, window, file, ctl, ends>> /\ Watch

-----------------------------------------------------------------------------
WindowSteps == WindowWorks /\ UNCHANGED <<access, file, ctl, ends>> /\ Watch
UserSteps   == UserActs /\ UNCHANGED <<access, file, ctl, ends>> /\ Watch
CtlStarts   == /\ \E cmd \in DOMAIN Opening1 : CtlRun(cmd)
               /\ UNCHANGED <<access, window, file, ends>> /\ Watch

Next ==
  \/ DaemonStarts \/ DaemonStops \/ DaemonGoes \/ RuntimeCleared
  \/ \E c \in Client : DaemonServes(c) \/ Retries(c)
  \/ WindowSteps \/ UserSteps \/ CtlStarts \/ CtlWorks

Spec == Init /\ [][Next]_vars

(* Tasks and processes are scheduled; whoever was told to start, starts,    *)
(* and whoever was told to stop, stops.                                     *)
Fairness ==
  /\ WF_vars(DaemonStarts) /\ WF_vars(Exit /\ DaemonGoes)
  /\ \A c \in Client : WF_vars(DaemonServes(c)) /\ WF_vars(Retries(c))
  /\ WF_vars(WindowSteps) /\ WF_vars(CtlWorks)

FairSpec == Spec /\ Fairness

-----------------------------------------------------------------------------
(* Every variable has a value the code could hold.                          *)
TypeOK == AccessTypeOK /\ ClientTypeOK /\ WindowTypeOK /\ Valid(file)

(* The socket "sits at whatever mode the process umask produced" for a      *)
(* while (ipc.rs:38): even so no account outside the group reaches it, from *)
(* the first step of a start to the last, and after a start that failed or  *)
(* a death half-way; and once the daemon serves, every member of the group  *)
(* gets through the directory to the socket.  In a directory that is not    *)
(* the daemon's the first holds once it serves.                             *)
ExactlyTheGroup ==
  /\ \A a \in Account \ Members : ours \/ stage = "serving" => Reach(a) # "open"
  /\ stage = "serving" /\ ours => \A a \in Members : Reach(a) = "open"

(* What must not be done twice for one call: a toggle undoes itself, and a  *)
(* second pairing opens a window of attempts nobody asked for.              *)
OncePerCall == {"Toggle", "LearnRemote"}

(* Those are carried out at most once a call, wherever the connection       *)
(* breaks and whoever makes the call (ipc_client.rs:15-33).                 *)
AtMostOnce ==
  \A c \in Client :
    call[c] # None /\ call[c].req.op \in OncePerCall => call[c].acts <= 1

(* A step after which the window says that it saved or paired.              *)
SaysSaved ==
  /\ doing \in {"saving", "testing", "pairing"} /\ doing' # doing
  /\ status' \in {"Saved", "Paired"}
PairedAsPressed == doing = "pairing" => copy'.keys = {Press.key}

(* When the window says that it saved or paired, its working copy is a      *)
(* configuration that was in force at some moment of that call, and what it *)
(* calls paired has the key that was pressed, whatever was edited while the *)
(* pairing ran and however often the request was sent.                      *)
SavedIsTrue == [][SaysSaved => copy' \in since /\ PairedAsPressed]_vars

(* A call of the drawing thread, which has no timeout, comes back: served,  *)
(* refused or broken (settings main.rs:36).                                 *)
CallsEnd == doing \notin {"idle"} ~> Idle
=============================================================================
