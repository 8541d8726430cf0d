------------------------------- MODULE Access -------------------------------
(***************************************************************************)
(* Who can connect to the control socket while the daemon starts, serves,  *)
(* stops, fails to start or dies: the socket's directory, the socket and   *)
(* their group and mode, step by step (perms.rs, ipc::bind, main.rs).      *)
(*                                                                         *)
(* A mode is what it opens to: the owner alone, the group (0750, 0660), or *)
(* everyone.  The daemon's own account owns both and is left out.          *)
(***************************************************************************)
EXTENDS Config

CONSTANTS
  Account,      \* the accounts that may try to connect
  GroupsOf,     \* the groups of each
  OwnGroup,     \* the daemon's primary group
  SocketGroup,  \* --socket-group; None when it is not given
  Umask,        \* what it leaves open of a new directory and a new socket
  Foreign       \* a directory that belongs to somebody else

Opening == {"owner", "group", "all"}

ASSUME AccessAssumption ==
  /\ None \notin Account
  /\ Umask \in [dir : Opening, sock : Opening]
  /\ Foreign \in [group : {Foreign.group}, open : Opening]
  /\ None \notin [group : {OwnGroup, SocketGroup, Foreign.group}, open : Opening]

VARIABLES
  stage,        \* how far the daemon is: see Stage
  ours,         \* the directory is the daemon's to manage
  dir, sock     \* group and opening; None when there is no such node

access == <<stage, ours, dir, sock>>

Stage == {"down", "loading", "created", "narrowed", "prepared",
          "bound", "moded", "configured", "serving", "stopping"}

Boundary == IF SocketGroup = None THEN OwnGroup ELSE SocketGroup
Members  == {a \in Account : Boundary \in GroupsOf[a]}

Listening == stage \in {"bound", "moded", "configured", "serving", "stopping"}
Working   == stage \in {"serving", "stopping"}

Admits(node, a) ==
  \/ node.open = "all"
  \/ node.open = "group" /\ node.group \in GroupsOf[a]

(* What connect(2) says.  A socket nobody listens on refuses.               *)
Reach(a) ==
  IF dir = None THEN "absent"
  ELSE IF ~Admits(dir, a) THEN "denied"
  ELSE IF sock = None THEN "absent"
  ELSE IF ~Admits(sock, a) THEN "denied"
  ELSE IF Listening THEN "open" ELSE "refused"

AccessInit ==
  /\ stage = "down" /\ sock = None
  /\ ours \in BOOLEAN
  /\ dir = IF ours THEN None ELSE Foreign

-----------------------------------------------------------------------------
Step(from, to) == stage = from /\ stage' = to /\ UNCHANGED ours

(* The group is resolved, the configuration loaded and validated, the       *)
(* machine and the watches spawned.                                         *)
Start == Step("down", "loading") /\ UNCHANGED <<dir, sock>>

(* perms::begin_secure_dir: a directory that is there is kept ...           *)
CreateDir ==
  /\ Step("loading", "created")
  /\ dir' = IF dir = None THEN [group |-> OwnGroup, open |-> Umask.dir] ELSE dir
  /\ UNCHANGED sock

(* Form that leaves the directory as wide as it was. *)
NarrowDirNot == ours /\ Step("created", "narrowed") /\ UNCHANGED <<dir, sock>>

(* ... and, if it is ours, narrowed and then given to the group.            *)
NarrowDir ==
  /\ ours /\ Step("created", "narrowed")
  /\ dir' = [dir EXCEPT !.open = "owner"]
  /\ UNCHANGED sock

LeaveDir == ~ours /\ Step("created", "prepared") /\ UNCHANGED <<dir, sock>>

Granted(node) == IF SocketGroup = None THEN node ELSE [node EXCEPT !.group = SocketGroup]

GroupDir ==
  /\ Step("narrowed", "prepared")
  /\ dir' = Granted(dir)
  /\ UNCHANGED sock

(* ipc::bind: a stale socket is replaced ... *)
Bind ==
  /\ Step("prepared", "bound")
  /\ sock' = [group |-> OwnGroup, open |-> Umask.sock]
  /\ UNCHANGED dir

(* ... and configured (finish_socket), before the directory is widened.     *)
ModeSocket ==
  /\ Step("bound", "moded")
  /\ sock' = [sock EXCEPT !.open = "group"]
  /\ UNCHANGED dir

GroupSocket ==
  /\ Step("moded", "configured")
  /\ sock' = Granted(sock)
  /\ UNCHANGED dir

WidenDir ==
  /\ Step("configured", "serving")
  /\ dir' = IF ours THEN [dir EXCEPT !.open = "group"] ELSE dir
  /\ UNCHANGED sock

Starting ==
  \/ CreateDir \/ NarrowDir \/ LeaveDir \/ GroupDir
  \/ Bind \/ ModeSocket \/ GroupSocket \/ WidenDir

(* Any step of the start may fail: the daemon exits, and takes its socket   *)
(* with it.                                                                 *)
StartFails ==
  /\ stage \in Stage \ {"down", "serving", "stopping"}
  /\ stage' = "down" /\ UNCHANGED <<ours, dir>>
  /\ \/ ~Listening /\ UNCHANGED sock
     \/ (Listening \/ stage = "prepared") /\ sock' = None

(* SIGTERM: ipc::cleanup, then the tasks are aborted.                       *)
Stop == Step("serving", "stopping") /\ sock' = None /\ UNCHANGED dir
Exit == Step("stopping", "down") /\ UNCHANGED <<dir, sock>>

(* A death leaves both nodes where they are.                                *)
Die == stage # "down" /\ stage' = "down" /\ UNCHANGED <<ours, dir, sock>>

(* systemd removes the RuntimeDirectory of a service that is gone.          *)
SystemdClears ==
  /\ stage = "down" /\ ours /\ dir # None
  /\ dir' = None /\ sock' = None
  /\ UNCHANGED <<stage, ours>>

-----------------------------------------------------------------------------
Node == [group : {OwnGroup, Boundary, Foreign.group}, open : Opening]

AccessTypeOK ==
  /\ stage \in Stage /\ ours \in BOOLEAN
  /\ dir \in Node \cup {None} /\ sock \in Node \cup {None}
=============================================================================
