------------------------------ MODULE Devices ------------------------------
(***************************************************************************)
(* The input devices as the daemon keeps up with them: how devices.rs      *)
(* resolves a configuration against what is plugged in, the reader tasks   *)
(* (input.rs) that machine.rs spawns for the answer, and the hotplug watch *)
(* (hotplug.rs) that asks for a rescan after a burst of changes.           *)
(*                                                                         *)
(* A device appears under some free node of /dev/input, at first without   *)
(* the permissions udev grants a moment later, and may come back under     *)
(* another one.  udev, the kernel and the user's hands are external.       *)
(***************************************************************************)
EXTENDS Naturals, FiniteSets, Config

CONSTANTS
  Nodes,      \* nodes of /dev/input, in the order of their paths
  Device,     \* pieces of hardware
  NameOf,     \* the name each reports; None when it reports no usable name
  Pointers,   \* those that are the main pointer
  Matches,    \* hint, name: the name contains the hint, whatever the case
  Unknown,    \* names of keys that KeyCode::from_str does not know
  MaxMoves    \* bound on the times a device is plugged in or out, or fails

ASSUME DevicesAssumption ==
  /\ IsFiniteSet(Nodes) /\ Nodes \subseteq Nat
  /\ None \notin Device /\ None \notin Nodes
  /\ Pointers \subseteq Device
  /\ Matches \subseteq {NameOf[d] : d \in Device} \X {NameOf[d] : d \in Device}
  /\ \A d \in Device : NameOf[d] # None => <<NameOf[d], NameOf[d]>> \in Matches
  /\ MaxMoves \in Nat

VARIABLES
  at,         \* the device behind each node
  granted,    \* nodes udev has granted access to
  reader,     \* what the live reader task of each node listens for
  inotify,    \* "off", or whether events wait to be read: "quiet", "events"
  dirty,      \* hotplug::watch: a change has been read, no rescan asked yet
  rescan,     \* a Rescan waits for the machine
  unseen,     \* history: something changed before inotify watched
  moves       \* bound: devices plugged in or out, or failed, so far

hotplug == <<inotify, dirty, rescan, unseen>>
devices == <<at, granted, reader, hotplug, moves>>

-----------------------------------------------------------------------------
(* devices::list, devices::resolve *)

(* The nodes that open; the others are skipped. *)
Listed == {n \in Nodes : at[n] # None} \cap granted

First(S) == CHOOSE n \in S : \A m \in S : n <= m

(* The first node whose name contains the hint; an empty hint finds none.   *)
ByHint(hint) ==
  LET found == {n \in Listed : <<hint, NameOf[at[n]]>> \in Matches}
  IN  IF hint = None \/ found = {} THEN None ELSE First(found)

(* An explicit path is taken as it is, plugged in or not. *)
RemoteNode(c) == IF c.path # None THEN c.path ELSE ByHint(c.hint)

(* parse_toggle_keys: the names of the configuration that name a key.  What *)
(* a press writes there for a key without a name is none of them.           *)
Parsed(keys) == keys \ Unknown

(* What each node is to be read for.  watch_devices is ["auto"] here; the   *)
(* remote has no reader without a key to toggle with.                       *)
Roles(c) ==
  [n \in Nodes |->
     IF n \notin Listed THEN None
     ELSE IF n = RemoteNode(c) THEN (IF Parsed(c.keys) = {} THEN None ELSE "remote")
     ELSE IF at[n] \in Pointers THEN None ELSE "watch"]

(* Form that keeps the readers that are alive. *)
SpawnReadersKeeping(c) ==
  reader' = [n \in Nodes |-> IF reader[n] # None THEN reader[n] ELSE Roles(c)[n]]

(* Machine::spawn_readers: the old readers are aborted, the devices listed  *)
(* and resolved; a reader that cannot open its node ends at once.           *)
SpawnReaders(c) == reader' = Roles(c)

-----------------------------------------------------------------------------
(* /dev/input *)

(* A node has changed: inotify has an event, if it watches. *)
NodeChanged ==
  /\ inotify' = IF inotify = "off" THEN "off" ELSE "events"
  /\ unseen' = (unseen \/ inotify = "off")
  /\ UNCHANGED <<dirty, rescan>>

Plug(d, n) ==
  /\ moves < MaxMoves
  /\ at[n] = None /\ \A m \in Nodes : at[m] # d
  /\ at' = [at EXCEPT ![n] = d]
  /\ moves' = moves + 1
  /\ NodeChanged
  /\ UNCHANGED <<granted, reader>>

(* udev applies the permissions: an ATTRIB event. *)
Grant(n) ==
  /\ at[n] # None /\ n \notin granted
  /\ granted' = granted \cup {n}
  /\ NodeChanged
  /\ UNCHANGED <<at, reader, moves>>

(* Form in which a node is still taken for readable. *)
UnplugKeepingGrant(n) ==
  /\ moves < MaxMoves
  /\ at[n] # None
  /\ at' = [at EXCEPT ![n] = None]
  /\ reader' = [reader EXCEPT ![n] = None]
  /\ moves' = moves + 1
  /\ NodeChanged
  /\ UNCHANGED granted

(* The node goes, and with it the stream of its reader, which ends.         *)
Unplug(n) ==
  /\ moves < MaxMoves
  /\ at[n] # None
  /\ at' = [at EXCEPT ![n] = None]
  /\ granted' = granted \ {n}
  /\ reader' = [reader EXCEPT ![n] = None]
  /\ moves' = moves + 1
  /\ NodeChanged

(* A reader fails to read from a device that is still there, and ends too.  *)
(* Nothing changes in /dev/input: it is back with the next rescan or        *)
(* configuration, whatever brings that about.                               *)
ReadFails(n) ==
  /\ moves < MaxMoves
  /\ reader[n] \in {"remote", "watch"}
  /\ reader' = [reader EXCEPT ![n] = "ended"]
  /\ moves' = moves + 1
  /\ UNCHANGED <<at, granted, hotplug>>

-----------------------------------------------------------------------------
(* hotplug::watch.  The quiet period is not timed: it may end at any moment *)
(* after a change was read, with further events waiting or not.             *)

HotplugStarts ==
  /\ inotify = "off"
  /\ inotify' = "quiet" /\ dirty' = FALSE
  /\ UNCHANGED <<at, granted, reader, rescan, unseen, moves>>

ReadEvent ==
  /\ inotify = "events"
  /\ inotify' = "quiet" /\ dirty' = TRUE
  /\ UNCHANGED <<at, granted, reader, rescan, unseen, moves>>

(* Form that gives up when there is no room in the channel. *)
DebounceTrying ==
  /\ dirty /\ inotify # "off" /\ ~rescan
  /\ dirty' = FALSE /\ rescan' \in BOOLEAN
  /\ UNCHANGED <<at, granted, reader, inotify, unseen, moves>>

(* The quiet period is over; the send waits for room in the channel.        *)
Debounce ==
  /\ dirty /\ inotify # "off" /\ ~rescan
  /\ dirty' = FALSE /\ rescan' = TRUE
  /\ UNCHANGED <<at, granted, reader, inotify, unseen, moves>>

(* Control::Rescan reaches the machine, whose configuration is c.           *)
Rescan(c) ==
  /\ rescan
  /\ rescan' = FALSE
  /\ SpawnReaders(c)
  /\ UNCHANGED <<at, granted, inotify, dirty, unseen, moves>>

(* The process dies: readers, watch and channel with it. *)
DevicesLost ==
  /\ reader' = [n \in Nodes |-> None]
  /\ inotify' = "off" /\ dirty' = FALSE /\ rescan' = FALSE /\ unseen' = FALSE
  /\ UNCHANGED <<at, granted, moves>>

HotplugStep == HotplugStarts \/ ReadEvent \/ Debounce

-----------------------------------------------------------------------------
DevicesTypeOK ==
  /\ at \in [Nodes -> Device \cup {None}]
  /\ granted \subseteq {n \in Nodes : at[n] # None}
  /\ reader \in [Nodes -> {None, "remote", "watch", "ended"}]
  /\ inotify \in {"off", "quiet", "events"}
  /\ dirty \in BOOLEAN /\ rescan \in BOOLEAN /\ unseen \in BOOLEAN
  /\ moves \in 0..MaxMoves

(* No change is still on its way to the readers. *)
Settled == inotify = "quiet" /\ ~dirty /\ ~rescan

(* The readers are those that c asks for, but for the ones that have failed *)
(* since they were spawned.                                                 *)
ReadersOf(c) ==
  \A n \in Nodes : \/ reader[n] = Roles(c)[n]
                   \/ reader[n] = "ended" /\ Roles(c)[n] \in {"remote", "watch"}
=============================================================================
