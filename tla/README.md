# alertU in TLA+

alertU guards an unattended Linux desktop: a remote (or a client) arms it, the
session is locked, and from the end of a short grace period any input from a
watched device starts a countdown that ends in a siren unless somebody disarms.
This directory holds TLA+ modules that model the daemon and its clients, TLC
configurations that check them, and proofs for TLAPS. Paths below are relative
to the repository's `crates/`.

## Inventory

### The daemon (`alertu-daemon`)

| part | state | operations | talks to |
|---|---|---|---|
| transitions (`transitions.rs`, `alertu-common/state.rs`) | none: `decide` is pure | event x state -> effects, next state | the machine |
| state machine (`machine.rs`) | lifecycle state, three timers, configuration, reader tasks | a `select!` loop over signals, lock reports, commands and its timer; effects one by one; `apply_config`; `spawn_readers` | everything below, over channels |
| session control and watch (`session.rs`) | session id, D-Bus subscription or `last` polled value | lock, unlock, resolve the id, subscribe, recheck, poll | logind; reports on a channel of 16 |
| sound (`sound.rs`) | detected player, handle of the siren's task | play once, start, stop, reconfigure; the task respawns the player | external player processes |
| control socket (`ipc.rs`, `alertu-common/protocol.rs`) | per connection: subscribed, versions seen | accept, dispatch a request, push a change | the machine, by a channel of 32, `oneshot` answers and two `watch` channels |
| pairing (`learn.rs`) | readers of one attempt, its window | listen to every device, settle, answer the first key | a `oneshot` owed to one connection |
| readers, devices, hotplug (`input.rs`, `devices.rs`, `hotplug.rs`) | one task per device; a debounce timer | report keys and activity, resolve which devices, ask for a rescan | the machine, by a channel of 64 |
| snapshot, webhook (`snapshot.rs`, `webhook.rs`) | none | detached effects of the alarm | a camera tool, an HTTP server |
| permissions (`perms.rs`) | ownership of socket, directories, pictures | create, chmod, chown | the file system |
| start (`main.rs`) | none of its own | load the configuration, build the channels, spawn the tasks, clean up | all |

### The clients

| part | state | operations |
|---|---|---|
| configuration (`alertu-common/config.rs`) | the TOML file | load, validate, save by rename, adopt a learned remote |
| client (`alertu-common/ipc_client.rs`) | one connection, subscribed or not | request with a deadline, reconnect, replay what is safe to replay |
| tray (`alertu-gui`) | last state and devices, the pairing dialog | supervise a session with the daemon, reconnect, menu entries |
| settings window (`alertu-settings`) | a copy of the configuration, a pairing in progress | read, edit, write back; poll a pairing |
| command line (`alertu-ctl`) | none | one request per run, or a watch of the state |

### What is hard here, and what makes each part correct

- *Machine.* Four sources are ready at once and `select!` picks in random
  order. A transition awaits `loginctl` between its effects, while signals,
  unlock reports and time go on; the process may die there. Correct when timers,
  siren, lock and configuration always fit the state, a trip is never inside the
  grace period, no siren sounds before its countdown, a disarm puts everything
  back, and a tripped guard left alone does sound.
- *Session watch.* Two ways to observe, a switch from one to the other, a session
  id that changes underneath, a channel that may be full. Correct when the last
  report is the present state once things rest, and nothing is reported that did
  not happen: a report of an unlock disarms.
- *Sound.* A stop races a task on another thread; players fail. Correct when one
  siren loops at most, stopping silences it, failing players are given up, and
  nothing else silences an alarm.
- *Socket.* Clients pipeline, subscribe and hang up; `watch` channels keep only
  the latest value; an answer may be owed by the machine, a pairing task or
  nobody any more. Correct when each answer is owed by exactly one party, what a
  client is told never goes back, subscribers converge, nobody stalls others.
- *Pairing, readers, hotplug.* An attempt outlives the state that allowed it;
  device events come in bursts, and before udev has granted access; readers are
  aborted and respawned; the press travels to the tray and comes back as a
  configuration. Correct when every attempt ends with one answer, the readers end
  up on the devices that are there, and what is reported as paired was written and
  is heard.
- *The socket's life.* The directory, the socket, their groups and modes are set
  one call at a time, over whatever an earlier start left. Correct when nobody
  outside the group ever gets through and, once it serves, every member does.
- *Clients.* Replays after a broken connection; several writers of one
  configuration; a window that blocks in its calls while jobs run on other threads;
  queued requests and a dialog that outlive a connection. Correct when nothing runs
  twice that must not, nothing said on one connection reaches the next, what is
  called saved was in force, and no call hangs.

`PROJECT.json` lists these under "hazards", each at its line, with the
properties that cover it or the reason why none does yet.

## Modules

| module | models | built on |
|---|---|---|
| `Transitions` | `decide`: `NextState`, `Decides`, `Effects` | - |
| `Guard` | what the guard promises a user: arm, trip, sound, disarm, tick | - |
| `Machine` | the state machine's task and its surroundings | `Transitions`; implements `Guard` |
| `MCMachine` | configurations and command sets for TLC | `Machine` |
| `MachineProofs` | the inductive invariant and its theorems; what the machine asks of the watch | `Machine`, `LockReports`, TLAPS |
| `PromiseProofs` | the refinement of `Guard`, step by step; the pace of the warnings | `MachineProofs` |
| `LockReports` | what the watch promises the machine: one line of changes from the session | - |
| `SessionWatch`, `MCSessionWatch` | `watch`, `dbus_watch`, `monitor` | implements `LockReports` |
| `SessionWatchProofs` | its safety properties and the refinement of `LockReports` | `SessionWatch`, TLAPS |
| `Siren` | `SoundPlayer` and `siren_loop` | - |
| `SirenProofs` | its safety properties | `Siren`, TLAPS |
| `Service` | what the control socket promises a client: answers, pushes, their number and order | - |
| `Ipc`, `MCIpc` | `serve`, `handle_conn`, `dispatch` and the promises of commands | implements `Service` |
| `IpcProofs` | its safety properties and the refinement of `Service` | `Ipc`, TLAPS |
| `Config` | what tells configurations apart, `validate`, `apply_learned_remote` | - |
| `Devices` | listing and resolution, reader tasks, the hotplug watch | `Config` |
| `Learn` | a pairing attempt | `Devices` |
| `Tray` | the tray's menu, supervisor, session and dialog | `Config` |
| `Pairing`, `MCPairing` | a daemon, its devices, an attempt, the tray, another client | `Learn`, `Tray` |
| `PairingProofs` | its safety properties, but one | `Pairing`, TLAPS |
| `PairedProofs` | that what is reported as paired, and not refused or lost, is heard | `PairingProofs`, TLAPS |
| `Access` | the start, the end and the permissions of socket and directory | `Config` |
| `Client` | `ipc_client.rs`: a call, its attempts, a broken connection | `Access` |
| `Window` | the settings window and its jobs | `Client` |
| `Clients`, `MCClients` | a daemon that comes and goes, the window, `alertu-ctl` | `Window` |
| `ClientsProofs` | who gets in, that nothing runs twice, and that "Saved" is true | `Clients`, TLAPS |

Operators whose comment starts with *Form* (`RescheduleNever`, `SendCtrlAtOnce`,
...) are not part of any specification: each is a definition as a plausible bug
would have it, written before the one it alters. Substituted for that
definition, it makes a property fail, which is how each property is shown to
say something about the code.

### `Machine` and the code

`pc` says where the task is: at the `select!` ("select"), inside `apply`
("effects", with `event` and the number `done` of effects performed), or inside
`apply_config` ("saved" after the file is written, "adopted" after `self.cfg` is
replaced). `OnInput`, `OnLock`, the actions of `ControlStep` and `OnTimer` are the
branches of `run`; each takes its message and runs the handler up to the first
effect. Each effect of `run_effect` is an action, `Commit` is `set_state`. Between
any two of them the environment acts: readers and clients send, the user locks
or unlocks, the locker serves a queued request, the clock ticks, the process
restarts (`Restart` keeps only the file, the session and the locker's queue).

Timers hold the ticks left instead of an `Instant`; `now >= deadline` is `= 0`,
and an expired timer stays at 0. The handler tests state, grace and deadline at
the point where the code does. `loginctl lock-session` only queues a request for
the locker, and a change of `LockedHint` reaches the daemon through `lockQ`; how
it gets there is `SessionWatch`; the machine is given a watch that is subscribed and
undisturbed. A polled one may miss a lock and an unlock within one interval, and then
`ArmedMeansLocked` does not hold. Any call of `loginctl` may fail. `Read` stands for
`GetConfig`, `TestSound` and `LearnRemote`, which change nothing in the machine.

`warnings`, `countdown`, `unlockSeen` and `leftOpen` are history variables: nothing
reads them but properties. `leftOpen` says that the lock the present watch began with
was refused and that the session has been open since. `KeepsPromise` maps a transition to
the abstract step at its *decisive* effect, the one that makes it felt (the grace starts, the countdown
starts, the siren starts or stops): before it the abstract guard has not moved.

### `SessionWatch` and the code

`pc` is "subscribing", "subscribed" (in the loop of `dbus_watch`), "sleeping",
"asking" or "comparing" (in `monitor`), or "stopped". Reading the id and
subscribing are two steps, since several awaits lie between. `signals` is the
property stream, `lockQ` the channel of which `QueueCap` is the capacity. A failing
`loginctl` ends the round. `upset` remembers what has disturbed the watch.

`KeepsReports` maps all of it to one line. Subscribed, what is on the way to the machine
is the channel and then the stream; polling, it is the channel, then the report that the
answer in hand will make, then the one that the session would make if it were asked
now. So a change seen by a poll joins the line at once, and one that undoes it before the
poll takes it off again.

### `Siren` and the code

Each start creates a task with its own flag and wake-up. A task is parked at an
await or running; `Stopped` sets flag, wake-up and abort at once, and lets another
thread have polled the task just before the abort. `Drop` is tokio's treatment of
an aborted task: it is dropped where it is parked. A player belongs to its task
but outlives it. `streak` and `after` are history.

### `Ipc` and the code

A connection is in "select", in "changed" (`changed()` has resolved, the value is
not yet borrowed), in "sending" (waits for room in the command channel) or in
"awaiting" (waits for a `oneshot`). Values are versions; a `watch` receiver is the
version it has seen. What a line asks is chosen when it is read, so `inbox` only
counts lines. Every write may fail because the client hung up.

`KeepsService` forgets tasks, channels and receivers. Of each client it keeps what it was
told last, whether it waits for an answer, and how many pushes it may still get: the
values published since it was accepted and not yet seen by its receivers, and the one
about to be written.

### `Pairing` and the code

`Pairing` composes `Devices`, `Learn` and `Tray`. The guard is `Idle` or `Active`
and a handler of the machine is one step, since what happens inside one is
`Machine`'s subject; of the daemon's connections only the tray's is followed, with
one attempt at a time.

A device is behind a node (`at`), readable once udev says so (`granted`), and
heard by the reader of the node (`reader`, as "remote" or "watch"). `Roles` is
`devices::resolve`; `SpawnReaders` the abort and respawn of all readers. A reader may
also fail on a device that stays (`ReadFails`); it is then "ended" until something
spawns the readers again, and inotify has nothing to tell. A key is known by its
spelling: `Parsed` drops those that `KeyCode::from_str` does not know (`Unknown`), and
without any left the remote has no reader. A press of a key without a name is written
with such a spelling, so that pairing it succeeds and nothing is heard. Between a
change and the new readers lie the inotify event, the change that `hotplug::watch`
has read (`dirty`) and the `Rescan` in the channel (`rescan`). The quiet period is
not timed: it may end at any moment, which includes every timing of it. `Press` is
heard by the attempt and by the machine's readers in one step, as the same event
reaches both.

The connection is two sequences and a flag: `sent`, `answers`, `peer`. A request
reaches `sent` from the tray's unbounded channel `queued`. `Connect` drops what the
channel holds, as `run_session` does. `era` counts connections; a request carries
the one that was shown when its entry was picked. `edited` is the connection during
which the other client wrote; `unseen` is set when something changed before inotify
watched.

`owed` is the device the tray last reported as paired, from the step in which it queues
the `SetConfig` (`ReportsPaired`), and `fate` what has become of that report: "kept" so
far; "refused" when the daemon could not write the configuration and no other is on its
way; "lost" when the daemon died before it read the request, or was dead already;
"undone" when the other client has written back a copy older than the pairing. The tray
itself takes nothing back: `fail_pairing` ignores an `Error` that comes after `Done`. That is
`PairedIsWritten`, which a run shows violated; `PairedRemoteHeard` speaks of the reports
that are "kept".

### `Clients` and the code

`Access` takes one step per system call of the start: `stage` says how far it is,
`dir` and `sock` are the group and the opening of the two nodes, and stay behind
when the daemon dies. `Reach` is what `connect` answers an account. A directory
belongs to the daemon's account (`ours`) or to somebody else, and is then left as it
is.

`Client` holds the call each client is blocked in: its request, the attempt
(`try`), where it is (`fate`: asked, acted, answered, lost) and, as history, how
often the daemon carried it out (`acts`). A broken connection is noticed by the
next call only. `Retry` is the second attempt of `round_trip`.

`Window` is the drawing thread and its two jobs. `doing` is the call it is blocked
in; the working copy is `copy`, the text buffer of the keys `keysText`. The buffers are
empty until a load gets through (`filled`), while the working copy begins with the
defaults: `Collected` then has no keys, which `validate` refuses, or, once keys are typed,
blank paths. `Saved` and `PollPairing` are the ends of `save` and of a pairing. `Clients` adds the daemon's
end, reduced to carrying a request out and answering, and `alertu-ctl` as one
command at a time, of which `pair` makes three requests. `since` is the history of
the configurations in force during the window's save.

## Runs

| run | checks | shows |
|---|---|---|
| `machine_safety` | `TypeOK`, `TimersMatchState`, `SirenOnlyInAlarm`, `WarningsPaced`, `ArmedMeansLocked`, `SettledWhenSelecting` | timers, siren, warnings, lock and configuration fit the state under every interleaving, restarts and failures of `loginctl` included |
| `machine_promise` | `KeepsPromise`, `CountdownEnds`, `DisarmHonoured`, `UnlockHonoured` | `Machine` implements `Guard`, liveness included; countdowns end, disarms and unlocks take effect even when `loginctl` fails |
| `session_watch` | `TypeOK`, `InformedWhenSteady`, `KeepsReports`, `GenuineWhenNotMoved`, `FollowsSession`, `UnlockReported` | the watch implements `LockReports`: it loses, repeats and reorders nothing but what a failure or a poll may cost; it follows the session it is pointed at |
| `siren` | `TypeOK`, `OneLoop`, `StopsSpawning`, `GivesUp`, `KeepsSounding`, `FallsSilent` | stops and restarts race the task without a second loop; failures are capped, and only failures in a row |
| `ipc` | `TypeOK`, `OnePromise`, `NeverBackwards`, `KeepsService`, `SubscriberCatchesUp`, `OthersNotStalled` | `Ipc` implements `Service`; answers are owed by one party, subscribers converge, a pairing dialog stalls nobody else |
| `pairing` | `TypeOK`, `ReadersMatch`, `PairedRemoteHeard`, `NothingReplayed`, `OldEditsSurvive`, `PairingEnds`, `ReadersFollow` | readers end up on the devices that are there, what is reported as paired and neither refused nor lost is heard, nothing crosses connections, each attempt is answered while the daemon lives |
| `clients` | `TypeOK`, `ExactlyTheGroup`, `AtMostOnce`, `SavedIsTrue`, `CallsEnd` | the group and nobody else gets in at any step of a start; nothing unsafe runs twice; "Saved" is true; the window never hangs |
| `machine_stale_unlock` | `UnlockIsGenuine`, violated | an unlock queued before arming disarms the guard afterwards |
| `session_blind` | `InformedAfterFallback`, violated | the switch to polling swallows an unlock |
| `session_moved` | `GenuineReports`, violated | polling compares two sessions and reports an unlock nobody made |
| `siren_orphan` | `StoppedMeansSilent`, violated | stopping drops the task before it kills the player |
| `pairing_unwritten` | `PairedIsWritten`, violated | a pairing whose write the daemon refuses goes on being shown as done |

The five violated properties quote what a comment of the repository says; what
the code does instead is described under "findings" in `PROJECT.json`. For each of
them a property that does hold draws the boundary: `UnlockHonoured`,
`InformedWhenSteady` and `UnlockReported`, `GenuineWhenNotMoved`, `StopsSpawning`
and `FallsSilent`, `PairedRemoteHeard`.

Three runs allow deadlock (`pairing`, `pairing_unwritten`, `clients`): people pick, edit,
plug and kill a bounded number of times, and once these budgets are spent and
everything has been answered the system rests. The other modules never stop.

### Bounds, and why they are enough

- `machine_safety`: one configuration with grace 1 and delay 3, so that with
  `WarningInterval` 2 a second warning falls inside the countdown, at another tick
  than its end (a countdown handled late may add one more: the bound of
  `WarningsPaced` is reached); and one with both zero, so that everything is due at
  once. `SetConfig` switches between them at any moment.
- `machine_promise`: grace and delay 1 or both 0, interval 1, only `Activity` from
  the readers (the remote is one more source of the toggle that clients send), only
  the commands that change the felt state. Liveness needs the smaller graph;
  `HintCap` 1 leaves one unlock under way, enough to disarm at any moment.
- `QueueCap` 1 in `Machine`: one signal and one command wait while a handler runs,
  enough for each pair of sources to race, and for a message to be handled in a
  state other than the one it was sent in. The order inside one channel never
  matters to the machine beyond that. In `SessionWatch` and `Ipc`, 1 makes
  "full" reachable.
- `HintCap` 2 in `machine_safety`: reports and locker requests outstanding before
  users and clients act again, a lock and an unlock together.
- `LagCap` 2 in `SessionWatch`: a lock and an unlock outstanding together, the
  channel full and the stream not empty. Two sessions: one to leave, one to go to.
- `MaxSirens` 2: a siren and the one that replaces it; `MaxFailures` is the
  code's 3.
- `InboxCap` 1 and `MaxVersion` 2 in `Ipc`: a client refills its inbox at once, so
  pipelining is a second line behind the dispatched one; three versions let a push
  borrow a newer value than the one noticed. The device topic behaves as the state
  topic does, and is left to the constant `Topics`. One client subscribes and
  pairs, the other does the rest (`Habits`).
- `pairing`: a keyboard without a usable name (found by its node) and a remote with
  one (found by its name) over three nodes, so that a device can come back under
  another one, and a first configuration whose only key is misspelt (`Unknown`);
  `MaxMoves` 2 is one device out and in again, or out or in and a reader that fails;
  `MaxClicks` 1 an entry picked at any moment, with the tray's own requests beside it;
  `MaxDeaths` 1 a daemon lost and found.
- `clients`: `MaxPicks`, `MaxEdits`, `MaxRuns`, `MaxEnds` 1: one button, one edit, one
  `alertu-ctl` and one end of the daemon, in any order and at any step of each
  other. Two accounts, in the group and not. The umask leaves a new socket open to the
  daemon's own group, which both accounts are in: the widest case for the moment between
  `bind` and `chmod`. The directory is the daemon's or is not. The user may clear the
  text of the keys or type one (`KeyTexts`).
- `pairing_unwritten`: the bounds of `pairing`, without deaths. A refused write is enough.

### Fairness

- *Machine.* A handler in progress goes on (`WF`), for nothing in it blocks for
  ever. `select!` polls its branches in random order, so a branch that is ready
  again and again is chosen: `SF` for each branch. Time passes and the locker
  serves its queue (`WF`). Users, clients and restarts owe nothing.
- *SessionWatch.* The task is scheduled (`WF`); the recheck branch is not starved by
  signals, and `loginctl` does not fail for ever (`SF`); a live machine drains its
  channel (`WF`).
- *Siren.* Tasks are scheduled and a sound file has an end (`WF`).
- *Ipc.* Dispatches, their completion and notifications are branches of a
  `select!`, or waits in a fair queue (`SF`); a machine that is alive serves (`WF`).
  Clients, publications and the end of a pairing owe nothing, and properties that
  depend on a pairing's end say so.
- *Pairing.* The daemon serves, the settle window and the deadline of an attempt
  pass, the hotplug watch starts, reads and debounces, the machine takes a rescan, the
  tray connects and works (`WF`). Hardware, fingers, the other client and the
  daemon's deaths and restarts owe nothing.
- *Clients.* A start under way goes on, and so does a stop; the daemon serves each
  connection, clients retry, the window's threads and `alertu-ctl` run (`WF`). Users,
  failures, deaths and systemd's clearing owe nothing.

## Proofs

Each proof module states its theorems for every value of the constants. The only
assumptions are the named `ASSUME`s on the constants (`MachineAssumption`,
`WatchAssumption`, `SirenAssumption`, `IpcAssumption`, `DevicesAssumption`,
`PairingAssumption`, `AccessAssumption`, `ClientAssumption`, `WindowAssumption`,
`ClientsAssumption`), which TLC evaluates in the runs, and `NoneIsNoRecord`, which
`TypeCorrect` of `Clients` assumes beside them (see below).
`tlapm` checks every leaf.

| module | theorems | of |
|---|---|---|
| `MachineProofs` | `Invariance`, `TypeCorrect`, `TimersCorrect`, `SirenCorrect`, `ConfigCorrect`, `LockCorrect`, `NeverStartedTwice`, `ReliesOnReports` | `IInv`, `TypeOK`, `TimersMatchState`, `SirenOnlyInAlarm`, `SettledWhenSelecting`, `ArmedMeansLocked`; no start of a siren over another; steps of `LockReports` |
| `PromiseProofs` | `SafetyOfPromise`, `WarningsInTime` | the safety part of `KeepsPromise`, `WarningsPaced` |
| `SessionWatchProofs` | `TypeCorrect`, `LastChangeTold`, `NeverToldTwice`, `ReportsAreGenuine`, `ReportsKept`, `LineInOrder` | `TypeOK`, `InformedWhenSteady`, `NoRepeats`, `GenuineWhenNotMoved`, `KeepsReports`, `InOrder` of `LockReports` |
| `SirenProofs` | `TypeCorrect`, `NeverTwoLoops`, `StopIsPrompt`, `GivesUpInTime` | `TypeOK`, `OneLoop`, `StopsSpawning`, `GivesUp` |
| `IpcProofs` | `TypeCorrect`, `PromiseKeptOnce`, `ToldInOrder`, `ServiceKept` | `TypeOK`, `OnePromise`, `NeverBackwards`, `KeepsService` |
| `PairingProofs` | `TypeCorrect`, `ReadersAlwaysMatch`, `NeverReplayed`, `EditsOutliveConnections` | `TypeOK`, `ReadersMatch`, `NothingReplayed`, `OldEditsSurvive` |
| `PairedProofs` | `PairedMeansHeard` | `PairedRemoteHeard` |
| `ClientsProofs` | `TypeCorrect`, `OnlyTheGroup`, `NeverTwice`, `SavesAreTrue` | `TypeOK`, `ExactlyTheGroup`, `AtMostOnce`, `SavedIsTrue` |

*Machine.* None of its properties is inductive: they speak of the moments between
two handlers, and say nothing of the middle of one. `IInv` says what holds there.
`TimersFit` and `SirenFits` read off the effects already performed which state the
timers and the siren belong to (`StateAfter`: the next state once the effect that
concerns them is done, the present one before). `LockFits` follows the same idea
for the session: from `LockSession` on, an open session has its lock request or
its unlock report under way, unless that very lock was refused and the session has been
open since (`leftOpen`). So `LockCorrect` needs no `loginctl` that gets through: a later
failure, of an unlock or of the lock of another watch, never leaves an armed guard over
an open session. `ConfigsFit` follows a configuration through the two steps of `apply_config`.
`HandlerShape` ties `pc`, `event` and `done` together. The argument goes action by
action. `CommitShape` is the crux: when all effects of a transition are performed,
`StateAfter` is the committed state.

*The promise.* The abstract guard moves at the decisive effect of a transition;
every other step stutters. What is left to show is that a trip finds the grace
period over and an alarm the countdown. The select loop tested both, several
effects earlier: `DueFits` says that the answer still holds when the effect is
carried out. Fairness, the rest of `KeepsPromise`, stays with TLC.

*Warnings.* `Pacing` relates the warnings played, the ticks elapsed and the ticks to
the next warning while a countdown runs; it breaks when the countdown is over and
handled late, where `Paced` takes over: one warning more at most.

*SessionWatch.* `Alternates` is the crux: the last report, the signals in the stream
and the present hint take turns, so that nothing is lost or repeated however many
wait. `Steady` ties it to the places of the task; `Faithful` says whose values
they are as long as nobody moves the watch. `NoRepeats` is proved but no run checks it
any more: `KeepsReports` says more. Its proof, `ReportsKept`, maps every action: a change
of the session puts a value on the line or takes one off (`PolledChange`, for a poll with
a value remembered and an answer in hand), reading a signal or sending a report only
moves values along it (`Same`), and only the machine takes one. When the stream dies or
the machine goes, `Steady` says what may be lost. From the promise alone,
`LineInOrder` follows. `ReliesOnReports` closes the gap to `Machine`: what happens to
`lockQ` there, restarts apart, are steps that a subscribed `LockReports` allows.

*Siren.* `Belongs` ties a task to the handle: the task of the handle has not been
stopped, every other has ended or is stopped and aborted, and an aborted task runs
to its next await only. `Counts` ties the failures counted to the players that
failed, but for the one not looked at yet.

*Ipc.* `OnePromise` counts the promises made to a connection, in the channel, in an
attempt or in the answer; with `TypeOK` and `Shape`, which says what a connection
holds in each phase, it is inductive (`IpcInv`). For
`ToldInOrder`, every step tells a client the latest version or nothing (`Tells`), and
what it knows never exceeds what was published. `ServiceKept` goes the same way for each
action of connections, clients and machine. It needs `SoundInv`: a connection that is over
holds nothing, no receiver has seen more than was published, and only a subscriber
pushes. That `Connect` marks what is current as seen is the crux: otherwise there would be
more pushes than publications.

*Pairing.* `ReadersInv`: without an event, a change read or a rescan under way, the readers
fit (`ReadersOf`), but for those that failed after they were spawned. `PairingInv` is about the connection as a first-in first-out queue: until its
configuration has arrived, the answer to `GetConfig` comes before any other
(`Awaiting`), so the copy the tray changes was read over this connection (`Known`),
and while nobody else has written over it, everything on it agrees with the
settings in force (`Fits`).

*What was paired.* `OwedInv` follows a reported press into the configuration: of the
requests sent and queued, read as one line, the last that sets a configuration suits
the device, and if none is left the configuration in force does (`LastSuits`); a
connection that is gone carries nothing that is owed. It is claimed while the report is
"kept" only: where the daemon refuses the last such request, or dies before reading it,
the report stays and is wrong. With `ReadersMatch` the reader
follows, if the key that was pressed can be parsed and the reader has not failed since
(`Attended`). With several devices of one name the first node wins: `FirstIsLeast` finds it, and
`PairedMeansHeard` says that a reader listens there, on the device itself or at an earlier
node of its name, so that nothing need be assumed about names.

*Clients.* `AccessInv` follows group and opening of directory and socket through
the stages: a directory of the daemon's own is closed from before the socket exists
until after it is configured, whatever an earlier start left. `CallInv`: a request
that may not be replayed and is still only asked has not been carried out; once it
has been, it is never asked again. `AtMostOnce` names these requests itself
(`OncePerCall`), not by the set the client retries by, and the theorem holds of any set
of reconnecting clients, where the program has one. `SaveInv`: `since` holds what was in force since the
save began and only grows while that call goes on, across a second attempt; so
what an accepted save sent is in it (`SaveSays`), what the job learned is the press
(`LearnSays`), and every configuration sent or told is valid (`CallSays`). For `TypeCorrect`
the window's stage and its calls go together step by step; it assumes
`NoneIsNoRecord`, since `None` stands beside records.

Every invariant and action property that a run checks is thus proved, but for those
runs expected to find a violation. What stays with TLC is the fairness in
`KeepsPromise` and every liveness property (`CountdownEnds`, `DisarmHonoured`, `UnlockHonoured`,
`FollowsSession`, `UnlockReported`, `KeepsSounding`, `FallsSilent`,
`SubscriberCatchesUp`, `OthersNotStalled`, `PairingEnds`, `ReadersFollow`,
`CallsEnd`): these need ENABLED, which the provers do not handle.

## What is not modelled

- How a session id or a player is found (parsing of `loginctl`, search of
  `PATH`): the models let it be any. An explicit `watch_devices` list: it is `["auto"]`.
- What a snapshot, a webhook or a beep does outside the daemon, the sound generator,
  packaging, the drawing of tray and window, the text of statuses and output: no
  state that anything else reads. The hint that tells a refusal from an absence is
  in `Window` (`Probed`), but no property speaks of it.
- The tray's `Subscribe` and `ListDevices`, whose answers only change what it displays
  (pushes are `Ipc`'s subject), and how long it sleeps between two connections.
- `alertu-ctl status --watch`, which prints pushes, and the commands that only print.
- The wait of the tray for an answer whose connection is gone (`PairingEnds` stops there),
  and what changes between the daemon's first listing and its inotify watch (`unseen`): both
  are in the model, and no property says what should become of them.
- Two pairing attempts at once: `Learn` runs one. Inside `Pairing` the guard has two
  states; the whole of it is in `Machine`.
- The length of the quiet period, of the settle window and of timeouts: they may
  end at any moment the code allows.
- TOML, and what a power failure leaves of a rename without `fsync`.
- Overflow of `Instant + Duration` for configurations of astronomically long delays.

## Plan

1. Done: `Transitions`, `Guard`, `Machine`; `SessionWatch`; `Siren`; `Ipc`.
2. Done: `Devices`, `Learn`, `Tray`, `Pairing`; `Access`, `Client`, `Window`, `Clients`.
3. Done: proofs of the safety part of `KeepsPromise` and of every invariant and action
   property that a passing run checks; `Service` and `LockReports`, and the proofs that
   `Ipc` and `SessionWatch` implement them.
4. Left to model: `status --watch` and `next_push` beside `Ipc`'s pushes; an explicit
   `watch_devices`; the permissions of snapshots, by the operations of `Access`.
