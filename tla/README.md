# Verification of lockdock

lockdock pins the macOS Dock to one display. A daemon keeps an event tap that
drops cursor movements towards the Dock edge of every other display, moves the
Dock back when macOS takes it elsewhere, and remembers the pinned display by its
hardware identity, so that the pin survives disconnections and restarts. A
command-line client talks to it over a Unix socket.

This directory holds TLA+ models of that program, the TLC configurations that
check them on small instances, and theorems about them that the TLA+ proof
system checks for all values of the constants. Paths below are relative to the
repository; `src/` precedes them in `PROJECT.json`.

Contents: [the system](#the-system) · [the modules](#the-modules) ·
[the runs](#the-runs) · [fairness](#fairness) · [the proofs](#the-proofs) ·
[what the models leave out](#what-the-models-leave-out) ·
[disagreements found](#disagreements-found) · [plan](#plan)

## The system

| component | code | state it keeps | operations |
|---|---|---|---|
| daemon main loop | `lockdock-daemon/src/daemon.rs` | snapshot, `PollState` (pending list, next poll, metadata retry, cooldown), `SHUTDOWN_REQUESTED` | boot, poll, handle a request, shut down |
| lock controller | `lockdock-daemon/src/controller.rs` | none of its own | `apply_set_state`, `apply_unlock`, `reconcile_display_state`, `relocate_display_until_current` |
| lock enforcement | `lockdock-daemon/src/display_lock.rs` | `LOCK_TARGET`, `DOCK_SUPPORTED`, `DISPLAY_CACHE`, `EVENT_TAP` | set or clear the target, refresh the cache and the Dock support, suppress an event |
| snapshot and identity | `lockdock-daemon/src/display_state.rs` | displays, location and metadata as last seen | refresh status, location or metadata; find a display by identity |
| saved preference | `lockdock-daemon/src/preferences.rs` | four keys of the user defaults and a legacy one | save, load, clear |
| relocation | `lockdock-daemon/src/relocation.rs` | the cursor, for a moment | choose a point of the edge, walk and nudge the cursor there until the Dock follows, verify, restore the cursor |
| event tap | `lockdock-mouse/src/event_tap.rs`, `native/mouse.c` | `HANDLER`; thread, run loop, tap and flags under `g_event_mutex` | start, drop, the tap thread, its callback |
| cursor and synthetic events | `lockdock-mouse/src/event_source.rs` | none | post and warp |
| control socket ownership | `lockdock-ipc/src/server.rs` | socket path, lock file | `bind`, `Drop` |
| request transport, shutdown | `lockdock-ipc/src/{server,client,transport}.rs`, end of `run()` | backlog, channel, the accept thread | connect, accept, read, send, answer, stop |
| message format | `lockdock-ipc/src/protocol.rs` | none | JSON |
| display and Dock detection | `lockdock-display/src/{displays,dock,dock_process}.rs`, `native/display.c` | `g_dock_window_id` | list displays, find the Dock's window, tell the display it is on |
| display metadata | `lockdock-display/src/system_profiler.rs` | none | run `system_profiler`, parse |
| geometry | `lockdock-geometry/src/lib.rs` | none | rectangles |
| command line, service control | `lockdock/src/{lockdock,homebrew}.rs` | the jobs registered with launchd | enable, disable, lock, unlock, list |
| logging, installer, build | `logging.rs`, `install.sh`, `Makefile` | one flag | |

**How they interact.** One process has three threads. The *main thread* polls
every two seconds, handles one request at a time and makes every change of the
lock, the preferences and the snapshot. The *accept thread* reads one connection
at a time and passes complete requests through a channel; main answers on the
connection itself. The *tap thread* runs a Core Foundation run loop and calls
`should_suppress_event`, which reads the atomics and the cache and, when the Dock
is not at the bottom, stores 0 in `LOCK_TARGET`. Starting and dropping the tap is
done by main and waits for the tap thread. A signal handler sets
`SHUTDOWN_REQUESTED`. Everything else is shared with macOS and the user, who
change the display list, the Dock and the cursor whenever they like: each read of
that state may be out of date before it is used.

**What is hard.** A poll makes up to a dozen reads of the environment, and the
handlers share the snapshot with it; a display list may be taken in by a path
that does not load metadata or debounce; set_state commits the lock and the
preference in several steps, each of which can fail, while the process may crash;
the tap's two stores interleave with main's; the tap thread is started, fails and
is joined through three flags and a condition variable; several daemons may be
started on one path with the remains of a crashed one there; shutdown has to wake
a thread blocked in `accept`. A relocation shares the cursor with the user and is
watched by the daemon's own tap; the Dock it waits for moves, hides and restarts
between the reads that look for it, and its ids change hands. The pin is four keys
written one after the other by daemons that two jobs with different rules start
again. `PROJECT.json` lists each of these hazards at its
line with the properties that would show it going wrong.

**What makes each component correct.**

* Main loop, controller, snapshot and preference: the lock in force, the file and
  what clients were told agree; a pin that was acknowledged is durable and is
  restored, on that display and no other; an unlock is final; lists are debounced;
  polls recur; a termination is honoured.
* Enforcement: no lock without a tap; a locked Dock stays where it is.
* Event tap: native calls are serial, there is one thread, the handler outlives
  the callbacks, nothing is left behind, starts and drops come back.
* Socket: one daemon works on the path, a live socket or a file is never taken
  away, a stale one is replaced.
* Transport: no request is lost or carried out twice, every client hears back, a
  client without an answer knows that nothing was done, shutdown ends.
* Relocation and geometry: the point the cursor is pushed at lies on the display
  and cannot let it escape to another; the cursor goes back in the end, unless the
  user took it, and then it is the user's; success is reported only for a Dock that
  was there.
* Dock detection: the lookup, made of several reads, answers as if made at once.
* Preference and service: the keys behave as one preference; what `enable` and
  `disable` answer is so; an acknowledged pin survives the daemon that wrote it.

## The modules

| module | models | extends |
|---|---|---|
| `Daemon` | main thread, lock, snapshot, preference and environment | |
| `DaemonProperties` | its properties | `Daemon` |
| `DaemonProofs` | its theorems | `DaemonProperties` |
| `EventTap` | `event_tap.rs` and `mouse.c` | |
| `TapContract` | what a tap promises its user (abstract) | |
| `EventTapProperties` | its properties and the refinement mapping | `EventTap`; instance of `TapContract` |
| `EventTapProofs` | its theorems | `EventTapProperties` |
| `SocketOwnership`, `SocketOwnershipProofs` | `Server::bind` and `Drop` | |
| `IpcServer` | clients, accept thread, channel, main loop as a server, shutdown | |
| `IpcServerProofs` | its theorems | `IpcServer` |
| `EdgeGeometry` | rectangles, the suppression zone, the display of a window, the trigger point | |
| `EdgeGeometryProofs` | theorems about its operators | `EdgeGeometry` |
| `EdgeSweep` | the loop of `find_safe_edge_segment` | `EdgeGeometry` |
| `EdgeSweepProofs` | that the loop finds what `EdgeGeometry` names | `EdgeSweep`, `EdgeGeometryProofs` |
| `DockWindow` | the window list and the lookup of the Dock in it | `EdgeGeometry` |
| `Relocation` | one relocation and the lookup after it | `DockWindow` |
| `RelocationProperties` | its properties | `Relocation` |
| `RelocationProofs` | its theorems | `RelocationProperties`, `EdgeGeometryProofs` |
| `Preferences` | `preferences.rs`, key by key | |
| `PreferenceContract` | what a saved preference promises (abstract) | |
| `Service` | `enable`, `disable`, launchd's two jobs | |
| `Persistence` | the pin across the lives of the daemon; the refinement mapping | `Preferences`, `Service`; instance of `PreferenceContract` |
| `PersistenceProofs` | its theorems | `Persistence` |
| `MC…` | values for TLC | the properties of each |

What `Daemon` abstracts, other modules open in two places. It takes a
relocation as one step with five outcomes and a Dock lookup as one read that may
fail; `Relocation` and `DockWindow` open them, and `RelocatedMeansThere` and
`LookupIsLinearizable` are what `Daemon` relies on. `Daemon` takes a write of the
preference that breaks off to leave the old identity or any other; `Preferences`
opens it, and `KeepsContract` shows that it leaves the old fields and the new ones
mixed, and nothing but the old when old and new are equal.

A definition whose name begins with `Buggy` is a plausible mistake in the
definition after it: a dropped guard, a missing reset, a swapped order. No
specification uses it. For each property of a passing run `PROJECT.json` names one
("mutants"); put in the place of the correct definition it makes TLC find the
property violated, so the property depends on that line of code.

### `Daemon`

The state follows the code: `lockTarget`, `dockSupported`, `tap` and `cache` are the
statics of `display_lock.rs`; `displays`, `location` and `info` the snapshot;
`pending`, `infoRetry`, `cooldown` and `nextPoll` the `PollState`; `saved` the
preferences. The clock is a set of count-downs, in ticks. `active`, `dock` and
`orientation` are macOS. `pc`, `task`, `goal`, `want` and `attempt` say where the main
thread is and on whose behalf; `acked`, `writeFailed`, `seen` and `steady` are
history, read by properties only.

A step of the main thread reads the environment once at most, where the order of
reads matters; two reads are merged only if nothing between them could tell the
difference (the cache is filled when the metadata is read; the bounds query and
the status query of a poll that finds the list unchanged). Every handler is
modelled to its end, with its early returns, in the order of the code:

| code | actions |
|---|---|
| `run`, boot | `BootStatus`, `BootInfo`, then `Reconcile` … `RefreshAfterReconcile` |
| `run`, loop | `Loop`, `ReceiveTimeout`, `Exit` |
| `poll_display_changes` | `PollDisplays`, `RetryInfo`, `ChangedInfo`, `ChangedStatus`, `Unchanged`, `HealCheck` |
| `reconcile_display_state` | `Reconcile`, `Query`, and the shared steps below |
| `relocate_display_until_current` | `RelocateMissing`, `…Sideways`, `…Moves`, `…Interrupted`, `…TimesOut`, `Settle` |
| `set_lock_target`, `clear_lock_target` | `SetLock`, `SetLockFails`, `Release`, `Join` |
| `preferences.save`, `.clear` | `Save`, `Forget` |
| `get_state`, `set_state`, `unlock` | `GetState`, `SetStateRefused`, `SetStateAccepted`, `Commit`, `UnlockRequest` |
| `should_suppress_event` | `Suppressed`, `CallbackStarts`, `CallbackClears` |
| `lockdock_mouse_event_callback`, of a disabled tap | `TapReenabled` |

The environment (`ChangeLayout`, `DockMoves`, `DockAppears`, `ChangeOrientation`,
`PushEdge`, `TapDisabled`, `Crash`, `Terminate`, `Start`) is as free as the program must bear. Each
spontaneous change and each failure of a call costs one unit of
`MaxDisturbances`; pushes of the user at another display's edge cost nothing while
a lock stands, and `get_state` is never bounded, since those are what the daemon
has to withstand without limit. A tap that macOS has disabled drops nothing: until its
callback enables it again the Dock goes where the user pushes it, and a poll has to
bring it back. A write of the preferences that fails or is cut
short by a crash leaves `PartlyWritten`: any identity at all (a mixture of old and
new may be any), or `Torn`, which matches no display; when what is written is what
is saved already, only that.

### `EventTap` and `TapContract`

`pc` is where each caller is in `EventTap::start` or `drop`, `phase` where each tap
thread is in `lockdock_mouse_event_thread`. A critical section under
`g_event_mutex` is one step, a `pthread_cond_wait` loop a guard, a `pthread_join`
waits until `phase` is `"ended"`. `handler` is the `HANDLER` slot; the handler runs
while that mutex is held, so `ClearHandler` and `Register` wait for a callback that
is under way. Creation of the thread, tap or source may fail, macOS may disable the
tap and a run loop may end by itself (`MaxFaults` of these). A second start fails
with `AlreadyRunning` and changes nothing, so it is no step. `CFRunLoopStop` acts on
the run under way: asked before `CFRunLoopRun`, it is lost.

`TapContract` says what the user relies on: one owner at a time, whose handler is
called only between a claim and the matching release. `KeepsContract` maps the owner
to `handler` and "may be called" to "some thread is in its run loop".

### `SocketOwnership`

One step per system call of `bind` (`flock`, `lstat`, `connect`, `unlink`, `bind`)
and of `Drop` (the path first, then listener and lock). `path` is what lies at the
path: nothing, a file, a stale socket, another program's listener or a daemon's
socket. Daemons crash anywhere; other programs write, listen, end and remove. A
daemon that finds the lock taken returns an error and changes nothing.

### `IpcServer`

`session` is a client's side of its one connection, `backlog`, `inHand`, `queue` and
`answering` are where the connection is on the daemon's. Clients may stay silent
(the read times out), send too much, quit at any point and come again. The end of
`run()` is four steps: drop the receiver, connect to oneself, join, end. What a
request does is `Daemon`'s subject; here it is carried out or not (`carriedOut`). The
answer may fail (`RespondFails`: too large, or the write ends in an error), which the
code logs and leaves at that: `session` is then `"cut"`, the one way a client whose
request was carried out can be left without an answer. It cannot tell this from a
request that was dropped (`"failed"`), the state `UnansweredMeansUndone` speaks of.

### `EdgeGeometry`, `DockWindow`, `Relocation`

`EdgeGeometry` is operators only, over rectangles of whole points (macOS gives
display bounds in whole points; the code's halves appear as one division each).
`SafeEdgeSegment` says what `find_safe_edge_segment` finds, the first of the widest
gaps, without the order in which its loop meets them; the loop itself, round by
round, is `SweptSegment` of `EdgeSweep`. That both are the same is proved, and
evaluated by TLC for every set of up to three overlaps on an edge of ten points
(`SweepAssumption` of `MCRelocation`).

| code | definitions |
|---|---|
| `Rect::contains`, `Rect::intersection` | `RectContains`, `IntersectionArea` |
| `display_for_rect`, `nearest_display` | `DisplayForRect`, `NearestDisplay` |
| `should_suppress_event`, its two helpers | `ShouldSuppress` |
| `collect_edge_overlaps`, `find_safe_edge_segment`, `choose_trigger_coordinate` | `EdgeOverlaps`, `SafeEdgeSegment`, `TriggerX` |
| the loop of `find_safe_edge_segment`, `update_best_segment` | `SweepStates`, `Advance`, `Wider` |

`DockWindow` has macOS's side (`layout`, the Dock's bar `dock`, what each process id
runs, another program's windows, the shields of Mission Control) and the lookup's:
`dockWindowId` is `g_dock_window_id`, `lookup` the next read, `answer` its result. The
cached id, the windows on screen, all windows and the Accessibility API are read in
steps of their own, between which the Dock moves, hides, quits and starts under other
ids. `shown` is history: where the bar was since the lookup began.

`Relocation` is `relocate_display` with `pc` and the loop counter `count`; `cursor` is
macOS's. Posting or warping, the sleep, and the check are separate steps, and the user
moves the mouse between any two, except where the daemon's own tap drops the event.
`locked` is the target when a lock is being healed and nothing otherwise: the two
cases in which the code relocates. `userMoved` and `grabbed` are history.

| code | actions |
|---|---|
| `relocate_display` | `Begin`, `Approach`, `CheckApproach`, … `CheckRestore`, `Restore` |
| `smooth_move` | `Walk`, `CheckWalk` |
| `wait_for_dock_relocation` | `Nudge`, `CheckNudge`, `Probed`, `VerifyStarts`, `Verified`, `TimeOut` |
| `dock_window_display` | `StartLookup`, `LookupStep` (`ReadCached`, `Discover`) |
| the query after it (controller.rs:162) | the same with `ReadAccessibility`, `Settled` |

Assumed: the layout stays as it is during one relocation (`Daemon` has layouts that
change); the cursor's location can be read and events can be created; a warp and the
event posted right after it are one step; displays do not overlap and are large
enough for the Dock's bar, which is 10 to 512 points high; the Dock owns one bar
window, and hides only where no display lies below or begins right there, so that
the nearest display is the one it left.

### `Preferences`, `PreferenceContract`, `Service`, `Persistence`

`Preferences` holds the file (`store`, a value or `Missing` for each key) and the writes
still to make (`todo`); `Save` and `Clear` begin, `WriteKey` makes the next write,
`BreakOff` is a failing write or the end of the process. The file may begin with the
legacy key or with numbers no version wrote. A write that returned is taken to be
durable, as the preferences system promises. `PreferenceContract` is what remains when
one looks only at what `load()` returns: one identity, replaced at once, or mixed when
a write breaks off. `KeepsContract` maps it to `Load` of the file when nothing is being
written, and to the identity loaded when the write began otherwise.

`Service` is the two jobs of launchd and the commands that register them. `job` is
each job's state, `cli` the step of the command under way: `"agent"` for a standalone
program, `"legacy"` and `"brew"` for one in a Cellar. What a failed command did is not
taken back. launchd starts the agent again after a crash only, brew's job always; a
daemon told to stop by somebody else (`Terminate`) exits without a crash.

`Persistence` puts both together: the running daemon makes requests' writes, a crash
or a logout breaks them off, the next daemon loads the file. A daemon whose
preferences cannot be read at boot works without a pin (`DaemonBoots`), until a poll
can read them (`DaemonHeals`; daemon.rs:75-77, :192). One command runs at a time, and a command that unloads a job lets its daemon finish what it is writing
(`SIGTERM` is looked at between two requests).

## The runs

| run | configuration | checks | expected |
|---|---|---|---|
| `daemon` | 2 displays; lists `<<>>`, `<<d1>>`, `<<d2, d1>>`; `d2` saved; 3 disturbances; 1 command | 7 invariants, 5 liveness properties | pass |
| `relock_stale_metadata` | 2 displays; lists of `d1` or both; `d2` saved; 1 disturbance; no command | `ReconnectedPinIsRestored` | violated |
| `changed_during_cooldown` | intervals 2, 5 and 15 as in the code | `PollRelocatesAfterCooldown` | violated |
| `heal_undebounced` | 2 disturbances, 1 command | `PollRelocatesDebounced` | violated |
| `event_tap` | 2 callers, 2 threads, 3 faults | 5 invariants, the refinement, 2 liveness properties | pass |
| `tap_unlock` | the same, no faults | `UnlockKeepsDaemonAvailable` | violated |
| `socket_ownership` | 2 daemons, 2 crashes, 1 removal | 3 invariants, 1 action property, 1 liveness property | pass |
| `ipc_server` | 2 clients, 1 removal of the socket file | 3 invariants, 2 liveness properties | pass |
| `ipc_socket_removed` | 2 clients, 1 removal | `ShutdownStopsIpcThread` | violated |
| `relocation` | 14 layouts of 2 or 3 displays; 1 or 2 disturbances; 3 walk steps, 3 nudges, a probe after every 2nd, 1 verification | 5 invariants, 1 action property | pass |
| `two_pixel_area` | 1 layout with a gap of two points; 1 disturbance | `TwoPixelsSuffice` | violated |
| `persistence` | 3 identities; 4 files; 2 faults | 2 invariants, the refinement, 1 liveness property | pass |

**Why the bounds are enough.** *Displays and lists:* the code compares whole lists,
looks for one display in a list and takes the first match; two displays give lists
that shrink, grow and empty, that lose the locked display, and in which a display
changes its place (`d1` is first alone, second when `d2` comes). *Disturbances:* the hard
cases pair a change with a failure (a display goes, and the relocation or the write
that follows fails) and a third event (a crash, or the display coming back), and a
list that is seen, goes and comes again takes three; more would repeat them. That the
seven invariants survive any number is proved. They bound what macOS does, never
`get_state` or what the user pushes. *Timers:* the properties depend on the order in which timers run out, except
the cooldown, for which the real 2, 5 and 15 seconds are used; with 1, 2 and 2
ticks every order occurs. *Attempts:* two give a retry and a last failure.
*Commands:* the pin saved before stands for an earlier set_state, the one command
follows it; longer sequences are left to the proofs. *Taps:* a second caller
contends with the first; two threads would show a thread created before the last
was joined, which is what must not happen. *Socket:* two daemons contend; with two
crashes a daemon that replaces a stale socket can itself leave one; one removal is
needed for the socket a daemon no longer has. *Clients:* two make one wait behind
the other; each comes back any number of times. *Layouts:* a second display beside the
main one, lower, higher, at its corner, and below it, meeting the edge at either end,
in the middle, wholly, by 2 and 3 points and by all but 4; and two below with a gap
between them and to their sides; so the preferred trigger is free or taken, and the
widest gap is left, right or between. *Loops:* three walk steps are a first, an inner and a
last one, three nudges with a probe after the second give a nudge before, with and
after a probe; the real 10, 40 and 3 repeat these. *Disturbances of a relocation:*
two on one layout, enough for a Dock that quits and an id taken by another program,
one on the others, whose subject is the geometry; the Dock's start costs none.
*Identities:* two that differ in one field show a mixture, the built-in one has the
flag and no serial. *Faults:* with two, a write breaks off and the next start fails,
or a command fails after a reinstallation; crashes, failures and logins share them.

`CHECK_DEADLOCK FALSE` appears in `ipc_server` and `ipc_socket_removed`: with the
socket file removed the daemon can hang on shutdown (see the findings) and nobody
can connect; and in `relocation` and `two_pixel_area`, whose scenario ends with the relocation. Everywhere
else TLC also checks that the system never stops.

## Fairness

* `Daemon`: the main thread is scheduled, time passes, a callback returns (it takes
  no lock that somebody who waits for it holds), a Dock that is not found is found
  again, macOS tells the callback of a tap it has disabled, which enables it again,
  and launchd restarts a crashed daemon (`KeepAlive` after an unsuccessful exit).
  All are weak. No client, user or display is obliged to do anything, and a
  daemon that exited is started again by nobody in particular. The liveness
  properties are of the form "once the environment is quiet …".
* `EventTap`: weak for the code of each caller that does not depend on its will and
  for each tap thread; strong for leaving the run loop, since `CFRunLoopRun` looks at
  its stop flag after every callback: events cannot keep it from leaving, although
  leaving is not enabled during a callback. Nobody has to start or drop a tap.
* `SocketOwnership`: weak for a daemon inside `bind` or `Drop`, whose calls do not
  wait; strong for taking the lock, since daemons are started again and again and
  the lock is free only at times. No daemon has to end.
* `IpcServer`: weak for the two threads (`read` has a timeout). Clients owe nothing.
* `Persistence`: weak for the running daemon's writes, for the start of a daemon that
  can start, for a poll's reading of preferences that can be read in the end, and
  for each restart launchd owes a job. No request, command or login
  has to come; a daemon whose agent was given up by launchd is nobody's to start.
* `Relocation` has safety properties only: every loop in it is bounded by a counter.

## The proofs

All theorems hold for every value of the constants that satisfies the `ASSUME`s of
the module: any finite or infinite set of displays and lists without duplicates, any
intervals, any number of callers, threads, daemons, faults and crashes.

**`DaemonProofs`** — `DaemonInvariant`, and from it `TypeCorrect`, `LockIsEnforced`,
`LockAgreesWithPreferences`, `AcknowledgedPinIsDurable`, `AcknowledgedUnlockIsFinal`
and `RestoredLockIsTheAcknowledgedOne`; `ChangesAreDebounced` from an invariant of
its own. The safety properties are not inductive: "an acknowledged pin is saved"
survives a `Save` only because a save belongs to a set_state that has withdrawn the
acknowledgement. The strengthening is `DaemonInv == TypeOK /\ ControlInv /\ PinInv`.
`ControlInv` says which `task` and `goal` each step can have (and that a step that
will lock has a display to lock); `PinInv` ties lock, file and acknowledgement
together at *every* step, with the steps of a set_state or unlock under way as named
exceptions. `DebounceInv` says that a pending list is the one the last poll saw.
The last theorem's statement names the assumption that identities tell the displays
apart; without it the code takes the first display that matches.

**`EventTapProofs`** — `TapInvariant`, and from it the five invariants of `event_tap`,
two more that only the proof states (`NativeCallsNeverOverlap`,
`HandlerOutlivesCallbacks`), and `TapKeepsContract`, the refinement: initial states map to initial states and
every step maps to a step of `TapContract` or a stutter. The argument is that
`handler` is a token: `TokenInv` says its owner is the only caller that is not idle,
so `PlaceInv` can state, for each place of that one caller, what the flags and the
threads are; `ThreadInv` says that every thread that exists is the one it created and
`QuietInv` that without an owner nothing is left. None is inductive alone: the flags
are right because callers are serial, and they are serial because the token is given
back only after the join.

**`SocketOwnershipProofs`** — `SocketInvariant`, the three invariants, and the action
properties `LiveSocketStays` and (proved, not in a run) `FileStays`. `PathInv` records what a daemon that
holds the lock knows of the path between two system calls ("nothing but a removal
can have changed the stale socket I am about to remove"), which is what makes
inspect, probe, remove and bind safe although they are separate calls.

**`PersistenceProofs`** — `WriteInvariant` and `ServiceInvariant`, and from them
`TypeCorrect`, `AnswersStayTrue` and `PreferenceKeepsContract`, for any identities, any
file to begin with and any number of faults. That the last write leaves the goal
does not follow from the file alone: `GoalInv` says that the writes still to be made
carry the goal's numbers, and `MixtureInv` that a field which is not among them has
its number already and every other is the old one or the new one. So the write that
empties `todo` maps to `Complete`, one that breaks off to `BreakOff`, and the others to
stutters. `CommandInv` adds to `AnswersAreTrue` that a command has no answer before it
ends and reaches `"brew"` only when the older agent is gone. The argument needs of the
file only that a missing key is no number (`FilesAssumption`).

**`IpcServerProofs`** — `IpcInvariant`, and from it `TypeCorrect`,
`ConnectionsHaveOneHolder` and `UnansweredIsUndone`, for any number of clients that
connect, stay silent, quit and come back in any order, and any number of requests.
`OneHolder` counts the entries of the backlog, the accept thread, the channel and the
main loop that a client has, and a step that moves an entry keeps the count only if
the place it moves to did not have the client yet. So `PlacesInv` says that no list
has a client twice and the four places are disjoint, and `OpenInv` that what they hold
is exactly what is open; neither holds without the other, for a client is appended to
the backlog on the ground that it was not open. `CarriedOutInv` says that a request
that was carried out is being answered, was, or was answered in vain, `ThreadInv` when the accept thread is
there.

**`RelocationProofs`** — `RelocationInvariant`, and from it all properties of the run
`relocation`: `TypeCorrect`, `LookupIsAtomic`, `RelocatedIsSeen`, `CursorReturns`,
`TakenCursorStays` and `TriggerStaysOnTarget`, for every arrangement of displays, every
place the user moves the cursor to, any numbers of steps and attempts and any number
of disturbances. Of the constants it needs what `LayoutsAssumption` and
`SentinelAssumption` say: displays that do not overlap and are at least four bars
wide, and a bar of 10 to 512 points, so that a hidden one is still near its display. The invariant has a part for the lookup and one for the job.
`LookupIsLinearizable` speaks of the end of a lookup only; `LookupInv` says what
each read may rely on (the bar's place is in `shown` since the lookup began; the
Accessibility API is asked only after there was no bar), `OwnersInv` that an id is the
Dock's exactly while it owns the bar, which is why the owner check makes a recycled
window id harmless, and `HiddenInv` that a hidden bar has room, which is why the
nearest display is the one it slid off. Of the job, `CountInv` gives the bounds of each
loop, `EdgeInv` that the point is the one chosen at the beginning, `UntouchedInv` that
without the user's hand the cursor stays within the tolerance of where it was put (so
no check mistakes the code's own moves for the user's, and the restore is not given
up), `GrabbedInv` that a taken cursor is noticed at the next check.

**`EdgeGeometryProofs`** — the operators behind it: a window on a display belongs to it,
a strip below one that has room there to it too, and `TriggerIsFree`: whenever the
bottom edge of a display has four free columns side by side, the trigger is a free
one. The argument goes from neighbouring free columns to a gap between overlaps
(`GapAround`), from there to the width of the segment chosen (`SafeSegmentFacts`),
and from the middle of that segment, two points away from its ends, back to columns
(`ClearColumnsAreFree`); two points are what contacts that do not count may take.

**`EdgeSweepProofs`** — `SweepIsCorrect`: the loop returns that segment, for every edge and
every sorted vector of overlaps, also with duplicates, which mirrored displays
produce. After `i` rounds the cursor is how far the first `i` overlaps reach, and the
best is the best of the gaps between them (`SweepInv`). The library's induction
theorems take an operator as a parameter and cannot be cited; the induction here, and
the existence of the recursive function, are by the least counterexample
(`LeastNumber`, from the well-foundedness of `<`).

**Only model-checked:** every liveness property (the prover has no support for
`ENABLED`, so fairness is out of its reach) and the violated properties. Every safety
invariant and action property of a passing run is proved.

## What the models leave out

* *Texts and formats*: labels, names, JSON, log lines, arguments.
* *Halves of points*: widths of segments are divided with the remainder dropped.
* *The composition of `Daemon` with `Relocation` and `Preferences`*: each stands for
  the other's interface, as said above; one model of both would be out of reach.
* *Accessibility*: the API names the bar or nothing; that it is the same window is
  assumed.
* *A preference of another type*: what the `prefs` crate answers for it is not in the
  repository; a read that fails for a while is.
* *A dead tap that is still held*: `EventTap` has run loops that end by themselves,
  `Daemon` takes a held tap to work. Whether macOS ever ends one is not known from
  the source.
* *Clients' intentions*: a set_state names a display by an index that may be out of
  date; the protocol has nothing to compare it with.
* *A cursor that cannot be read* counts as (0, 0) in the code (relocation.rs:229), so a
  relocation would put the cursor there; CoreGraphics is taken to answer.
* Which messages are too large (any answer may be) and the limit of 32 displays; the parsing of `system_profiler`'s
  output, of arguments and of JSON; installer and logging.

## Disagreements found

Each is a run in which TLC finds that the code does not do what a document, a
comment or the changelog says. The quotations and lines are in `PROJECT.json`.

1. `relock_stale_metadata` — a display that `refresh_status()` takes into the snapshot
   without its metadata is never matched, so never relocked, until the list changes.
2. `changed_during_cooldown` — the changed-list branch ignores the cooldown.
3. `heal_undebounced` — a list that set_state took in is acted upon by the first poll
   that sees it.
4. `tap_unlock` — `CFRunLoopStop` between the publication of the tap and
   `CFRunLoopRun` is lost and the join waits for ever (a window of a few
   instructions).
5. `ipc_socket_removed` — with the socket file removed, shutdown joins an accept
   thread that nothing wakes.
6. `two_pixel_area` — two free points are not enough: contacts of up to two points are
   not counted (relocation.rs:143), so a gap of two points beside one passes for four
   and its middle is the first point of the neighbour. `TriggerIsSafe` therefore
   speaks of four free columns, which `TriggerIsFree` shows to be enough.

Two more things the models make plain, where no document says otherwise: of two
displays with equal identities the first in the list is locked, and a set_state
whose last refresh fails is answered with failure although it has locked and saved.

## Plan

What is left, in the order of importance:

1. `PinContract`: the abstract pin (none, wanted, in force) that a client sees,
   refined by `Daemon`.
2. `TapAndLock`: `Daemon`'s lock with `EventTap` under it, to follow a tap that ended
   while it is held, and a drop that does not come back.
