------------------------------- MODULE Daemon -------------------------------
(***************************************************************************)
(* The lockdock daemon: the main thread of daemon.rs (boot, poll loop,     *)
(* requests, shutdown), the state it keeps (the display snapshot, the poll *)
(* state, the lock, the saved preference) and the environment it runs in:  *)
(* the displays macOS reports, the display that shows the Dock, the Dock's *)
(* orientation, the event-tap thread, the clients and the process itself,  *)
(* which may be terminated or crash at any point and be started again.     *)
(*                                                                         *)
(* One step of the main thread reads the environment at most once, so the  *)
(* environment may change between any two reads whose order matters.       *)
(*                                                                         *)
(* A definition named Buggy... is a plausible mistake in the definition    *)
(* that follows it; no specification uses it. Put in its place it makes a  *)
(* property fail, which shows that the property can (see the README).      *)
(***************************************************************************)
EXTENDS Integers, Sequences

CONSTANTS
  Displays,            \* the displays that can be connected (CGDirectDisplayID)
  Layouts,             \* the lists active_displays() can return
  Identity,            \* what system_profiler reports of each display
  InitiallySaved,      \* what the preferences may hold before the first boot
  NoDisplay,           \* 0 in LOCK_TARGET; None where a display is optional
  NoIdentity,          \* an identity that is not valid, and no saved identity
  Torn,                \* the identity left by a partly done write
  Unlocked,            \* history: the last acknowledged command was an unlock
  PollInterval,        \* DISPLAY_POLL_INTERVAL, in ticks of the clock
  RetryCooldown,       \* RECONCILE_RETRY_COOLDOWN
  InfoRetry,           \* DISPLAY_INFO_RETRY_INTERVAL
  RelocationAttempts,  \* RELOCATION_RETRY_ATTEMPTS
  MaxDisturbances,     \* bound: changes and failures the environment makes
  MaxRequests          \* bound: set_state and unlock requests clients make

Elements(list) == {list[i] : i \in DOMAIN list}
Identities == {Identity[d] : d \in Displays} \cup {NoIdentity, Torn}

ASSUME LayoutsAssumption ==
  /\ Layouts \subseteq Seq(Displays)
  /\ Layouts # {}
  /\ \A list \in Layouts : \A i, j \in DOMAIN list : list[i] = list[j] => i = j
ASSUME IdentityAssumption ==
  /\ DOMAIN Identity = Displays
  /\ \A d \in Displays : Identity[d] # Torn
  /\ NoIdentity # Torn
  /\ InitiallySaved \subseteq Identities
ASSUME SentinelAssumption ==
  /\ NoDisplay \notin Displays
  /\ Unlocked \notin Displays \cup {NoDisplay}
ASSUME NumbersAssumption ==
  /\ PollInterval \in Nat \ {0}
  /\ RetryCooldown \in Nat \ {0}
  /\ InfoRetry \in Nat
  /\ RelocationAttempts \in Nat \ {0}
  /\ MaxDisturbances \in Nat
  /\ MaxRequests \in Nat

VARIABLES
  active,         \* macOS: the active display list
  dock,           \* macOS: the display the Dock is found on, or NoDisplay
  orientation,    \* macOS: where the Dock is placed, "bottom" or "side"
  lockTarget,     \* LOCK_TARGET
  dockSupported,  \* DOCK_SUPPORTED
  tap,            \* EVENT_TAP holds a running tap
  cache,          \* the displays whose bounds DISPLAY_CACHE holds
  callback,       \* the tap's thread: "idle", about to store 0 ("clearing"), or
                  \* waiting for events while macOS has its tap "disabled"
  displays,       \* snapshot.status.displays
  location,       \* snapshot.status.location_index (from 1; 0: not loaded)
  info,           \* the displays snapshot.info has metadata of
  pending,        \* pending_displays: {} or {list}
  infoRetry,      \* time to info_retry_after, -1 when it is None
  cooldown,       \* time to reconcile_cooldown_until, 0 when it has passed
  nextPoll,       \* time to next_poll, 0 when the poll is due
  saved,          \* the identity in the preferences file
  pc,             \* the next step of the main thread
  task,           \* what the main thread is handling
  goal,           \* what the lock operation under way is for
  want,           \* the display that operation moves the Dock to and locks
  attempt,        \* relocation attempts made for it
  shutdown,       \* SHUTDOWN_REQUESTED
  disturbances,   \* bound: disturbances the environment still has
  requests,       \* bound: requests the clients still have
  acked,          \* history: display pinned by the last acknowledged command
  writeFailed,    \* history: the last write of the preferences failed
  seen,           \* history: the list the last poll saw, {} before the first
  steady          \* history: the last poll saw the list of the poll before it

macosVars    == <<active, dock, orientation>>
lockVars     == <<lockTarget, dockSupported, tap, cache, callback>>
snapshotVars == <<displays, location, info>>
pollVars     == <<pending, infoRetry, cooldown, nextPoll>>
controlVars  == <<pc, task, goal, want, attempt, shutdown>>
operation    == <<task, goal, want, attempt>>
boundVars    == <<disturbances, requests>>
pollHistory  == <<seen, steady>>
historyVars  == <<acked, writeFailed, seen, steady>>
vars == <<macosVars, lockVars, snapshotVars, pollVars, saved, controlVars,
          boundVars, historyVars>>

MaybeDisplay == Displays \cup {NoDisplay}

Tasks == {"idle", "boot", "changed", "heal", "unsupported", "set", "unlock"}
Goals == {"none", "forget", "gone", "hold", "restore", "pin", "exit"}
Steps == {"exited", "crashed", "boot_status", "boot_info", "loop", "recv",
          "poll", "retry_info", "unchanged", "heal", "changed_info",
          "changed_status", "reconcile", "query", "relocate", "settle",
          "set_lock", "save", "commit", "forget", "release", "join",
          "refresh"}

Running == pc \notin {"exited", "crashed"}
AtRest == pc \in {"loop", "recv"}

Init ==
  /\ active \in Layouts
  /\ dock \in Elements(active) \cup {NoDisplay}
  /\ orientation = "bottom"
  /\ lockTarget = NoDisplay /\ dockSupported = TRUE /\ tap = FALSE
  /\ cache = {} /\ callback = "idle"
  /\ displays = <<>> /\ location = 0 /\ info = {}
  /\ pending = {} /\ infoRetry = -1 /\ cooldown = 0 /\ nextPoll = 0
  /\ saved \in InitiallySaved
  /\ pc = "boot_status" /\ task = "boot" /\ goal = "none"
  /\ want = NoDisplay /\ attempt = 0 /\ shutdown = FALSE
  /\ disturbances = MaxDisturbances /\ requests = MaxRequests
  /\ acked = NoDisplay /\ writeFailed = FALSE /\ seen = {} /\ steady = TRUE

Disturb == /\ disturbances > 0
           /\ disturbances' = disturbances - 1
           /\ UNCHANGED requests
Undisturbed == UNCHANGED boundVars

-----------------------------------------------------------------------------
(***************************************************************************)
(* The environment: macOS, the user, the clock.                            *)
(***************************************************************************)
othersThanMacos == <<lockVars, snapshotVars, pollVars, saved, controlVars,
                     historyVars>>

\* Displays are connected, disconnected or reordered; the Dock, when its
\* display goes, is moved to another, and may be found on none for a while.
ChangeLayout ==
  /\ Disturb
  /\ active' \in Layouts \ {active}
  /\ dock' \in Elements(active') \cup {NoDisplay}
  /\ UNCHANGED orientation
  /\ UNCHANGED othersThanMacos

\* macOS moves the Dock without being asked, or the Dock is not found.
DockMoves ==
  /\ Disturb
  /\ dock' \in (Elements(active) \cup {NoDisplay}) \ {dock}
  /\ UNCHANGED <<active, orientation>>
  /\ UNCHANGED othersThanMacos

\* A Dock that was not found (it restarts, it slides) is found again.
DockAppears ==
  /\ dock = NoDisplay
  /\ dock' \in Elements(active)
  /\ UNCHANGED <<active, orientation, boundVars>>
  /\ UNCHANGED othersThanMacos

\* The user moves the Dock to a side of the screen, or back to the bottom.
ChangeOrientation ==
  /\ Disturb
  /\ orientation' = IF orientation = "bottom" THEN "side" ELSE "bottom"
  /\ UNCHANGED <<active, dock>>
  /\ UNCHANGED othersThanMacos

\* should_suppress_event: is a move to the bottom edge of display d dropped?
Suppressed(d) ==
  /\ tap /\ callback # "disabled"
  /\ dockSupported
  /\ lockTarget # NoDisplay
  /\ d \in cache
  /\ d # lockTarget

\* The user pushes the cursor against the bottom edge of another display,
\* which pulls the Dock there unless the event tap drops the movement. Users
\* push as often as they like while a lock stands, else they count as a
\* disturbance.
PushEdge(d) ==
  /\ orientation = "bottom"
  /\ d \in Elements(active) \ {dock} /\ dock # NoDisplay
  /\ ~Suppressed(d)
  /\ dock' = d
  /\ IF lockTarget = NoDisplay THEN Disturb ELSE Undisturbed
  /\ UNCHANGED <<active, orientation>>
  /\ UNCHANGED othersThanMacos

\* The clock: every timer that runs comes one tick closer.
Earlier(timer) == IF timer > 0 THEN timer - 1 ELSE timer
Tick ==
  /\ infoRetry > 0 \/ cooldown > 0 \/ nextPoll > 0
  /\ infoRetry' = Earlier(infoRetry)
  /\ cooldown' = Earlier(cooldown)
  /\ nextPoll' = Earlier(nextPoll)
  /\ UNCHANGED pending
  /\ UNCHANGED <<macosVars, lockVars, snapshotVars, saved, controlVars,
                 boundVars, historyVars>>

-----------------------------------------------------------------------------
(***************************************************************************)
(* The event tap's callback runs on the tap's thread. It reads             *)
(* DOCK_SUPPORTED and, when that is false, stores 0 in LOCK_TARGET: two    *)
(* steps with the main thread between them.                                *)
(***************************************************************************)
CallbackStarts ==
  /\ tap /\ ~dockSupported /\ callback = "idle"
  /\ callback' = "clearing"
  /\ UNCHANGED <<lockTarget, dockSupported, tap, cache>>
  /\ UNCHANGED <<macosVars, snapshotVars, pollVars, saved, controlVars,
                 boundVars, historyVars>>

CallbackClears ==
  /\ callback = "clearing"
  /\ callback' = "idle"
  /\ lockTarget' = NoDisplay
  /\ UNCHANGED <<dockSupported, tap, cache>>
  /\ UNCHANGED <<macosVars, snapshotVars, pollVars, saved, controlVars,
                 boundVars, historyVars>>

\* macOS disables the tap, after a slow callback or at the user's wish, and
\* sends no event through it until the callback, told so, enables it again.
TapDisabled ==
  /\ tap /\ callback = "idle"
  /\ Disturb
  /\ callback' = "disabled"
  /\ UNCHANGED <<lockTarget, dockSupported, tap, cache>>
  /\ UNCHANGED <<macosVars, snapshotVars, pollVars, saved, controlVars,
                 historyVars>>

TapReenabled ==
  /\ callback = "disabled"
  /\ callback' = "idle"
  /\ UNCHANGED <<lockTarget, dockSupported, tap, cache>>
  /\ UNCHANGED <<macosVars, snapshotVars, pollVars, saved, controlVars,
                 boundVars, historyVars>>

-----------------------------------------------------------------------------
(***************************************************************************)
(* The process: everything but the preferences file is lost when it ends.  *)
(***************************************************************************)
ProcessEnds(how) ==
  /\ pc' = how
  /\ task' = "idle" /\ goal' = "none" /\ want' = NoDisplay /\ attempt' = 0
  /\ shutdown' = FALSE
  /\ lockTarget' = NoDisplay /\ dockSupported' = TRUE /\ tap' = FALSE
  /\ cache' = {} /\ callback' = "idle"
  /\ displays' = <<>> /\ location' = 0 /\ info' = {}
  /\ pending' = {} /\ infoRetry' = -1 /\ cooldown' = 0 /\ nextPoll' = 0
  /\ seen' = {} /\ steady' = TRUE

\* What a write of several keys that stops half-way may leave behind: a field
\* by field mixture of the old and the new identity (PreferenceContract), which
\* may be the identity of any display, even a third one, or of none (Torn).
\* Writing again what is saved mixes nothing.
PartlyWritten(identity) ==
  IF saved = identity THEN {saved} ELSE Identities

Crash ==
  /\ Running
  /\ Disturb
  /\ ProcessEnds("crashed")
  /\ saved' \in CASE pc = "save"   -> PartlyWritten(Identity[want])
                  [] pc = "forget" -> PartlyWritten(NoIdentity)
                  [] OTHER         -> {saved}
  /\ UNCHANGED <<macosVars, acked, writeFailed>>

\* launchd, or the user, starts the daemon.
Start ==
  /\ ~Running
  /\ pc' = "boot_status" /\ task' = "boot"
  /\ UNCHANGED <<goal, want, attempt, shutdown>>
  /\ UNCHANGED <<macosVars, lockVars, snapshotVars, pollVars, saved, boundVars,
                 historyVars>>

\* launchd restarts the daemon by itself only after a crash.
Restart == pc = "crashed" /\ Start

\* SIGTERM or SIGINT.
Terminate ==
  /\ Running /\ ~shutdown
  /\ Disturb
  /\ shutdown' = TRUE
  /\ UNCHANGED <<pc, operation>>
  /\ UNCHANGED <<macosVars, lockVars, snapshotVars, pollVars, saved,
                 historyVars>>

-----------------------------------------------------------------------------
(***************************************************************************)
(* Where control goes.                                                     *)
(***************************************************************************)
Goto(next) == pc' = next /\ UNCHANGED <<operation, shutdown>>

Idle(next) ==
  /\ pc' = next
  /\ task' = "idle" /\ goal' = "none" /\ want' = NoDisplay /\ attempt' = 0
  /\ UNCHANGED shutdown

\* The poll is over: the next one is due one interval from now.
EndPoll == Idle("recv") /\ nextPoll' = PollInterval

\* What a client is told of when its command succeeds.
Commanded == IF task = "set" THEN want ELSE Unlocked

\* What the request's handler, or the caller of reconcile_display_state, does
\* with Ok and with Err.
Answered(success) ==
  /\ task \in {"set", "unlock"}
  /\ Idle("loop")
  /\ acked' = IF success THEN Commanded ELSE NoDisplay
  /\ UNCHANGED <<cooldown, nextPoll>>

Reconciled ==
  /\ task \in {"boot", "changed", "heal"}
  /\ pc' = "refresh"
  /\ goal' = "none" /\ want' = NoDisplay /\ attempt' = 0
  /\ cooldown' = 0
  /\ UNCHANGED <<task, shutdown, nextPoll, acked>>

ReconcileFailed ==
  /\ task \in {"boot", "changed", "heal"}
  /\ Idle(IF task = "boot" THEN "loop" ELSE "recv")
  /\ cooldown' = RetryCooldown
  /\ nextPoll' = PollInterval
  /\ UNCHANGED acked

UnsupportedHandled ==
  /\ task = "unsupported"
  /\ EndPoll
  /\ UNCHANGED <<cooldown, acked>>

Succeed == Answered(TRUE) \/ Reconciled \/ UnsupportedHandled
Fail == Answered(FALSE) \/ ReconcileFailed \/ UnsupportedHandled

\* A step that changes nothing but where control goes, and what that takes.
OnlyControl ==
  UNCHANGED <<macosVars, lockVars, snapshotVars, saved, pending, infoRetry,
              writeFailed, pollHistory>>

-----------------------------------------------------------------------------
(***************************************************************************)
(* Helpers on the snapshot.                                                *)
(***************************************************************************)
\* display_identity(d, info) is Ok: system_profiler reported a valid identity.
Identified(d) == d \in info /\ Identity[d] # NoIdentity

\* display_identity(d, info) is the saved identity.
BuggyIsPreferred(d) == Identified(d) /\ saved # NoIdentity
IsPreferred(d) == Identified(d) /\ Identity[d] = saved

\* find_active_display_by_identity: the first one in the list, or none.
Preferred ==
  LET matches == {i \in DOMAIN displays : IsPreferred(displays[i])}
  IN {displays[i] : i \in {k \in matches : \A j \in matches : k <= j}}

\* refresh_dock_support reads the orientation anew each time.
BuggyDockIsAtBottom == dockSupported
DockIsAtBottom == orientation = "bottom"

\* query_display_status: Ok when the Dock is found.
StatusKnown == dock # NoDisplay
RefreshStatus ==
  /\ displays' = active
  /\ location' \in {i \in DOMAIN active : active[i] = dock}
  /\ UNCHANGED info

-----------------------------------------------------------------------------
(***************************************************************************)
(* Boot (daemon.rs, run): load the snapshot or give up, then reconcile.    *)
(***************************************************************************)
BootStatus ==
  /\ pc = "boot_status"
  /\ \/ /\ ~StatusKnown
        /\ ProcessEnds("exited")
        /\ UNCHANGED <<macosVars, saved, boundVars, acked, writeFailed>>
     \/ /\ StatusKnown
        /\ RefreshStatus
        /\ Goto("boot_info")
        /\ UNCHANGED <<macosVars, lockVars, pollVars, saved, boundVars,
                       historyVars>>

BootInfo ==
  /\ pc = "boot_info"
  /\ \/ /\ Disturb
        /\ ProcessEnds("exited")
        /\ UNCHANGED <<macosVars, saved, acked, writeFailed>>
     \/ /\ info' = Elements(active)
        /\ Goto("reconcile")
        /\ UNCHANGED <<displays, location>>
        /\ UNCHANGED <<macosVars, lockVars, pollVars, saved, boundVars,
                       historyVars>>

-----------------------------------------------------------------------------
(***************************************************************************)
(* The loop (daemon.rs, run).                                              *)
(***************************************************************************)
BuggyStopRequested == FALSE
StopRequested == shutdown

Loop ==
  /\ pc = "loop"
  /\ \/ /\ StopRequested
        /\ pc' = "release" /\ goal' = "exit"
        /\ UNCHANGED <<task, want, attempt, shutdown>>
     \/ /\ ~StopRequested
        /\ Goto(IF nextPoll = 0 THEN "poll" ELSE "recv")
  /\ OnlyControl
  /\ UNCHANGED <<cooldown, nextPoll, acked, boundVars>>

ReceiveTimeout ==
  /\ pc = "recv" /\ nextPoll = 0
  /\ Goto("loop")
  /\ OnlyControl
  /\ UNCHANGED <<cooldown, nextPoll, acked, boundVars>>

\* get_state refreshes the location when the Dock is on a display it knows.
KnownLocation ==
  IF dock \in Elements(displays)
  THEN {i \in DOMAIN displays : displays[i] = dock}
  ELSE {location}

BuggyGetState ==
  /\ pc = "recv"
  /\ location' \in KnownLocation
  /\ nextPoll' = PollInterval
  /\ Goto("loop")
  /\ UNCHANGED <<displays, info, pending, infoRetry, cooldown>>
  /\ UNCHANGED <<macosVars, lockVars, saved, boundVars, historyVars>>

GetState ==
  /\ pc = "recv"
  /\ location' \in KnownLocation
  /\ Goto("loop")
  /\ UNCHANGED <<displays, info, macosVars, lockVars, pollVars, saved,
                 boundVars, historyVars>>

-----------------------------------------------------------------------------
(***************************************************************************)
(* set_state and unlock (controller.rs). A client names a display by its   *)
(* index in the list it was last told, which may have changed since.       *)
(***************************************************************************)
Request == /\ pc = "recv"
           /\ requests > 0
           /\ requests' = requests - 1
           /\ UNCHANGED disturbances

SetStateRefused(i) ==
  /\ Request
  /\ \/ i \notin DOMAIN displays /\ UNCHANGED dockSupported
     \/ /\ i \in DOMAIN displays
        /\ dockSupported' = DockIsAtBottom
        /\ \/ ~dockSupported'
           \/ ~Identified(displays[i])
           \/ ~StatusKnown
  /\ Idle("loop")
  /\ acked' = NoDisplay
  /\ UNCHANGED <<lockTarget, tap, cache, callback>>
  /\ UNCHANGED <<macosVars, snapshotVars, pollVars, saved, writeFailed,
                 pollHistory>>

SetStateAccepted(i) ==
  /\ Request
  /\ i \in DOMAIN displays
  /\ DockIsAtBottom /\ dockSupported' = TRUE
  /\ Identified(displays[i])
  /\ StatusKnown
  /\ task' = "set" /\ goal' = "pin" /\ want' = displays[i] /\ attempt' = 0
  /\ pc' = IF dock = displays[i] THEN "set_lock" ELSE "release"
  /\ acked' = NoDisplay
  /\ UNCHANGED <<lockTarget, tap, cache, callback, shutdown>>
  /\ UNCHANGED <<macosVars, snapshotVars, pollVars, saved, writeFailed,
                 pollHistory>>

BuggyUnlockRequest ==
  /\ Request
  /\ pc' = "release" /\ task' = "unlock" /\ goal' = "forget"
  /\ acked' = NoDisplay
  /\ UNCHANGED <<want, attempt, shutdown, cooldown, nextPoll>>
  /\ OnlyControl

UnlockRequest ==
  /\ Request
  /\ pc' = "forget" /\ task' = "unlock" /\ goal' = "forget"
  /\ acked' = NoDisplay
  /\ UNCHANGED <<want, attempt, shutdown, cooldown, nextPoll>>
  /\ OnlyControl

-----------------------------------------------------------------------------
(***************************************************************************)
(* The poll (daemon.rs, poll_display_changes).                             *)
(***************************************************************************)
\* An unchanged list ends a change that only one poll saw.
BuggyPendingAfterEqual == pending
PendingAfterEqual == {}

PollDisplays ==
  /\ pc = "poll"
  /\ \/ /\ active = displays
        /\ pending' = PendingAfterEqual
        /\ Goto(IF infoRetry = 0 THEN "retry_info" ELSE "unchanged")
        /\ UNCHANGED nextPoll
     \/ /\ active # displays /\ pending # {active}
        /\ pending' = {active}
        /\ EndPoll
     \/ /\ active # displays /\ pending = {active}
        /\ pending' = {}
        /\ Goto("changed_info")
        /\ UNCHANGED nextPoll
  /\ seen' = {active}
  /\ steady' = (seen \subseteq {active})
  /\ UNCHANGED <<infoRetry, cooldown, acked, writeFailed>>
  /\ UNCHANGED <<macosVars, lockVars, snapshotVars, saved, boundVars>>

RefreshInfo ==
  \/ /\ info' = Elements(active)
     /\ infoRetry' = -1
     /\ Undisturbed
  \/ /\ Disturb
     /\ infoRetry' = InfoRetry
     /\ UNCHANGED info

RetryInfo ==
  /\ pc = "retry_info"
  /\ RefreshInfo
  /\ Goto("unchanged")
  /\ UNCHANGED <<displays, location, pending, cooldown, nextPoll>>
  /\ UNCHANGED <<macosVars, lockVars, saved, historyVars>>

ChangedInfo ==
  /\ pc = "changed_info"
  /\ cache' = Elements(active)
  /\ RefreshInfo
  /\ Goto("changed_status")
  /\ UNCHANGED <<lockTarget, dockSupported, tap, callback>>
  /\ UNCHANGED <<displays, location, pending, cooldown, nextPoll>>
  /\ UNCHANGED <<macosVars, saved, historyVars>>

ChangedStatus ==
  /\ pc = "changed_status"
  /\ \/ /\ ~StatusKnown
        /\ EndPoll
        /\ UNCHANGED snapshotVars
     \/ /\ StatusKnown
        /\ RefreshStatus
        /\ pc' = "reconcile" /\ task' = "changed"
        /\ UNCHANGED <<goal, want, attempt, shutdown, nextPoll>>
  /\ UNCHANGED <<pending, infoRetry, cooldown>>
  /\ UNCHANGED <<macosVars, lockVars, saved, boundVars, historyVars>>

\* The list is unchanged: bounds, location and orientation are read again.
Unchanged ==
  /\ pc = "unchanged"
  /\ cache' = Elements(active)
  /\ location' \in KnownLocation
  /\ dockSupported' = DockIsAtBottom
  /\ \/ dockSupported' /\ pc' = "heal" /\ UNCHANGED task
     \/ ~dockSupported' /\ pc' = "reconcile" /\ task' = "unsupported"
  /\ UNCHANGED <<goal, want, attempt, shutdown>>
  /\ UNCHANGED <<lockTarget, tap, callback, displays, info, pollVars>>
  /\ UNCHANGED <<macosVars, saved, boundVars, historyVars>>

\* dock_needs_healing: the Dock is away from the lock, or a preference whose
\* display is connected is not locked yet.
BuggyNeedsHealing ==
  lockTarget # NoDisplay /\ dock \notin {NoDisplay, lockTarget}

NeedsHealing ==
  \/ lockTarget # NoDisplay /\ dock \notin {NoDisplay, lockTarget}
  \/ lockTarget = NoDisplay /\ Preferred # {}

HealCheck ==
  /\ pc = "heal"
  /\ \/ /\ cooldown = 0 /\ NeedsHealing
        /\ pc' = "reconcile" /\ task' = "heal"
        /\ UNCHANGED <<goal, want, attempt, shutdown, nextPoll>>
        /\ Undisturbed
     \/ /\ cooldown > 0 \/ ~NeedsHealing
        /\ EndPoll
        /\ Undisturbed
     \/ /\ lockTarget = NoDisplay \* the preferences cannot be read
        /\ EndPoll
        /\ Disturb
  /\ OnlyControl
  /\ UNCHANGED <<cooldown, acked>>

-----------------------------------------------------------------------------
(***************************************************************************)
(* reconcile_display_state (controller.rs), and the steps it shares with   *)
(* the requests: moving the Dock, setting and clearing the lock.           *)
(***************************************************************************)
\* The locked display is not in the snapshot any more.
BuggyTargetGone == lockTarget \notin info
TargetGone == lockTarget \notin Elements(displays)

Reconcile ==
  /\ pc = "reconcile"
  /\ dockSupported' = DockIsAtBottom
  /\ \/ /\ ~dockSupported'
        /\ pc' = "forget" /\ goal' = "forget"
        /\ acked' = IF acked = Unlocked THEN acked ELSE NoDisplay
        /\ UNCHANGED <<task, want, attempt, shutdown, cooldown, nextPoll>>
        /\ Undisturbed
     \/ /\ dockSupported' /\ lockTarget # NoDisplay /\ TargetGone
        /\ pc' = "release" /\ goal' = "gone"
        /\ UNCHANGED <<task, want, attempt, shutdown, cooldown, nextPoll, acked>>
        /\ Undisturbed
     \/ /\ dockSupported' /\ lockTarget # NoDisplay /\ ~TargetGone
        /\ pc' = "query" /\ goal' = "hold" /\ want' = lockTarget
        /\ UNCHANGED <<task, attempt, shutdown, cooldown, nextPoll, acked>>
        /\ Undisturbed
     \/ /\ dockSupported' /\ lockTarget = NoDisplay
        /\ \/ Preferred = {} /\ Succeed /\ Undisturbed
           \/ Fail /\ Disturb \* the preferences cannot be read
     \/ /\ dockSupported' /\ lockTarget = NoDisplay
        /\ want' \in Preferred
        /\ pc' = "query" /\ goal' = "restore"
        /\ UNCHANGED <<task, attempt, shutdown, cooldown, nextPoll, acked>>
        /\ Undisturbed
  /\ UNCHANGED <<lockTarget, tap, cache, callback, pending, infoRetry>>
  /\ UNCHANGED <<macosVars, snapshotVars, saved, writeFailed, pollHistory>>

\* The Dock is on the wanted display: a lock that stands is kept, else set.
Arrived ==
  IF goal = "hold" THEN Succeed
  ELSE Goto("set_lock") /\ UNCHANGED <<cooldown, nextPoll, acked>>

Query ==
  /\ pc = "query"
  /\ \/ /\ ~StatusKnown
        /\ Fail
     \/ /\ StatusKnown /\ dock = want
        /\ Arrived
     \/ /\ StatusKnown /\ dock # want
        /\ pc' = "relocate" /\ attempt' = 1
        /\ UNCHANGED <<task, goal, want, shutdown, cooldown, nextPoll, acked>>
  /\ OnlyControl
  /\ Undisturbed

\* relocate_display_until_current: up to RelocationAttempts attempts.
BuggyAttemptsLeft == attempt <= RelocationAttempts
AttemptsLeft == attempt < RelocationAttempts

Retry ==
  \/ /\ AttemptsLeft
     /\ pc' = "relocate" /\ attempt' = attempt + 1
     /\ UNCHANGED <<task, goal, want, shutdown, cooldown, nextPoll, acked>>
  \/ /\ ~AttemptsLeft
     /\ Fail

Relocatable == orientation = "bottom" /\ want \in Elements(active)

\* The display is not there any more: display_bounds fails.
RelocateMissing ==
  /\ pc = "relocate"
  /\ want \notin Elements(active)
  /\ Retry
  /\ OnlyControl
  /\ Undisturbed

\* The Dock is not at the bottom: relocate_display is Ok and does nothing.
RelocateSideways ==
  /\ pc = "relocate"
  /\ orientation # "bottom" /\ want \in Elements(active)
  /\ Goto("settle")
  /\ OnlyControl
  /\ UNCHANGED <<cooldown, nextPoll, acked>>
  /\ Undisturbed

RelocateMoves ==
  /\ pc = "relocate"
  /\ Relocatable /\ dock # NoDisplay
  /\ dock' = want
  /\ Goto("settle")
  /\ UNCHANGED <<active, orientation>>
  /\ UNCHANGED <<lockVars, snapshotVars, pollVars, saved, boundVars,
                 historyVars>>

\* The user takes the cursor, or an overlay covers the display: no retry.
RelocateInterrupted ==
  /\ pc = "relocate"
  /\ Relocatable
  /\ Disturb
  /\ Fail
  /\ OnlyControl

\* The Dock does not follow the cursor in time.
RelocateTimesOut ==
  /\ pc = "relocate"
  /\ Relocatable
  /\ IF dock = NoDisplay THEN Undisturbed ELSE Disturb
  /\ Retry
  /\ OnlyControl

Settle ==
  /\ pc = "settle"
  /\ IF dock = want THEN Arrived ELSE Retry
  /\ OnlyControl
  /\ Undisturbed

\* set_lock_target: start the tap, refresh the cache, store the target.
BuggyAfterLock == IF goal = "pin"
  THEN Goto("commit") /\ UNCHANGED <<cooldown, nextPoll, acked>>
  ELSE Succeed

AfterLock == IF goal = "pin"
             THEN Goto("save") /\ UNCHANGED <<cooldown, nextPoll, acked>>
             ELSE Succeed

SetLock ==
  /\ pc = "set_lock"
  /\ tap' = TRUE
  /\ cache' = Elements(active)
  /\ lockTarget' = want
  /\ AfterLock
  /\ UNCHANGED <<dockSupported, callback, pending, infoRetry>>
  /\ UNCHANGED <<macosVars, snapshotVars, saved, boundVars, writeFailed,
                 pollHistory>>

SetLockFails ==
  /\ pc = "set_lock"
  /\ ~tap \* only starting the tap can fail
  /\ Disturb
  /\ Fail
  /\ OnlyControl

\* preferences.save
Save ==
  /\ pc = "save"
  /\ \/ /\ saved' = Identity[want]
        /\ writeFailed' = FALSE
        /\ Goto("commit")
        /\ UNCHANGED <<cooldown, nextPoll, acked>>
        /\ Undisturbed
     \/ /\ saved' \in PartlyWritten(Identity[want])
        /\ writeFailed' = TRUE
        /\ Fail
        /\ Disturb
  /\ UNCHANGED <<macosVars, lockVars, snapshotVars, pending, infoRetry,
                 pollHistory>>

\* snapshot.refresh_status() at the end of apply_set_state
Commit ==
  /\ pc = "commit"
  /\ \/ /\ StatusKnown
        /\ RefreshStatus
        /\ Succeed
     \/ /\ ~StatusKnown
        /\ Fail
        /\ UNCHANGED snapshotVars
  /\ UNCHANGED <<macosVars, lockVars, saved, pending, infoRetry, boundVars,
                 writeFailed, pollHistory>>

\* preferences.clear, the first half of apply_unlock
Forget ==
  /\ pc = "forget"
  /\ \/ /\ saved' = NoIdentity
        /\ writeFailed' = FALSE
        /\ Goto("release")
        /\ UNCHANGED <<cooldown, nextPoll, acked>>
        /\ Undisturbed
     \/ /\ saved' \in PartlyWritten(NoIdentity)
        /\ writeFailed' = TRUE
        /\ Fail
        /\ Disturb
  /\ UNCHANGED <<macosVars, lockVars, snapshotVars, pending, infoRetry,
                 pollHistory>>

\* clear_lock_target stores 0, then stops the tap and waits for its thread.
BuggyRelease ==
  /\ pc = "release"
  /\ tap' = FALSE
  /\ Goto("join")
  /\ UNCHANGED <<lockTarget, dockSupported, cache, callback>>
  /\ UNCHANGED <<macosVars, snapshotVars, pollVars, saved, boundVars,
                 historyVars>>

Release ==
  /\ pc = "release"
  /\ lockTarget' = NoDisplay
  /\ tap' = FALSE
  /\ Goto("join")
  /\ UNCHANGED <<dockSupported, cache, callback>>
  /\ UNCHANGED <<macosVars, snapshotVars, pollVars, saved, boundVars,
                 historyVars>>

\* The tap goes with its thread, disabled or not.
Join ==
  /\ pc = "join" /\ goal # "exit"
  /\ callback # "clearing" /\ callback' = "idle"
  /\ \/ /\ goal = "pin"
        /\ pc' = "relocate" /\ attempt' = 1
        /\ UNCHANGED <<task, goal, want, shutdown, cooldown, nextPoll, acked>>
     \/ /\ goal # "pin"
        /\ Succeed
  /\ UNCHANGED <<lockTarget, dockSupported, tap, cache, pending, infoRetry>>
  /\ UNCHANGED <<macosVars, snapshotVars, saved, boundVars, writeFailed,
                 pollHistory>>

Exit ==
  /\ pc = "join" /\ goal = "exit"
  /\ callback # "clearing"
  /\ ProcessEnds("exited")
  /\ UNCHANGED <<macosVars, saved, boundVars, acked, writeFailed>>

\* snapshot.refresh_status() after a reconcile that succeeded
RefreshAfterReconcile ==
  /\ pc = "refresh"
  /\ \/ StatusKnown /\ RefreshStatus
     \/ ~StatusKnown /\ UNCHANGED snapshotVars
  /\ Idle(IF task = "boot" THEN "loop" ELSE "recv")
  /\ nextPoll' = PollInterval
  /\ UNCHANGED <<pending, infoRetry, cooldown>>
  /\ UNCHANGED <<macosVars, lockVars, saved, boundVars, historyVars>>

-----------------------------------------------------------------------------
Boot == BootStatus \/ BootInfo

Poll == \/ PollDisplays \/ RetryInfo \/ ChangedInfo \/ ChangedStatus
        \/ Unchanged \/ HealCheck \/ RefreshAfterReconcile

Relocate == \/ RelocateMissing \/ RelocateSideways \/ RelocateMoves
            \/ RelocateInterrupted \/ RelocateTimesOut \/ Settle

Lock == \/ SetLock \/ SetLockFails \/ Save \/ Commit
        \/ Forget \/ Release \/ Join \/ Exit

\* What the main thread does without waiting for a client.
MainThread == \/ Boot \/ Loop \/ ReceiveTimeout
              \/ Poll \/ Reconcile \/ Query \/ Relocate \/ Lock

Clients == \/ GetState
           \/ \E i \in 1..(Len(displays) + 1) :
                SetStateRefused(i) \/ SetStateAccepted(i)
           \/ UnlockRequest

Environment == \/ ChangeLayout \/ DockMoves \/ DockAppears \/ ChangeOrientation
               \/ \E d \in Displays : PushEdge(d)
               \/ Tick
               \/ CallbackStarts \/ CallbackClears
               \/ TapDisabled \/ TapReenabled
               \/ Crash \/ Start \/ Terminate

Next == MainThread \/ Clients \/ Environment

Spec == Init /\ [][Next]_vars

(***************************************************************************)
(* The main thread is scheduled, time passes, a callback that runs returns *)
(* (no lock it takes is held by who waits for it), macOS tells a tap that  *)
(* it was disabled and the tap's thread, which runs, enables it, the Dock, *)
(* when it is not found, is found again, and launchd restarts a crashed    *)
(* daemon. No client, user or display is obliged to do anything.           *)
(***************************************************************************)
Fairness == /\ WF_vars(MainThread)
            /\ WF_vars(Tick)
            /\ WF_vars(CallbackClears)
            /\ WF_vars(TapReenabled)
            /\ WF_vars(DockAppears)
            /\ WF_vars(Restart)

FairSpec == Spec /\ Fairness

=============================================================================
