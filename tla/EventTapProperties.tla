------------------------- MODULE EventTapProperties -------------------------
(***************************************************************************)
(* What the event tap guarantees, to its callers and to macOS.             *)
(***************************************************************************)
EXTENDS EventTap

Wheres == {"idle", "starting", "creating", "created", "awaiting", "holding",
           "stopping", "clearing"} \cup DOMAIN AfterJoin
Phases == {"none", "creating tap", "creating source", "publishing", "entering",
           "running", "handling", "unwinding", "ended"}

FlagsTypeOK ==
  /\ starting \in BOOLEAN /\ running \in BOOLEAN /\ joinable \in BOOLEAN
  /\ enabled \in BOOLEAN

\* Every variable is in its range, and a join names a thread (mouse.c:242,
\* :266, :293).
TypeOK ==
  /\ pc \in [Callers -> Wheres]
  /\ joinee \in [Callers -> Threads \cup {NULL}]
  /\ \A c \in Callers : pc[c] \in DOMAIN AfterJoin => joinee[c] \in Threads
  /\ handler \in Callers \cup {NULL}
  /\ FlagsTypeOK
  /\ thread \in Threads \cup {NULL}
  /\ runLoop \in Threads \cup {NULL}
  /\ phase \in [Threads -> Phases]
  /\ stopped \subseteq Threads
  /\ faults \in 0 .. MaxFaults

\* The native functions are entered by one caller at a time: HANDLER is
\* taken before the start and given back after the join (event_tap.rs:21-26,
\* :34, :48-49), so the waits in mouse.c never meet a second caller.
NativeCallsAreSerial ==
  \A c, d \in Callers : pc[c] # "idle" /\ pc[d] # "idle" => c = d

\* There is one tap thread at most, however starts fail and taps end: every
\* path joins the old thread before the next is created (mouse.c:241-243,
\* :266, :292-294).
OneTapThread ==
  \A t, u \in Threads : phase[t] # "none" /\ phase[u] # "none" => t = u

\* No event goes by a tap whose handler is gone: the handler is cleared only
\* when the thread that calls it has ended (event_tap.rs:48-49).
CallbackSeesHandler == \A t \in Threads : InRunLoop(t) => handler # NULL

\* g_event_run_loop never names the run loop of a thread that has ended, so
\* CFRunLoopStop gets a live one (mouse.c:149, :280-288).
RunLoopIsLive ==
  runLoop # NULL => phase[runLoop] \in {"entering", "running", "handling", "unwinding"}

\* While a caller holds its EventTap nobody stops or joins the thread behind
\* it, and the drop that will come can join it (mouse.c:255, :278-283).
HeldTapIsUntouched ==
  \A c \in Callers : pc[c] = "holding" =>
    joinable /\ stopped = {} /\ thread # NULL /\ phase[thread] # "none"

\* When no caller is at work nothing is left behind: no thread, no handler,
\* no flag that would make the next start wait or share a dead tap.
NothingIsLeftBehind ==
  (\A c \in Callers : pc[c] = "idle") =>
    /\ handler = NULL /\ runLoop = NULL /\ stopped = {}
    /\ ~starting /\ ~running /\ ~joinable
    /\ \A t \in Threads : phase[t] = "none"

Contract == INSTANCE TapContract WITH owner <- handler,
                                      watching <- \E t \in Threads : InRunLoop(t)

\* The tap keeps the contract its user relies on (event_tap.rs:15-51).
KeepsContract == Contract!Spec

\* A start comes back, with a tap or an error, whatever fails on the way.
StartComesBack ==
  \A c \in Callers : pc[c] = "starting" ~> pc[c] \in {"holding", "idle"}

\* Dropping a tap comes back once its thread is in the run loop or beyond.
DropComesBack ==
  \A c \in Callers :
    (/\ pc[c] = "stopping"
     /\ \A t \in Threads : phase[t] # "entering") ~> pc[c] = "idle"

\* README.md:106 says of unlock: 'Stop pinning the Dock, but keep the daemon
\* available'. Unlocking drops the tap on the daemon's main thread
\* (display_lock.rs:45), so the drop has to come back.
UnlockKeepsDaemonAvailable ==
  \A c \in Callers : pc[c] = "stopping" ~> pc[c] = "idle"
=============================================================================
