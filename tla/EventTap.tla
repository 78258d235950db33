------------------------------ MODULE EventTap ------------------------------
(***************************************************************************)
(* The mouse event tap of lockdock-mouse: the Rust guard EventTap with its *)
(* HANDLER slot (event_tap.rs), and the native code under it (mouse.c),    *)
(* where a thread of its own creates the tap, runs a run loop and calls    *)
(* the handler. Any thread of the program may start a tap or drop the one  *)
(* it holds; a second start is refused with AlreadyRunning, which changes  *)
(* nothing and so is no step here.                                         *)
(*                                                                         *)
(* A critical section under g_event_mutex is one step, pthread_cond_wait   *)
(* a guard, and pthread_join waits until the thread has ended. The globals *)
(* that only the tap thread touches are written when it publishes them.    *)
(*                                                                         *)
(* CFRunLoopStop acts on a run loop that runs. One that has not been       *)
(* entered yet begins each run afresh, so an earlier stop is lost.         *)
(***************************************************************************)
EXTENDS Integers, FiniteSets

CONSTANTS
  Callers,    \* the threads that start a tap and drop it
  Threads,    \* the tap threads that can exist at once
  NULL,       \* no caller, no thread, a null pointer
  MaxFaults   \* bound: failing system calls, run loops that end by themselves

ASSUME CallersAssumption == NULL \notin Callers
ASSUME ThreadsAssumption == Threads # {} /\ NULL \notin Threads
ASSUME FaultsAssumption == MaxFaults \in Nat

VARIABLES
  pc,        \* where each caller is
  joinee,    \* the thread a caller waits for in pthread_join
  handler,   \* HANDLER: the caller whose handler is registered, or NULL
  starting,  \* g_event_thread_starting
  running,   \* g_event_thread_running
  joinable,  \* g_event_thread_joinable
  thread,    \* g_event_thread
  runLoop,   \* g_event_run_loop, named by the thread it belongs to
  phase,     \* where each tap thread is
  enabled,   \* whether macOS delivers events to the tap
  stopped,   \* the running run loops that were asked to stop
  faults     \* bound: the faults so far

vars == <<pc, joinee, handler, starting, running, joinable, thread, runLoop,
          phase, enabled, stopped, faults>>
callerVars == <<pc, joinee, handler>>
flagVars == <<starting, running, joinable>>
threadVars == <<phase, enabled, stopped>>

\* No thread is inside the handler, which runs with HANDLER locked.
HandlerUnlocked == \A t \in Threads : phase[t] # "handling"

InRunLoop(t) == phase[t] \in {"running", "handling"}

Goto(c, where) == pc' = [pc EXCEPT ![c] = where]
Move(t, where) == phase' = [phase EXCEPT ![t] = where]
Fault == faults < MaxFaults /\ faults' = faults + 1

Init ==
  /\ pc = [c \in Callers |-> "idle"]
  /\ joinee = [c \in Callers |-> NULL]
  /\ handler = NULL
  /\ starting = FALSE /\ running = FALSE /\ joinable = FALSE
  /\ thread = NULL /\ runLoop = NULL
  /\ phase = [t \in Threads |-> "none"]
  /\ enabled = FALSE
  /\ stopped = {}
  /\ faults = 0

-----------------------------------------------------------------------------
(* EventTap::start and lockdock_mouse_start_event_tap.                     *)

Register(c) ==
  /\ pc[c] = "idle" /\ HandlerUnlocked
  /\ handler = NULL
  /\ handler' = c
  /\ Goto(c, "starting")
  /\ UNCHANGED <<joinee, flagVars, thread, runLoop, threadVars, faults>>

\* A tap that runs is shared; one that ended is joined before a new one.
BeginStart(c) ==
  /\ pc[c] = "starting" /\ ~starting
  /\ Goto(c, IF running THEN "holding"
             ELSE IF joinable THEN "joining stale" ELSE "creating")
  /\ joinee' = [joinee EXCEPT ![c] = IF ~running /\ joinable THEN thread ELSE @]
  /\ joinable' = (joinable /\ running)
  /\ starting' = ~running
  /\ UNCHANGED <<handler, running, thread, runLoop, threadVars, faults>>

Create(c) ==
  /\ pc[c] = "creating"
  /\ \E t \in Threads :
       /\ phase[t] = "none"
       /\ Move(t, "creating tap")
       /\ thread' = t
  /\ Goto(c, "created")
  /\ UNCHANGED <<joinee, handler, flagVars, runLoop, enabled, stopped, faults>>

BuggyCreateFails(c) ==
  /\ pc[c] = "creating" /\ Fault
  /\ Goto(c, "clearing")
  /\ UNCHANGED <<joinee, handler, flagVars, thread, runLoop, threadVars>>

CreateFails(c) ==
  /\ pc[c] = "creating" /\ Fault
  /\ starting' = FALSE
  /\ Goto(c, "clearing")
  /\ UNCHANGED <<joinee, handler, running, joinable, thread, runLoop, threadVars>>

BuggyMarkJoinable(c) ==
  /\ pc[c] = "created"
  /\ Goto(c, "awaiting")
  /\ UNCHANGED <<joinee, handler, flagVars, thread, runLoop, threadVars, faults>>

MarkJoinable(c) ==
  /\ pc[c] = "created"
  /\ joinable' = TRUE
  /\ Goto(c, "awaiting")
  /\ UNCHANGED <<joinee, handler, starting, running, thread, runLoop, threadVars,
                 faults>>

BuggyStartReturns(c) ==
  /\ pc[c] = "awaiting" /\ ~starting
  /\ Goto(c, IF running THEN "holding" ELSE "joining failed")
  /\ joinable' = running
  /\ UNCHANGED <<joinee, handler, starting, running, thread, runLoop, threadVars,
                 faults>>

StartReturns(c) ==
  /\ pc[c] = "awaiting" /\ ~starting
  /\ Goto(c, IF running THEN "holding" ELSE "joining failed")
  /\ joinee' = [joinee EXCEPT ![c] = IF running THEN @ ELSE thread]
  /\ joinable' = (joinable /\ running)
  /\ UNCHANGED <<handler, starting, running, thread, runLoop, threadVars, faults>>

AfterJoin == [joining \in {"joining stale", "joining failed", "joining stopped"} |->
                IF joining = "joining stale" THEN "creating" ELSE "clearing"]

BuggyJoin(c) ==
  /\ pc[c] \in DOMAIN AfterJoin
  /\ Goto(c, AfterJoin[pc[c]])
  /\ joinee' = [joinee EXCEPT ![c] = NULL]
  /\ UNCHANGED <<handler, flagVars, thread, runLoop, threadVars, faults>>

Join(c) ==
  /\ pc[c] \in DOMAIN AfterJoin
  /\ phase[joinee[c]] = "ended"
  /\ Move(joinee[c], "none")
  /\ Goto(c, AfterJoin[pc[c]])
  /\ joinee' = [joinee EXCEPT ![c] = NULL]
  /\ UNCHANGED <<handler, flagVars, thread, runLoop, enabled, stopped, faults>>

ClearHandler(c) ==
  /\ pc[c] = "clearing" /\ HandlerUnlocked
  /\ handler' = NULL
  /\ Goto(c, "idle")
  /\ UNCHANGED <<joinee, flagVars, thread, runLoop, threadVars, faults>>

-----------------------------------------------------------------------------
(* Dropping the EventTap, and lockdock_mouse_stop_event_tap.               *)

Drop(c) ==
  /\ pc[c] = "holding"
  /\ Goto(c, "stopping")
  /\ UNCHANGED <<joinee, handler, flagVars, thread, runLoop, threadVars, faults>>

BuggyStop(c) ==
  /\ pc[c] = "stopping" /\ ~starting
  /\ Goto(c, IF joinable THEN "joining stopped" ELSE "clearing")
  /\ joinee' = [joinee EXCEPT ![c] = IF joinable THEN thread ELSE @]
  /\ joinable' = FALSE
  /\ UNCHANGED <<handler, starting, running, thread, runLoop, threadVars, faults>>

BuggyUnjoinedStop(c) ==
  /\ pc[c] = "stopping" /\ ~starting
  /\ Goto(c, "clearing")
  /\ joinable' = FALSE
  /\ stopped' = stopped \cup {t \in Threads : t = runLoop /\ InRunLoop(t)}
  /\ UNCHANGED <<joinee, handler, starting, running, thread, runLoop, phase, enabled,
                 faults>>

\* A run loop asked to stop before it runs, or after it ended, takes no notice.
Stop(c) ==
  /\ pc[c] = "stopping" /\ ~starting
  /\ Goto(c, IF joinable THEN "joining stopped" ELSE "clearing")
  /\ joinee' = [joinee EXCEPT ![c] = IF joinable THEN thread ELSE @]
  /\ joinable' = FALSE
  /\ stopped' = stopped \cup
                  {t \in Threads : joinable /\ t = runLoop /\ InRunLoop(t)}
  /\ UNCHANGED <<handler, starting, running, thread, runLoop, phase, enabled, faults>>

-----------------------------------------------------------------------------
(* lockdock_mouse_event_thread and its callback.                           *)

CreateTap(t) ==
  /\ phase[t] = "creating tap"
  /\ Move(t, "creating source")
  /\ UNCHANGED <<callerVars, flagVars, thread, runLoop, enabled, stopped, faults>>

CreateSource(t) ==
  /\ phase[t] = "creating source"
  /\ enabled' = TRUE
  /\ Move(t, "publishing")
  /\ UNCHANGED <<callerVars, flagVars, thread, runLoop, stopped, faults>>

BuggyPublishFailed(t) ==
  /\ phase[t] \in {"creating tap", "creating source"} /\ Fault
  /\ running' = FALSE
  /\ Move(t, "ended")
  /\ UNCHANGED <<callerVars, starting, joinable, thread, runLoop, enabled, stopped>>

PublishFailed(t) ==
  /\ phase[t] \in {"creating tap", "creating source"} /\ Fault
  /\ running' = FALSE
  /\ starting' = FALSE
  /\ Move(t, "ended")
  /\ UNCHANGED <<callerVars, joinable, thread, runLoop, enabled, stopped>>

PublishStarted(t) ==
  /\ phase[t] = "publishing"
  /\ runLoop' = t
  /\ running' = TRUE
  /\ starting' = FALSE
  /\ Move(t, "entering")
  /\ UNCHANGED <<callerVars, joinable, thread, enabled, stopped, faults>>

EnterRunLoop(t) ==
  /\ phase[t] = "entering"
  /\ Move(t, "running")
  /\ UNCHANGED <<callerVars, flagVars, thread, runLoop, enabled, stopped, faults>>

\* Without a handler the callback returns at once: no step.
Callback(t) ==
  /\ phase[t] = "running" /\ enabled
  /\ handler # NULL /\ HandlerUnlocked
  /\ Move(t, "handling")
  /\ UNCHANGED <<callerVars, flagVars, thread, runLoop, enabled, stopped, faults>>

CallbackReturns(t) ==
  /\ phase[t] = "handling"
  /\ Move(t, "running")
  /\ UNCHANGED <<callerVars, flagVars, thread, runLoop, enabled, stopped, faults>>

\* macOS disables a tap whose callback was too slow, or at the user's wish.
TapDisabled(t) ==
  /\ InRunLoop(t) /\ enabled /\ Fault
  /\ enabled' = FALSE
  /\ UNCHANGED <<callerVars, flagVars, thread, runLoop, phase, stopped>>

Reenable(t) ==
  /\ phase[t] = "running" /\ ~enabled
  /\ enabled' = TRUE
  /\ UNCHANGED <<callerVars, flagVars, thread, runLoop, phase, stopped, faults>>

LeaveRunLoop(t) ==
  /\ phase[t] = "running" /\ t \in stopped
  /\ stopped' = stopped \ {t}
  /\ enabled' = FALSE
  /\ Move(t, "unwinding")
  /\ UNCHANGED <<callerVars, flagVars, thread, runLoop, faults>>

\* CFRunLoopRun also returns when the tap's port has become invalid.
RunLoopFinishes(t) ==
  /\ phase[t] = "running" /\ Fault
  /\ stopped' = stopped \ {t}
  /\ enabled' = FALSE
  /\ Move(t, "unwinding")
  /\ UNCHANGED <<callerVars, flagVars, thread, runLoop>>

BuggyPublishStopped(t) ==
  /\ phase[t] = "unwinding"
  /\ running' = FALSE
  /\ Move(t, "ended")
  /\ UNCHANGED <<callerVars, starting, joinable, thread, runLoop, enabled, stopped,
                 faults>>

PublishStopped(t) ==
  /\ phase[t] = "unwinding"
  /\ runLoop' = NULL
  /\ running' = FALSE
  /\ Move(t, "ended")
  /\ UNCHANGED <<callerVars, starting, joinable, thread, enabled, stopped, faults>>

-----------------------------------------------------------------------------
Caller(c) == \/ BeginStart(c) \/ Create(c) \/ CreateFails(c) \/ MarkJoinable(c)
             \/ StartReturns(c) \/ Join(c) \/ ClearHandler(c) \/ Stop(c)

\* What a caller does of its own will.
Choice(c) == Register(c) \/ Drop(c)

TapThread(t) == \/ CreateTap(t) \/ CreateSource(t) \/ PublishFailed(t)
                \/ PublishStarted(t) \/ EnterRunLoop(t) \/ CallbackReturns(t)
                \/ Reenable(t) \/ LeaveRunLoop(t) \/ PublishStopped(t)

MacOS(t) == Callback(t) \/ TapDisabled(t) \/ RunLoopFinishes(t)

Next == \/ \E c \in Callers : Caller(c) \/ Choice(c)
        \/ \E t \in Threads : TapThread(t) \/ MacOS(t)

Spec == Init /\ [][Next]_vars

(***************************************************************************)
(* The scheduler runs every thread that can run. A run loop looks at its   *)
(* stop flag after each callback, so events cannot keep it from leaving:   *)
(* LeaveRunLoop, which is enabled between two callbacks only, is strongly  *)
(* fair. Nobody is obliged to start or drop a tap, and macOS to nothing.   *)
(***************************************************************************)
Fairness == /\ \A c \in Callers : WF_vars(Caller(c))
            /\ \A t \in Threads : WF_vars(TapThread(t)) /\ SF_vars(LeaveRunLoop(t))

FairSpec == Spec /\ Fairness
=============================================================================
