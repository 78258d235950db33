--------------------------- MODULE EventTapProofs ---------------------------
(***************************************************************************)
(* Proofs about the event tap, for any callers, threads and faults.        *)
(*                                                                         *)
(* The handler slot is a token: whoever is not idle owns it. So the state  *)
(* of the native code follows from where the one caller at work is, which  *)
(* is what the inductive invariant says.                                   *)
(***************************************************************************)
EXTENDS EventTapProperties, TLAPS

\* Whoever is at work owns the handler slot.
TokenInv == \A c \in Callers : pc[c] # "idle" <=> handler = c

\* The threads before they publish, those that have published, and the flags.
Beginning == {"creating tap", "creating source", "publishing"}
Published == {"entering", "running", "handling", "unwinding"}

\* Where a caller may be while a tap thread exists.
Attended == {"created", "awaiting", "holding", "stopping", "joining failed",
             "joining stopped"}

\* The thread that exists is the one g_event_thread names, and the flags say
\* how far it got.
ThreadInv ==
  \A t \in Threads : phase[t] # "none" =>
    /\ t = thread
    /\ handler # NULL /\ pc[handler] \in Attended
    /\ (starting <=> phase[t] \in Beginning)
    /\ (running <=> phase[t] \in Published)
    /\ runLoop = IF phase[t] \in Published THEN t ELSE NULL

\* Where a caller is tells whether a thread exists and who joins it.
PlaceInv ==
  \A c \in Callers :
    /\ pc[c] \in Attended => thread # NULL /\ phase[thread] # "none"
    /\ pc[c] = "creating" => starting
    /\ pc[c] \in {"awaiting", "holding", "stopping"} => joinable
    /\ pc[c] \in {"holding", "stopping", "joining failed",
       "joining stopped"} => ~starting
    /\ pc[c] \in {"joining failed", "joining stopped"} => joinee[c] = thread
    /\ pc[c] # "joining stale"
    /\ pc[c] \notin {"awaiting", "holding", "stopping"} /\ handler = c => ~joinable

\* Without a thread the flags are clear; only an attended stop is pending.
QuietInv ==
  /\ (\A t \in Threads : phase[t] = "none") => ~running /\ runLoop = NULL
  /\ handler = NULL => ~starting /\ ~joinable
  /\ starting /\ (\A t \in Threads : phase[t] = "none") =>
       handler # NULL /\ pc[handler] = "creating"
  /\ \A t \in stopped : InRunLoop(t) /\ pc[handler] = "joining stopped"

TapInv == TypeOK /\ TokenInv /\ ThreadInv /\ PlaceInv /\ QuietInv

-----------------------------------------------------------------------------
(* Every action keeps the invariant: types first, then each named part.    *)

\* A fault that still may happen is counted within its bound.
LEMMA FaultCounted ==
  ASSUME faults \in 0 .. MaxFaults, Fault
  PROVE  faults' \in 0 .. MaxFaults
BY FaultsAssumption DEF Fault

\* An idle caller takes the free token: nothing of a tap is left, by QuietInv.
LEMMA RegisterKeeps ==
  ASSUME TapInv, NEW c \in Callers, Register(c)
  PROVE  TapInv'
<1> USE CallersAssumption, ThreadsAssumption DEF TapInv, Register, Goto, flagVars,
   threadVars, HandlerUnlocked
<1>1. TypeOK'
  <2>1. FlagsTypeOK'
    BY DEF TypeOK, FlagsTypeOK
  <2>2. faults' \in 0 .. MaxFaults
    BY FaultsAssumption DEF TypeOK
  <2>3. QED
    BY <2>1, <2>2 DEF TypeOK, Wheres, Phases, AfterJoin
<1>2. TokenInv'
  BY DEF TypeOK, TokenInv
<1>3. ThreadInv'
  BY DEF TypeOK, TokenInv, ThreadInv, PlaceInv, QuietInv, Attended, Beginning,
     Published
<1>4. PlaceInv'
  BY DEF TypeOK, TokenInv, ThreadInv, PlaceInv, QuietInv, Attended, Beginning,
     Published
<1>5. QuietInv'
  BY DEF TypeOK, TokenInv, ThreadInv, PlaceInv, QuietInv, Attended, Beginning,
     Published, InRunLoop
<1>6. QED
  BY <1>1, <1>2, <1>3, <1>4, <1>5

\* The owner raises the starting flag; there is no thread it could share.
LEMMA BeginStartKeeps ==
  ASSUME TapInv, NEW c \in Callers, BeginStart(c)
  PROVE  TapInv'
<1> USE CallersAssumption, ThreadsAssumption DEF TapInv, BeginStart, Goto,
   threadVars
<1>1. TypeOK'
  <2>1. FlagsTypeOK'
    BY DEF TypeOK, FlagsTypeOK
  <2>2. faults' \in 0 .. MaxFaults
    BY FaultsAssumption DEF TypeOK
  <2>3. QED
    BY <2>1, <2>2 DEF TypeOK, Wheres, Phases, AfterJoin, TokenInv, ThreadInv,
       PlaceInv, Attended
<1>2. TokenInv'
  BY DEF TypeOK, TokenInv
<1>3. ThreadInv'
  BY DEF TypeOK, TokenInv, ThreadInv, PlaceInv, QuietInv, Attended, Beginning,
     Published
<1>4. PlaceInv'
  BY DEF TypeOK, TokenInv, ThreadInv, PlaceInv, QuietInv, Attended, Beginning,
     Published
<1>5. QuietInv'
  BY DEF TypeOK, TokenInv, ThreadInv, PlaceInv, QuietInv, Attended, Beginning,
     Published, InRunLoop
<1>6. QED
  BY <1>1, <1>2, <1>3, <1>4, <1>5

\* The owner creates the one thread, since before that there was none.
LEMMA CreateKeeps ==
  ASSUME TapInv, NEW c \in Callers, Create(c)
  PROVE  TapInv'
<1> USE CallersAssumption, ThreadsAssumption DEF TapInv, Create, Goto, Move,
   flagVars
<1>0. /\ \A t \in Threads : phase[t] = "none"
      /\ handler = c /\ pc[c] = "creating" /\ starting /\ ~joinable
  BY DEF TokenInv, ThreadInv, PlaceInv, Attended
<1> PICK new \in Threads : Move(new, "creating tap") /\ thread' = new
  OBVIOUS
<1>1. TypeOK'
  <2>1. FlagsTypeOK'
    BY DEF TypeOK, FlagsTypeOK
  <2>2. faults' \in 0 .. MaxFaults
    BY FaultsAssumption DEF TypeOK
  <2>3. QED
    BY <2>1, <2>2 DEF TypeOK, Wheres, Phases, AfterJoin
<1>2. TokenInv'
  BY DEF TypeOK, TokenInv
<1>3. ThreadInv'
  BY <1>0 DEF TypeOK, TokenInv, ThreadInv, PlaceInv, QuietInv, Attended,
     Beginning, Published
<1>4. PlaceInv'
  BY <1>0 DEF TypeOK, TokenInv, ThreadInv, PlaceInv, QuietInv, Attended,
     Beginning, Published
<1>5. QuietInv'
  BY <1>0 DEF TypeOK, TokenInv, ThreadInv, PlaceInv, QuietInv, Attended,
     Beginning, Published, InRunLoop
<1>6. QED
  BY <1>1, <1>2, <1>3, <1>4, <1>5

\* A failed pthread_create lowers the starting flag again.
LEMMA CreateFailsKeeps ==
  ASSUME TapInv, NEW c \in Callers, CreateFails(c)
  PROVE  TapInv'
<1> USE CallersAssumption, ThreadsAssumption DEF TapInv, CreateFails, Goto,
   threadVars, Fault
<1>1. TypeOK'
  <2>1. FlagsTypeOK'
    BY DEF TypeOK, FlagsTypeOK
  <2>2. faults' \in 0 .. MaxFaults
    BY FaultsAssumption DEF TypeOK
  <2>3. QED
    BY <2>1, <2>2 DEF TypeOK, Wheres, Phases, AfterJoin
<1>2. TokenInv'
  BY DEF TypeOK, TokenInv
<1>3. ThreadInv'
  BY DEF TypeOK, TokenInv, ThreadInv, PlaceInv, QuietInv, Attended, Beginning,
     Published
<1>4. PlaceInv'
  BY DEF TypeOK, TokenInv, ThreadInv, PlaceInv, QuietInv, Attended, Beginning,
     Published
<1>5. QuietInv'
  BY DEF TypeOK, TokenInv, ThreadInv, PlaceInv, QuietInv, Attended, Beginning,
     Published, InRunLoop
<1>6. QED
  BY <1>1, <1>2, <1>3, <1>4, <1>5

\* The thread that was created may be joined from now on.
LEMMA MarkJoinableKeeps ==
  ASSUME TapInv, NEW c \in Callers, MarkJoinable(c)
  PROVE  TapInv'
<1> USE CallersAssumption, ThreadsAssumption DEF TapInv, MarkJoinable, Goto,
   threadVars
<1>1. TypeOK'
  <2>1. FlagsTypeOK'
    BY DEF TypeOK, FlagsTypeOK
  <2>2. faults' \in 0 .. MaxFaults
    BY FaultsAssumption DEF TypeOK
  <2>3. QED
    BY <2>1, <2>2 DEF TypeOK, Wheres, Phases, AfterJoin
<1>2. TokenInv'
  BY DEF TypeOK, TokenInv
<1>3. ThreadInv'
  BY DEF TypeOK, TokenInv, ThreadInv, PlaceInv, QuietInv, Attended, Beginning,
     Published
<1>4. PlaceInv'
  BY DEF TypeOK, TokenInv, ThreadInv, PlaceInv, QuietInv, Attended, Beginning,
     Published
<1>5. QuietInv'
  BY DEF TypeOK, TokenInv, ThreadInv, PlaceInv, QuietInv, Attended, Beginning,
     Published, InRunLoop
<1>6. QED
  BY <1>1, <1>2, <1>3, <1>4, <1>5

\* The wait is over: the thread runs, has failed, or has ended again.
LEMMA StartReturnsKeeps ==
  ASSUME TapInv, NEW c \in Callers, StartReturns(c)
  PROVE  TapInv'
<1> USE CallersAssumption, ThreadsAssumption DEF TapInv, StartReturns, Goto,
   threadVars
<1>1. TypeOK'
  <2>1. FlagsTypeOK'
    BY DEF TypeOK, FlagsTypeOK
  <2>2. faults' \in 0 .. MaxFaults
    BY FaultsAssumption DEF TypeOK
  <2>3. QED
    BY <2>1, <2>2 DEF TypeOK, Wheres, Phases, AfterJoin, TokenInv, ThreadInv,
       PlaceInv, Attended
<1>2. TokenInv'
  BY DEF TypeOK, TokenInv
<1>3. ThreadInv'
  BY DEF TypeOK, TokenInv, ThreadInv, PlaceInv, QuietInv, Attended, Beginning,
     Published
<1>4. PlaceInv'
  BY DEF TypeOK, TokenInv, ThreadInv, PlaceInv, QuietInv, Attended, Beginning,
     Published
<1>5. QuietInv'
  BY DEF TypeOK, TokenInv, ThreadInv, PlaceInv, QuietInv, Attended, Beginning,
     Published, InRunLoop
<1>6. QED
  BY <1>1, <1>2, <1>3, <1>4, <1>5

\* The thread that is joined has ended, and with it the last thread there was.
LEMMA JoinKeeps ==
  ASSUME TapInv, NEW c \in Callers, Join(c)
  PROVE  TapInv'
<1> USE CallersAssumption, ThreadsAssumption DEF TapInv, Join, Goto, Move,
   flagVars, AfterJoin
<1>1. TypeOK'
  <2>1. FlagsTypeOK'
    BY DEF TypeOK, FlagsTypeOK
  <2>2. faults' \in 0 .. MaxFaults
    BY FaultsAssumption DEF TypeOK
  <2>3. QED
    BY <2>1, <2>2 DEF TypeOK, Wheres, Phases, AfterJoin
<1>2. TokenInv'
  BY DEF TypeOK, TokenInv
<1>3. ThreadInv'
  BY DEF TypeOK, TokenInv, ThreadInv, PlaceInv, QuietInv, Attended, Beginning,
     Published
<1>4. PlaceInv'
  BY DEF TypeOK, TokenInv, ThreadInv, PlaceInv, QuietInv, Attended, Beginning,
     Published
<1>5. QuietInv'
  BY DEF TypeOK, TokenInv, ThreadInv, PlaceInv, QuietInv, Attended, Beginning,
     Published, InRunLoop
<1>6. QED
  BY <1>1, <1>2, <1>3, <1>4, <1>5

\* The token is given back when nothing of the tap is left, as QuietInv asks.
LEMMA ClearHandlerKeeps ==
  ASSUME TapInv, NEW c \in Callers, ClearHandler(c)
  PROVE  TapInv'
<1> USE CallersAssumption, ThreadsAssumption DEF TapInv, ClearHandler, Goto,
   flagVars, threadVars, HandlerUnlocked
<1>1. TypeOK'
  <2>1. FlagsTypeOK'
    BY DEF TypeOK, FlagsTypeOK
  <2>2. faults' \in 0 .. MaxFaults
    BY FaultsAssumption DEF TypeOK
  <2>3. QED
    BY <2>1, <2>2 DEF TypeOK, Wheres, Phases, AfterJoin
<1>2. TokenInv'
  BY DEF TypeOK, TokenInv
<1>3. ThreadInv'
  BY DEF TypeOK, TokenInv, ThreadInv, PlaceInv, QuietInv, Attended, Beginning,
     Published
<1>4. PlaceInv'
  BY DEF TypeOK, TokenInv, ThreadInv, PlaceInv, QuietInv, Attended, Beginning,
     Published
<1>5. QuietInv'
  BY DEF TypeOK, TokenInv, ThreadInv, PlaceInv, QuietInv, Attended, Beginning,
     Published, InRunLoop
<1>6. QED
  BY <1>1, <1>2, <1>3, <1>4, <1>5

\* The owner goes from holding its tap to stopping it.
LEMMA DropKeeps ==
  ASSUME TapInv, NEW c \in Callers, Drop(c)
  PROVE  TapInv'
<1> USE CallersAssumption, ThreadsAssumption DEF TapInv, Drop, Goto, flagVars,
   threadVars
<1>1. TypeOK'
  <2>1. FlagsTypeOK'
    BY DEF TypeOK, FlagsTypeOK
  <2>2. faults' \in 0 .. MaxFaults
    BY FaultsAssumption DEF TypeOK
  <2>3. QED
    BY <2>1, <2>2 DEF TypeOK, Wheres, Phases, AfterJoin
<1>2. TokenInv'
  BY DEF TypeOK, TokenInv
<1>3. ThreadInv'
  BY DEF TypeOK, TokenInv, ThreadInv, PlaceInv, QuietInv, Attended, Beginning,
     Published
<1>4. PlaceInv'
  BY DEF TypeOK, TokenInv, ThreadInv, PlaceInv, QuietInv, Attended, Beginning,
     Published
<1>5. QuietInv'
  BY DEF TypeOK, TokenInv, ThreadInv, PlaceInv, QuietInv, Attended, Beginning,
     Published, InRunLoop
<1>6. QED
  BY <1>1, <1>2, <1>3, <1>4, <1>5

\* The owner asks the run loop to stop and goes on to join its thread.
LEMMA StopKeeps ==
  ASSUME TapInv, NEW c \in Callers, Stop(c)
  PROVE  TapInv'
<1> USE CallersAssumption, ThreadsAssumption DEF TapInv, Stop, Goto, InRunLoop
<1>1. TypeOK'
  <2>1. FlagsTypeOK'
    BY DEF TypeOK, FlagsTypeOK
  <2>2. faults' \in 0 .. MaxFaults
    BY FaultsAssumption DEF TypeOK
  <2>3. QED
    BY <2>1, <2>2 DEF TypeOK, Wheres, Phases, AfterJoin, TokenInv, ThreadInv,
       PlaceInv, Attended
<1>2. TokenInv'
  BY DEF TypeOK, TokenInv
<1>3. ThreadInv'
  BY DEF TypeOK, TokenInv, ThreadInv, PlaceInv, QuietInv, Attended, Beginning,
     Published
<1>4. PlaceInv'
  BY DEF TypeOK, TokenInv, ThreadInv, PlaceInv, QuietInv, Attended, Beginning,
     Published
<1>5. QuietInv'
  BY DEF TypeOK, TokenInv, ThreadInv, PlaceInv, QuietInv, Attended, Beginning,
     Published
<1>6. QED
  BY <1>1, <1>2, <1>3, <1>4, <1>5

\* The tap thread creates its tap.
LEMMA CreateTapKeeps ==
  ASSUME TapInv, NEW t \in Threads, CreateTap(t)
  PROVE  TapInv'
<1> USE CallersAssumption, ThreadsAssumption DEF TapInv, CreateTap, Move,
   callerVars, flagVars
<1>1. TypeOK'
  <2>1. FlagsTypeOK'
    BY DEF TypeOK, FlagsTypeOK
  <2>2. faults' \in 0 .. MaxFaults
    BY FaultsAssumption DEF TypeOK
  <2>3. QED
    BY <2>1, <2>2 DEF TypeOK, Wheres, Phases, AfterJoin
<1>2. TokenInv'
  BY DEF TypeOK, TokenInv
<1>3. ThreadInv'
  BY DEF TypeOK, TokenInv, ThreadInv, PlaceInv, QuietInv, Attended, Beginning,
     Published
<1>4. PlaceInv'
  BY DEF TypeOK, TokenInv, ThreadInv, PlaceInv, QuietInv, Attended, Beginning,
     Published
<1>5. QuietInv'
  BY DEF TypeOK, TokenInv, ThreadInv, PlaceInv, QuietInv, Attended, Beginning,
     Published, InRunLoop
<1>6. QED
  BY <1>1, <1>2, <1>3, <1>4, <1>5

\* The tap thread creates and enables the source of its tap.
LEMMA CreateSourceKeeps ==
  ASSUME TapInv, NEW t \in Threads, CreateSource(t)
  PROVE  TapInv'
<1> USE CallersAssumption, ThreadsAssumption DEF TapInv, CreateSource, Move,
   callerVars, flagVars
<1>1. TypeOK'
  <2>1. FlagsTypeOK'
    BY DEF TypeOK, FlagsTypeOK
  <2>2. faults' \in 0 .. MaxFaults
    BY FaultsAssumption DEF TypeOK
  <2>3. QED
    BY <2>1, <2>2 DEF TypeOK, Wheres, Phases, AfterJoin
<1>2. TokenInv'
  BY DEF TypeOK, TokenInv
<1>3. ThreadInv'
  BY DEF TypeOK, TokenInv, ThreadInv, PlaceInv, QuietInv, Attended, Beginning,
     Published
<1>4. PlaceInv'
  BY DEF TypeOK, TokenInv, ThreadInv, PlaceInv, QuietInv, Attended, Beginning,
     Published
<1>5. QuietInv'
  BY DEF TypeOK, TokenInv, ThreadInv, PlaceInv, QuietInv, Attended, Beginning,
     Published, InRunLoop
<1>6. QED
  BY <1>1, <1>2, <1>3, <1>4, <1>5

\* The tap thread ends with the flags of a failed start.
LEMMA PublishFailedKeeps ==
  ASSUME TapInv, NEW t \in Threads, PublishFailed(t)
  PROVE  TapInv'
<1> USE CallersAssumption, ThreadsAssumption DEF TapInv, PublishFailed, Move,
   callerVars
<1>1. TypeOK'
  <2>1. FlagsTypeOK'
    BY DEF TypeOK, FlagsTypeOK
  <2>2. faults' \in 0 .. MaxFaults
    BY FaultCounted DEF TypeOK
  <2>3. QED
    BY <2>1, <2>2 DEF TypeOK, Wheres, Phases, AfterJoin
<1>2. TokenInv'
  BY DEF TypeOK, TokenInv
<1>3. ThreadInv'
  BY DEF TypeOK, TokenInv, ThreadInv, PlaceInv, QuietInv, Attended, Beginning,
     Published
<1>4. PlaceInv'
  BY DEF TypeOK, TokenInv, ThreadInv, PlaceInv, QuietInv, Attended, Beginning,
     Published
<1>5. QuietInv'
  BY DEF TypeOK, TokenInv, ThreadInv, PlaceInv, QuietInv, Attended, Beginning,
     Published, InRunLoop
<1>6. QED
  BY <1>1, <1>2, <1>3, <1>4, <1>5

\* The tap thread names its run loop and ends the wait of the owner.
LEMMA PublishStartedKeeps ==
  ASSUME TapInv, NEW t \in Threads, PublishStarted(t)
  PROVE  TapInv'
<1> USE CallersAssumption, ThreadsAssumption DEF TapInv, PublishStarted, Move,
   callerVars
<1>1. TypeOK'
  <2>1. FlagsTypeOK'
    BY DEF TypeOK, FlagsTypeOK
  <2>2. faults' \in 0 .. MaxFaults
    BY FaultsAssumption DEF TypeOK
  <2>3. QED
    BY <2>1, <2>2 DEF TypeOK, Wheres, Phases, AfterJoin
<1>2. TokenInv'
  BY DEF TypeOK, TokenInv
<1>3. ThreadInv'
  BY DEF TypeOK, TokenInv, ThreadInv, PlaceInv, QuietInv, Attended, Beginning,
     Published
<1>4. PlaceInv'
  BY DEF TypeOK, TokenInv, ThreadInv, PlaceInv, QuietInv, Attended, Beginning,
     Published
<1>5. QuietInv'
  BY DEF TypeOK, TokenInv, ThreadInv, PlaceInv, QuietInv, Attended, Beginning,
     Published, InRunLoop
<1>6. QED
  BY <1>1, <1>2, <1>3, <1>4, <1>5

\* The tap thread enters its run loop.
LEMMA EnterRunLoopKeeps ==
  ASSUME TapInv, NEW t \in Threads, EnterRunLoop(t)
  PROVE  TapInv'
<1> USE CallersAssumption, ThreadsAssumption DEF TapInv, EnterRunLoop, Move,
   callerVars, flagVars
<1>1. TypeOK'
  <2>1. FlagsTypeOK'
    BY DEF TypeOK, FlagsTypeOK
  <2>2. faults' \in 0 .. MaxFaults
    BY FaultsAssumption DEF TypeOK
  <2>3. QED
    BY <2>1, <2>2 DEF TypeOK, Wheres, Phases, AfterJoin
<1>2. TokenInv'
  BY DEF TypeOK, TokenInv
<1>3. ThreadInv'
  BY DEF TypeOK, TokenInv, ThreadInv, PlaceInv, QuietInv, Attended, Beginning,
     Published
<1>4. PlaceInv'
  BY DEF TypeOK, TokenInv, ThreadInv, PlaceInv, QuietInv, Attended, Beginning,
     Published
<1>5. QuietInv'
  BY DEF TypeOK, TokenInv, ThreadInv, PlaceInv, QuietInv, Attended, Beginning,
     Published, InRunLoop
<1>6. QED
  BY <1>1, <1>2, <1>3, <1>4, <1>5

\* A callback locks the handler, which is the owner's.
LEMMA CallbackKeeps ==
  ASSUME TapInv, NEW t \in Threads, Callback(t)
  PROVE  TapInv'
<1> USE CallersAssumption, ThreadsAssumption DEF TapInv, Callback, Move,
   callerVars, flagVars, HandlerUnlocked
<1>1. TypeOK'
  <2>1. FlagsTypeOK'
    BY DEF TypeOK, FlagsTypeOK
  <2>2. faults' \in 0 .. MaxFaults
    BY FaultsAssumption DEF TypeOK
  <2>3. QED
    BY <2>1, <2>2 DEF TypeOK, Wheres, Phases, AfterJoin
<1>2. TokenInv'
  BY DEF TypeOK, TokenInv
<1>3. ThreadInv'
  BY DEF TypeOK, TokenInv, ThreadInv, PlaceInv, QuietInv, Attended, Beginning,
     Published
<1>4. PlaceInv'
  BY DEF TypeOK, TokenInv, ThreadInv, PlaceInv, QuietInv, Attended, Beginning,
     Published
<1>5. QuietInv'
  BY DEF TypeOK, TokenInv, ThreadInv, PlaceInv, QuietInv, Attended, Beginning,
     Published, InRunLoop
<1>6. QED
  BY <1>1, <1>2, <1>3, <1>4, <1>5

\* A callback that returns leaves the run loop as it was.
LEMMA CallbackReturnsKeeps ==
  ASSUME TapInv, NEW t \in Threads, CallbackReturns(t)
  PROVE  TapInv'
<1> USE CallersAssumption, ThreadsAssumption DEF TapInv, CallbackReturns, Move,
   callerVars, flagVars
<1>1. TypeOK'
  <2>1. FlagsTypeOK'
    BY DEF TypeOK, FlagsTypeOK
  <2>2. faults' \in 0 .. MaxFaults
    BY FaultsAssumption DEF TypeOK
  <2>3. QED
    BY <2>1, <2>2 DEF TypeOK, Wheres, Phases, AfterJoin
<1>2. TokenInv'
  BY DEF TypeOK, TokenInv
<1>3. ThreadInv'
  BY DEF TypeOK, TokenInv, ThreadInv, PlaceInv, QuietInv, Attended, Beginning,
     Published
<1>4. PlaceInv'
  BY DEF TypeOK, TokenInv, ThreadInv, PlaceInv, QuietInv, Attended, Beginning,
     Published
<1>5. QuietInv'
  BY DEF TypeOK, TokenInv, ThreadInv, PlaceInv, QuietInv, Attended, Beginning,
     Published, InRunLoop
<1>6. QED
  BY <1>1, <1>2, <1>3, <1>4, <1>5

\* A tap that macOS disables is still held.
LEMMA TapDisabledKeeps ==
  ASSUME TapInv, NEW t \in Threads, TapDisabled(t)
  PROVE  TapInv'
<1> USE CallersAssumption, ThreadsAssumption DEF TapInv, TapDisabled, callerVars,
   flagVars, Fault, InRunLoop
<1>1. TypeOK'
  <2>1. FlagsTypeOK'
    BY DEF TypeOK, FlagsTypeOK
  <2>2. faults' \in 0 .. MaxFaults
    BY FaultsAssumption DEF TypeOK
  <2>3. QED
    BY <2>1, <2>2 DEF TypeOK, Wheres, Phases, AfterJoin
<1>2. TokenInv'
  BY DEF TypeOK, TokenInv
<1>3. ThreadInv'
  BY DEF TypeOK, TokenInv, ThreadInv, PlaceInv, QuietInv, Attended, Beginning,
     Published
<1>4. PlaceInv'
  BY DEF TypeOK, TokenInv, ThreadInv, PlaceInv, QuietInv, Attended, Beginning,
     Published
<1>5. QuietInv'
  BY DEF TypeOK, TokenInv, ThreadInv, PlaceInv, QuietInv, Attended, Beginning,
     Published
<1>6. QED
  BY <1>1, <1>2, <1>3, <1>4, <1>5

\* The callback enables the tap again.
LEMMA ReenableKeeps ==
  ASSUME TapInv, NEW t \in Threads, Reenable(t)
  PROVE  TapInv'
<1> USE CallersAssumption, ThreadsAssumption DEF TapInv, Reenable, callerVars,
   flagVars
<1>1. TypeOK'
  <2>1. FlagsTypeOK'
    BY DEF TypeOK, FlagsTypeOK
  <2>2. faults' \in 0 .. MaxFaults
    BY FaultsAssumption DEF TypeOK
  <2>3. QED
    BY <2>1, <2>2 DEF TypeOK, Wheres, Phases, AfterJoin
<1>2. TokenInv'
  BY DEF TypeOK, TokenInv
<1>3. ThreadInv'
  BY DEF TypeOK, TokenInv, ThreadInv, PlaceInv, QuietInv, Attended, Beginning,
     Published
<1>4. PlaceInv'
  BY DEF TypeOK, TokenInv, ThreadInv, PlaceInv, QuietInv, Attended, Beginning,
     Published
<1>5. QuietInv'
  BY DEF TypeOK, TokenInv, ThreadInv, PlaceInv, QuietInv, Attended, Beginning,
     Published, InRunLoop
<1>6. QED
  BY <1>1, <1>2, <1>3, <1>4, <1>5

\* A run loop that was asked to stop is left; its request is used up.
LEMMA LeaveRunLoopKeeps ==
  ASSUME TapInv, NEW t \in Threads, LeaveRunLoop(t)
  PROVE  TapInv'
<1> USE CallersAssumption, ThreadsAssumption DEF TapInv, LeaveRunLoop, Move,
   callerVars, flagVars
<1>1. TypeOK'
  <2>1. FlagsTypeOK'
    BY DEF TypeOK, FlagsTypeOK
  <2>2. faults' \in 0 .. MaxFaults
    BY FaultsAssumption DEF TypeOK
  <2>3. QED
    BY <2>1, <2>2 DEF TypeOK, Wheres, Phases, AfterJoin
<1>2. TokenInv'
  BY DEF TypeOK, TokenInv
<1>3. ThreadInv'
  BY DEF TypeOK, TokenInv, ThreadInv, PlaceInv, QuietInv, Attended, Beginning,
     Published
<1>4. PlaceInv'
  BY DEF TypeOK, TokenInv, ThreadInv, PlaceInv, QuietInv, Attended, Beginning,
     Published
<1>5. QuietInv'
  BY DEF TypeOK, TokenInv, ThreadInv, PlaceInv, QuietInv, Attended, Beginning,
     Published, InRunLoop
<1>6. QED
  BY <1>1, <1>2, <1>3, <1>4, <1>5

\* A run loop that ends by itself leaves the holder a thread to join.
LEMMA RunLoopFinishesKeeps ==
  ASSUME TapInv, NEW t \in Threads, RunLoopFinishes(t)
  PROVE  TapInv'
<1> USE CallersAssumption, ThreadsAssumption DEF TapInv, RunLoopFinishes, Move,
   callerVars, flagVars, Fault
<1>1. TypeOK'
  <2>1. FlagsTypeOK'
    BY DEF TypeOK, FlagsTypeOK
  <2>2. faults' \in 0 .. MaxFaults
    BY FaultsAssumption DEF TypeOK
  <2>3. QED
    BY <2>1, <2>2 DEF TypeOK, Wheres, Phases, AfterJoin
<1>2. TokenInv'
  BY DEF TypeOK, TokenInv
<1>3. ThreadInv'
  BY DEF TypeOK, TokenInv, ThreadInv, PlaceInv, QuietInv, Attended, Beginning,
     Published
<1>4. PlaceInv'
  BY DEF TypeOK, TokenInv, ThreadInv, PlaceInv, QuietInv, Attended, Beginning,
     Published
<1>5. QuietInv'
  BY DEF TypeOK, TokenInv, ThreadInv, PlaceInv, QuietInv, Attended, Beginning,
     Published, InRunLoop
<1>6. QED
  BY <1>1, <1>2, <1>3, <1>4, <1>5

\* The tap thread takes its run loop's name back and ends.
LEMMA PublishStoppedKeeps ==
  ASSUME TapInv, NEW t \in Threads, PublishStopped(t)
  PROVE  TapInv'
<1> USE CallersAssumption, ThreadsAssumption DEF TapInv, PublishStopped, Move,
   callerVars
<1>1. TypeOK'
  <2>1. FlagsTypeOK'
    BY DEF TypeOK, FlagsTypeOK
  <2>2. faults' \in 0 .. MaxFaults
    BY FaultsAssumption DEF TypeOK
  <2>3. QED
    BY <2>1, <2>2 DEF TypeOK, Wheres, Phases, AfterJoin
<1>2. TokenInv'
  BY DEF TypeOK, TokenInv
<1>3. ThreadInv'
  BY DEF TypeOK, TokenInv, ThreadInv, PlaceInv, QuietInv, Attended, Beginning,
     Published
<1>4. PlaceInv'
  BY DEF TypeOK, TokenInv, ThreadInv, PlaceInv, QuietInv, Attended, Beginning,
     Published
<1>5. QuietInv'
  BY DEF TypeOK, TokenInv, ThreadInv, PlaceInv, QuietInv, Attended, Beginning,
     Published, InRunLoop
<1>6. QED
  BY <1>1, <1>2, <1>3, <1>4, <1>5


(***************************************************************************)
(* The inductive invariant.                                                *)
(***************************************************************************)
LEMMA TapInvInit == Init => TapInv
<1> SUFFICES ASSUME Init PROVE TapInv
  OBVIOUS
<1> USE CallersAssumption, ThreadsAssumption, FaultsAssumption DEF Init
<1>1. TypeOK
  <2>1. FlagsTypeOK
    BY DEF FlagsTypeOK
  <2>2. faults \in 0 .. MaxFaults
    OBVIOUS
  <2>3. QED
    BY <2>1, <2>2 DEF TypeOK, Wheres, Phases, AfterJoin
<1>2. TokenInv /\ ThreadInv /\ PlaceInv /\ QuietInv
  BY DEF TokenInv, ThreadInv, PlaceInv, QuietInv, Attended
<1>3. QED
  BY <1>1, <1>2 DEF TapInv

\* Every step keeps the invariant, action by action.
LEMMA TapInvStep == TapInv /\ [Next]_vars => TapInv'
<1> SUFFICES ASSUME TapInv, [Next]_vars PROVE TapInv'
  OBVIOUS
<1>1. ASSUME NEW c \in Callers, Caller(c) \/ Choice(c) PROVE TapInv'
  BY <1>1, RegisterKeeps, DropKeeps, BeginStartKeeps, CreateKeeps,
          CreateFailsKeeps, MarkJoinableKeeps, StartReturnsKeeps, JoinKeeps,
          ClearHandlerKeeps, StopKeeps
     DEF Caller, Choice
<1>2. ASSUME NEW t \in Threads, TapThread(t) \/ MacOS(t) PROVE TapInv'
  BY <1>2, CreateTapKeeps, CreateSourceKeeps, PublishFailedKeeps,
          PublishStartedKeeps, EnterRunLoopKeeps, CallbackReturnsKeeps,
          ReenableKeeps, LeaveRunLoopKeeps, PublishStoppedKeeps,
          CallbackKeeps, TapDisabledKeeps, RunLoopFinishesKeeps
     DEF TapThread, MacOS
<1>3. CASE UNCHANGED vars
  <2> USE <1>3 DEF vars, TapInv
  <2>1. TypeOK'
    BY DEF TypeOK, FlagsTypeOK
  <2>2. TokenInv' /\ ThreadInv'
    BY DEF TokenInv, ThreadInv
  <2>3. PlaceInv' /\ QuietInv'
    BY DEF PlaceInv, QuietInv, InRunLoop
  <2>4. QED
    BY <2>1, <2>2, <2>3
<1>4. QED
  BY <1>1, <1>2, <1>3 DEF Next

\* The invariant of the event tap: the handler slot is a token, and where its
\* owner is determines the thread and the flags (event_tap.rs, mouse.c).
THEOREM TapInvariant == Spec => []TapInv
<1>1. QED
  BY TapInvInit, TapInvStep, PTL DEF Spec

\* Every variable stays in its range; a join names a thread.
THEOREM TapTypeCorrect == Spec => []TypeOK
<1>1. TapInv => TypeOK
  BY DEF TapInv
<1>2. QED
  BY <1>1, TapInvariant, PTL

\* The native start and stop never run for two callers at once.
THEOREM NativeCallsNeverOverlap == Spec => []NativeCallsAreSerial
<1>1. TapInv => NativeCallsAreSerial
  BY DEF TapInv, TokenInv, NativeCallsAreSerial
<1>2. QED
  BY <1>1, TapInvariant, PTL

\* There is never a second tap thread, however many callers and faults.
THEOREM NeverTwoTapThreads == Spec => []OneTapThread
<1>1. TapInv => OneTapThread
  BY DEF TapInv, ThreadInv, OneTapThread
<1>2. QED
  BY <1>1, TapInvariant, PTL

\* A run loop that may call the handler has one.
THEOREM HandlerOutlivesCallbacks == Spec => []CallbackSeesHandler
<1>1. TapInv => CallbackSeesHandler
  BY DEF TapInv, ThreadInv, CallbackSeesHandler, InRunLoop
<1>2. QED
  BY <1>1, TapInvariant, PTL

\* CFRunLoopStop is only given the run loop of a thread that has not ended.
THEOREM StoppedRunLoopIsLive == Spec => []RunLoopIsLive
<1>1. TapInv => RunLoopIsLive
  BY ThreadsAssumption DEF TapInv, TypeOK, ThreadInv, QuietInv, RunLoopIsLive,
     Published
<1>2. QED
  BY <1>1, TapInvariant, PTL

\* A held tap is neither stopped nor joined behind its holder's back.
THEOREM HeldTapStays == Spec => []HeldTapIsUntouched
<1>1. TapInv => HeldTapIsUntouched
  BY DEF TapInv, TypeOK, TokenInv, PlaceInv, QuietInv, Attended, HeldTapIsUntouched
<1>2. QED
  BY <1>1, TapInvariant, PTL

\* Once every caller is idle, nothing of the tap is left.
THEOREM QuietMeansClean == Spec => []NothingIsLeftBehind
<1>1. ASSUME TapInv, \A c \in Callers : pc[c] = "idle"
      PROVE  handler = NULL /\ \A t \in Threads : phase[t] = "none"
  BY <1>1, CallersAssumption DEF TapInv, TypeOK, TokenInv, ThreadInv
<1>2. TapInv => NothingIsLeftBehind
  <2> SUFFICES ASSUME TapInv, \A c \in Callers : pc[c] = "idle"
               PROVE  /\ handler = NULL /\ runLoop = NULL /\ stopped = {}
                      /\ ~starting /\ ~running /\ ~joinable
                      /\ \A t \in Threads : phase[t] = "none"
    BY DEF NothingIsLeftBehind
  <2>1. ~starting /\ ~running /\ ~joinable /\ runLoop = NULL
    BY <1>1 DEF TapInv, QuietInv
  <2>2. stopped = {}
    BY <1>1 DEF TapInv, TypeOK, QuietInv, InRunLoop
  <2>3. QED
    BY <1>1, <2>1, <2>2
<1>3. QED
  BY <1>2, TapInvariant, PTL

-----------------------------------------------------------------------------
(* The event tap implements its contract: each step is one of the          *)
(* contract's, or changes neither the owner nor whether it is watching.    *)

\* The initial states map to those of the contract.
LEMMA ContractInit == Init => Contract!Init
BY DEF Init, Contract!Init, InRunLoop

\* What callers do claims the tap, releases it, or is not seen by the contract.
LEMMA ContractCallerStep ==
  ASSUME TapInv, NEW c \in Callers, Caller(c) \/ Choice(c)
  PROVE  [Contract!Next]_<<handler, \E t \in Threads : InRunLoop(t)>>
<1> USE CallersAssumption DEF TapInv, TypeOK, InRunLoop, Contract!Next
<1>1. CASE Register(c)
  <2>1. handler = NULL /\ handler' = c /\ phase' = phase
    BY <1>1 DEF Register, threadVars
  <2>2. \A t \in Threads : phase[t] = "none"
    BY <2>1 DEF ThreadInv
  <2>3. QED
    BY <2>1, <2>2 DEF Contract!Claim
<1>2. CASE ClearHandler(c)
  <2>1. pc[c] = "clearing" /\ handler' = NULL /\ phase' = phase
    BY <1>2 DEF ClearHandler, threadVars
  <2>2. handler = c /\ \A t \in Threads : phase[t] = "none"
    BY <2>1 DEF TokenInv, ThreadInv, Attended
  <2>3. QED
    BY <2>1, <2>2 DEF Contract!Release
<1>3. CASE Create(c) \/ Join(c)
  <2>1. handler' = handler
    BY <1>3 DEF Create, Join
  <2>2. (\E t \in Threads : InRunLoop(t))' <=> \E t \in Threads : InRunLoop(t)
    BY <1>3 DEF Create, Join, Move
  <2>3. QED
    BY <2>1, <2>2
<1>4. CASE \/ BeginStart(c) \/ CreateFails(c) \/ MarkJoinable(c)
           \/ StartReturns(c) \/ Drop(c) \/ Stop(c)
  <2>1. handler' = handler /\ phase' = phase
    BY <1>4 DEF BeginStart, CreateFails, MarkJoinable, StartReturns, Drop, Stop,
       threadVars
  <2>2. QED
    BY <2>1
<1>5. QED
  BY <1>1, <1>2, <1>3, <1>4 DEF Caller, Choice

\* What a tap thread does begins or ends watching, or is not seen either.
LEMMA ContractThreadStep ==
  ASSUME TapInv, NEW u \in Threads, TapThread(u) \/ MacOS(u)
  PROVE  [Contract!Next]_<<handler, \E t \in Threads : InRunLoop(t)>>
<1> USE CallersAssumption DEF TapInv, TypeOK, InRunLoop, Contract!Next
<1>1. handler' = handler
  BY DEF TapThread, MacOS, CreateTap, CreateSource, PublishFailed, PublishStarted,
     EnterRunLoop, CallbackReturns, Reenable, LeaveRunLoop, PublishStopped,
        Callback,
     TapDisabled, RunLoopFinishes, callerVars
<1>2. \A t \in Threads : phase[t] # "none" => t = u \/ phase[u] = "none"
  BY DEF ThreadInv
<1>3. CASE EnterRunLoop(u)
  <2>1. phase[u] = "entering" /\ phase' = [phase EXCEPT ![u] = "running"]
    BY <1>3 DEF EnterRunLoop, Move
  <2>2. handler # NULL
    BY <2>1 DEF ThreadInv
  <2>3. (\E t \in Threads : InRunLoop(t))' /\ ~ \E t \in Threads : InRunLoop(t)
    BY <1>2, <2>1
  <2>4. QED
    BY <1>1, <2>2, <2>3 DEF Contract!Watch
<1>4. CASE LeaveRunLoop(u) \/ RunLoopFinishes(u)
  <2>1. phase[u] = "running" /\ phase' = [phase EXCEPT ![u] = "unwinding"]
    BY <1>4 DEF LeaveRunLoop, RunLoopFinishes, Move
  <2>2. ~ (\E t \in Threads : InRunLoop(t))' /\ \E t \in Threads : InRunLoop(t)
    BY <1>2, <2>1
  <2>3. QED
    BY <1>1, <2>2 DEF Contract!Rest
<1>5. CASE \/ CreateTap(u) \/ CreateSource(u) \/ PublishFailed(u)
           \/ PublishStarted(u) \/ CallbackReturns(u) \/ Reenable(u)
           \/ PublishStopped(u) \/ Callback(u) \/ TapDisabled(u)
  <2>1. \A t \in Threads : InRunLoop(t)' <=> InRunLoop(t)
    BY <1>5 DEF CreateTap, CreateSource, PublishFailed, PublishStarted,
       CallbackReturns,
       Reenable, PublishStopped, Callback, TapDisabled, Move
  <2>2. QED
    BY <1>1, <2>1
<1>6. QED
  BY <1>3, <1>4, <1>5 DEF TapThread, MacOS

\* The detailed event tap implements the contract its user relies on.
THEOREM TapKeepsContract == Spec => KeepsContract
<1>1. TapInv /\ [Next]_vars => [Contract!Next]_<<handler,
   \E t \in Threads : InRunLoop(t)>>
  <2> SUFFICES ASSUME TapInv, [Next]_vars
               PROVE  [Contract!Next]_<<handler, \E t \in Threads : InRunLoop(t)>>
    OBVIOUS
  <2>1. CASE Next
    BY <2>1, ContractCallerStep, ContractThreadStep DEF Next
  <2>2. CASE UNCHANGED vars
    BY <2>2 DEF vars, InRunLoop
  <2>3. QED
    BY <2>1, <2>2
<1>2. QED
  BY ContractInit, <1>1, TapInvariant, PTL DEF Spec, KeepsContract, Contract!Spec
=============================================================================
