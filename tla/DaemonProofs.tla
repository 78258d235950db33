---------------------------- MODULE DaemonProofs ----------------------------
(***************************************************************************)
(* Proofs about Daemon for every set of displays, every set of lists of    *)
(* them, every identity function and every value of the bounds and         *)
(* intervals.                                                              *)
(***************************************************************************)
EXTENDS DaemonProperties, TLAPS

-----------------------------------------------------------------------------
(***************************************************************************)
(* Type correctness, one lemma for each part of TypeOK.                    *)
(***************************************************************************)

(***************************************************************************)
(* The elements of a list that macOS can report are displays.              *)
(***************************************************************************)
LEMMA LayoutElements ==
  ASSUME NEW list \in Layouts
  PROVE  /\ Elements(list) \subseteq Displays
         /\ \A i \in DOMAIN list : list[i] \in Displays
BY LayoutsAssumption DEF Elements

(***************************************************************************)
(* The initial states are type correct.                                    *)
(***************************************************************************)
LEMMA TypeInit == Init => TypeOK
<1> SUFFICES ASSUME Init PROVE TypeOK
  OBVIOUS
<1>1. MacosTypeOK
  BY DEF Init, MacosTypeOK
<1>2. LockTypeOK
  BY DEF Init, LockTypeOK, MaybeDisplay
<1>3. SnapshotTypeOK /\ PollTypeOK
  BY NumbersAssumption DEF Init, SnapshotTypeOK, PollTypeOK
<1>4. ControlTypeOK
  BY NumbersAssumption
  DEF Init, ControlTypeOK, Steps, Tasks, Goals, MaybeDisplay
<1>5. HistoryTypeOK
  BY NumbersAssumption DEF Init, HistoryTypeOK, MaybeDisplay
<1>6. FlagsTypeOK
  BY DEF Init, FlagsTypeOK
<1>7. saved \in Identities
  BY IdentityAssumption DEF Init
<1> QED
  BY <1>1, <1>2, <1>3, <1>4, <1>5, <1>6, <1>7 DEF TypeOK

(***************************************************************************)
(* Only the environment and a relocation move the Dock, and only to a      *)
(* display of the list.                                                    *)
(***************************************************************************)
LEMMA MacosTypeStep == TypeOK /\ [Next]_vars => MacosTypeOK'
<1> SUFFICES ASSUME TypeOK, [Next]_vars PROVE MacosTypeOK'
  OBVIOUS
<1> USE DEF TypeOK, MacosTypeOK
<1>1. CASE Environment
  BY <1>1 DEF Environment, ChangeLayout, DockMoves, DockAppears,
    ChangeOrientation, PushEdge, Tick, TapDisabled, TapReenabled,
    CallbackStarts, CallbackClears, Crash, Start, Terminate, macosVars
<1>2. CASE Clients
  BY <1>2 DEF Clients, GetState, SetStateRefused, SetStateAccepted,
    UnlockRequest, OnlyControl, macosVars
<1>3. CASE Boot \/ Loop \/ ReceiveTimeout \/ Poll \/ Reconcile \/ Query
  BY <1>3 DEF Boot, BootStatus, BootInfo, Loop, ReceiveTimeout, Poll,
    PollDisplays, RetryInfo, ChangedInfo, ChangedStatus, Unchanged, HealCheck,
    RefreshAfterReconcile, Reconcile, Query, OnlyControl, macosVars
<1>4. CASE Relocate
  BY <1>4 DEF Relocate, RelocateMissing, RelocateSideways, RelocateMoves,
    RelocateInterrupted, RelocateTimesOut, Settle, Relocatable, OnlyControl,
    macosVars
<1>5. CASE Lock
  BY <1>5 DEF Lock, SetLock, SetLockFails, Save, Commit, Forget, Release, Join,
    Exit, OnlyControl, macosVars
<1>6. CASE UNCHANGED vars
  BY <1>6 DEF vars, macosVars
<1> QED
  BY <1>1, <1>2, <1>3, <1>4, <1>5, <1>6 DEF Next, MainThread

(***************************************************************************)
(* The lock's variables; the target is stored from `want', which is typed. *)
(***************************************************************************)
LEMMA LockTypeStep == TypeOK /\ [Next]_vars => LockTypeOK'
<1> SUFFICES ASSUME TypeOK, [Next]_vars PROVE LockTypeOK'
  OBVIOUS
<1> USE DEF TypeOK, LockTypeOK, MaybeDisplay
<1>0. Elements(active) \subseteq Displays
  BY LayoutElements DEF MacosTypeOK
<1>1. CASE Environment
  BY <1>1 DEF Environment, ChangeLayout, DockMoves, DockAppears,
    ChangeOrientation, PushEdge, Tick, TapDisabled, TapReenabled,
    CallbackStarts, CallbackClears, Crash, ProcessEnds, Start, Terminate,
    othersThanMacos, lockVars
<1>2. CASE Clients
  BY <1>2 DEF Clients, GetState, SetStateRefused, SetStateAccepted,
    UnlockRequest, OnlyControl, lockVars
<1>3. CASE Boot \/ Loop \/ ReceiveTimeout \/ Poll \/ Reconcile \/ Query
  BY <1>0, <1>3 DEF Boot, BootStatus, BootInfo, ProcessEnds, Loop,
    ReceiveTimeout, Poll, PollDisplays, RetryInfo, ChangedInfo, ChangedStatus,
    Unchanged, HealCheck, RefreshAfterReconcile, Reconcile, Query, OnlyControl,
    lockVars
<1>4. CASE Relocate
  BY <1>4 DEF Relocate, RelocateMissing, RelocateSideways, RelocateMoves,
    RelocateInterrupted, RelocateTimesOut, Settle, OnlyControl, lockVars
<1>5. CASE Lock
  BY <1>0, <1>5 DEF Lock, SetLock, SetLockFails, Save, Commit, Forget, Release,
    Join, Exit, ProcessEnds, OnlyControl, ControlTypeOK, lockVars
<1>6. CASE UNCHANGED vars
  BY <1>6 DEF vars, lockVars
<1> QED
  BY <1>1, <1>2, <1>3, <1>4, <1>5, <1>6 DEF Next, MainThread

(***************************************************************************)
(* The snapshot's list and location are replaced together, and the         *)
(* location alone only by an index into the list.                          *)
(***************************************************************************)
LEMMA SnapshotTypeStep == TypeOK /\ [Next]_vars => SnapshotTypeOK'
<1> SUFFICES ASSUME TypeOK, [Next]_vars PROVE SnapshotTypeOK'
  OBVIOUS
<1> USE DEF TypeOK, SnapshotTypeOK
<1>0. active \in Layouts /\ Elements(active) \subseteq Displays
  BY LayoutElements DEF MacosTypeOK
<1>1. CASE Environment
  BY <1>1 DEF Environment, ChangeLayout, DockMoves, DockAppears,
    ChangeOrientation, PushEdge, Tick, TapDisabled, TapReenabled,
    CallbackStarts, CallbackClears, Crash, ProcessEnds, Start, Terminate,
    othersThanMacos, snapshotVars
<1>2. CASE Clients
  BY <1>2 DEF Clients, GetState, KnownLocation, SetStateRefused,
    SetStateAccepted, UnlockRequest, OnlyControl, snapshotVars
<1>3. CASE Boot \/ Loop \/ ReceiveTimeout \/ Poll \/ Reconcile \/ Query
  BY <1>0, <1>3 DEF Boot, BootStatus, BootInfo, ProcessEnds, Loop,
    ReceiveTimeout, Poll, PollDisplays, RetryInfo, ChangedInfo, RefreshInfo,
    ChangedStatus, Unchanged, KnownLocation, HealCheck, RefreshAfterReconcile,
    RefreshStatus, Reconcile, Query, OnlyControl, snapshotVars
<1>4. CASE Relocate
  BY <1>4 DEF Relocate, RelocateMissing, RelocateSideways, RelocateMoves,
    RelocateInterrupted, RelocateTimesOut, Settle, OnlyControl, snapshotVars
<1>5. CASE Lock
  BY <1>0, <1>5 DEF Lock, SetLock, SetLockFails, Save, Commit, RefreshStatus,
    Forget, Release, Join, Exit, ProcessEnds, OnlyControl, snapshotVars
<1>6. CASE UNCHANGED vars
  BY <1>6 DEF vars, snapshotVars
<1> QED
  BY <1>1, <1>2, <1>3, <1>4, <1>5, <1>6 DEF Next, MainThread

(***************************************************************************)
(* How a task ends: what the timers and the control variables become.      *)
(***************************************************************************)
LEMMA TaskEndTypes ==
  ASSUME TypeOK, Succeed \/ Fail
  PROVE  /\ cooldown' \in 0..RetryCooldown /\ nextPoll' \in 0..PollInterval
         /\ pc' \in Steps /\ task' \in Tasks /\ goal' \in Goals
         /\ want' \in MaybeDisplay /\ attempt' \in 0..RelocationAttempts
         /\ acked' \in MaybeDisplay \cup {Unlocked}
BY NumbersAssumption
DEF TypeOK, PollTypeOK, ControlTypeOK, HistoryTypeOK, Succeed, Fail, Answered,
  Commanded, Reconciled, ReconcileFailed, UnsupportedHandled, Idle, EndPoll,
  Steps, Tasks,
  Goals, MaybeDisplay

(***************************************************************************)
(* The preferred display is one of the snapshot's list.                    *)
(***************************************************************************)
LEMMA PreferredInSnapshot ==
  ASSUME TypeOK
  PROVE  /\ Preferred \subseteq Displays
         /\ \A d \in Preferred : d \in Elements(displays) /\ IsPreferred(d)
<1>1. \A i \in DOMAIN displays : displays[i] \in Displays
  BY LayoutElements DEF TypeOK, SnapshotTypeOK
<1> QED
  BY <1>1 DEF Preferred, Elements

(***************************************************************************)
(* The timers stay within their intervals.                                 *)
(***************************************************************************)
LEMMA PollTypeStep == TypeOK /\ [Next]_vars => PollTypeOK'
<1> SUFFICES ASSUME TypeOK, [Next]_vars PROVE PollTypeOK'
  OBVIOUS
<1>0. Succeed \/ Fail =>
        cooldown' \in 0..RetryCooldown /\ nextPoll' \in 0..PollInterval
  BY TaskEndTypes
<1> USE NumbersAssumption DEF TypeOK, PollTypeOK, MacosTypeOK
<1>1. CASE Environment
  <2>1. CASE Tick
    BY <2>1 DEF Tick, Earlier
  <2>2. CASE Crash
    BY <2>2 DEF Crash, ProcessEnds
  <2>3. CASE ~Tick /\ ~Crash
    BY <1>1, <2>3 DEF Environment, ChangeLayout, DockMoves, DockAppears,
      ChangeOrientation, PushEdge, CallbackStarts, CallbackClears, TapDisabled,
      TapReenabled, Start, Terminate, othersThanMacos, pollVars
  <2>4. QED
    BY <2>1, <2>2, <2>3
<1>2. CASE Clients
  BY <1>2 DEF Clients, GetState, SetStateRefused, SetStateAccepted,
    UnlockRequest, OnlyControl, pollVars
<1>3. CASE Boot \/ Loop \/ ReceiveTimeout \/ Query
  BY <1>0, <1>3 DEF Boot, BootStatus, BootInfo, ProcessEnds, Loop,
    ReceiveTimeout, Query, Arrived, OnlyControl, pollVars
<1>4. CASE Reconcile
  BY <1>0, <1>4 DEF Reconcile
<1>5. CASE Poll
  BY <1>5 DEF Poll, PollDisplays, PendingAfterEqual, RetryInfo, ChangedInfo,
    RefreshInfo, ChangedStatus, Unchanged, HealCheck, EndPoll,
    RefreshAfterReconcile, OnlyControl, pollVars
<1>6. CASE Relocate
  BY <1>0, <1>6 DEF Relocate, RelocateMissing, RelocateSideways, RelocateMoves,
    RelocateInterrupted, RelocateTimesOut, Settle, Arrived, Retry, OnlyControl,
    pollVars
<1>7. CASE Lock
  BY <1>0, <1>7 DEF Lock, SetLock, AfterLock, SetLockFails, Save, Commit,
    Forget, Release, Join, Exit, ProcessEnds, OnlyControl, pollVars
<1>8. CASE UNCHANGED vars
  BY <1>8 DEF vars, pollVars
<1> QED
  BY <1>1, <1>2, <1>3, <1>4, <1>5, <1>6, <1>7, <1>8 DEF Next, MainThread

(***************************************************************************)
(* Control stays within its steps; a relocation is never attempted more    *)
(* than RelocationAttempts times.                                          *)
(***************************************************************************)
LEMMA ControlTypeStep == TypeOK /\ [Next]_vars => ControlTypeOK'
<1> SUFFICES ASSUME TypeOK, [Next]_vars PROVE ControlTypeOK'
  OBVIOUS
<1>0. Succeed \/ Fail =>
        /\ pc' \in Steps /\ task' \in Tasks /\ goal' \in Goals
        /\ want' \in MaybeDisplay /\ attempt' \in 0..RelocationAttempts
  BY TaskEndTypes
<1> USE NumbersAssumption
    DEF TypeOK, ControlTypeOK, Steps, Tasks, Goals, MaybeDisplay, Goto, Idle,
        operation
<1>1. CASE Environment
  BY <1>1 DEF Environment, ChangeLayout, DockMoves, DockAppears,
    ChangeOrientation, PushEdge, Tick, TapDisabled, TapReenabled,
    CallbackStarts, CallbackClears, Crash, ProcessEnds, Start, Terminate,
    othersThanMacos, controlVars
<1>2. CASE Clients
  <2>1. \A i \in DOMAIN displays : displays[i] \in Displays
    BY LayoutElements DEF SnapshotTypeOK
  <2> QED
    BY <1>2, <2>1 DEF Clients, GetState, SetStateRefused, SetStateAccepted,
      UnlockRequest
<1>3. CASE Boot \/ Loop \/ ReceiveTimeout
  BY <1>3 DEF Boot, BootStatus, BootInfo, ProcessEnds, Loop, ReceiveTimeout
<1>4. CASE Reconcile
  BY <1>0, <1>4, PreferredInSnapshot DEF Reconcile, LockTypeOK
<1>5. CASE Query
  BY <1>0, <1>5 DEF Query, Arrived
<1>6. CASE Poll
  BY <1>6 DEF Poll, PollDisplays, RetryInfo, ChangedInfo, ChangedStatus,
    Unchanged, HealCheck, EndPoll, RefreshAfterReconcile
<1>7. CASE Relocate
  BY <1>0, <1>7 DEF Relocate, RelocateMissing, RelocateSideways, RelocateMoves,
    RelocateInterrupted, RelocateTimesOut, Settle, Arrived, Retry, AttemptsLeft
<1>8. CASE Lock
  BY <1>0, <1>8 DEF Lock, SetLock, AfterLock, SetLockFails, Save, Commit,
    Forget, Release, Join, Exit, ProcessEnds
<1>9. CASE UNCHANGED vars
  BY <1>9 DEF vars, controlVars
<1> QED
  BY <1>1, <1>2, <1>3, <1>4, <1>5, <1>6, <1>7, <1>8, <1>9 DEF Next, MainThread

(***************************************************************************)
(* The budgets only go down to 0; the history names displays and lists.    *)
(***************************************************************************)
LEMMA HistoryTypeStep == TypeOK /\ [Next]_vars => HistoryTypeOK'
<1> SUFFICES ASSUME TypeOK, [Next]_vars PROVE HistoryTypeOK'
  OBVIOUS
<1>0. Succeed \/ Fail => acked' \in MaybeDisplay \cup {Unlocked}
  BY TaskEndTypes
<1> USE NumbersAssumption
    DEF TypeOK, HistoryTypeOK, MaybeDisplay, Disturb, Undisturbed, boundVars,
        historyVars, pollHistory
<1>1. CASE Environment
  BY <1>1 DEF Environment, ChangeLayout, DockMoves, DockAppears,
    ChangeOrientation, PushEdge, Tick, TapDisabled, TapReenabled,
    CallbackStarts, CallbackClears, Crash, ProcessEnds, Start, Terminate,
    othersThanMacos
<1>2. CASE Clients
  BY <1>2 DEF Clients, GetState, Request, SetStateRefused, SetStateAccepted,
    UnlockRequest, OnlyControl
<1>3. CASE Boot \/ Loop \/ ReceiveTimeout
  BY <1>3 DEF Boot, BootStatus, BootInfo, ProcessEnds, Loop, ReceiveTimeout,
    OnlyControl
<1>4. CASE Reconcile
  BY <1>0, <1>4 DEF Reconcile
<1>5. CASE Query
  BY <1>0, <1>5 DEF Query, Arrived, OnlyControl
<1>6. CASE Poll
  BY <1>6 DEF Poll, PollDisplays, RetryInfo, ChangedInfo, RefreshInfo,
    ChangedStatus, Unchanged, HealCheck, RefreshAfterReconcile, OnlyControl,
    MacosTypeOK
<1>7. CASE Relocate
  BY <1>0, <1>7 DEF Relocate, RelocateMissing, RelocateSideways, RelocateMoves,
    RelocateInterrupted, RelocateTimesOut, Settle, Arrived, Retry, OnlyControl
<1>8. CASE Lock
  BY <1>0, <1>8 DEF Lock, SetLock, AfterLock, SetLockFails, Save, Commit,
    Forget, Release, Join, Exit, ProcessEnds, OnlyControl
<1>9. CASE UNCHANGED vars
  BY <1>9 DEF vars
<1> QED
  BY <1>1, <1>2, <1>3, <1>4, <1>5, <1>6, <1>7, <1>8, <1>9 DEF Next, MainThread

(***************************************************************************)
(* The Boolean variables.                                                  *)
(***************************************************************************)
LEMMA FlagsTypeStep == TypeOK /\ [Next]_vars => FlagsTypeOK'
<1> SUFFICES ASSUME TypeOK, [Next]_vars PROVE FlagsTypeOK'
  OBVIOUS
<1> USE DEF TypeOK, FlagsTypeOK, lockVars, controlVars, historyVars,
        pollHistory
<1>1. CASE Environment
  BY <1>1 DEF Environment, ChangeLayout, DockMoves, DockAppears,
    ChangeOrientation, PushEdge, Tick, TapDisabled, TapReenabled,
    CallbackStarts, CallbackClears, Crash, ProcessEnds, Start, Terminate,
    othersThanMacos
<1>2. CASE Clients
  BY <1>2 DEF Clients, GetState, Goto, SetStateRefused, SetStateAccepted,
    DockIsAtBottom, Idle, UnlockRequest, OnlyControl
<1>3. CASE Boot \/ Loop \/ ReceiveTimeout
  BY <1>3 DEF Boot, BootStatus, BootInfo, Goto, ProcessEnds, Loop,
    ReceiveTimeout, OnlyControl
<1>4. Succeed \/ Fail => shutdown' = shutdown
  BY DEF Succeed, Fail, Answered, Reconciled, ReconcileFailed,
    UnsupportedHandled, EndPoll, Idle
<1>5. CASE Poll
  BY <1>5 DEF Poll, PollDisplays, RetryInfo, ChangedInfo, ChangedStatus,
    Unchanged, DockIsAtBottom, HealCheck, EndPoll, RefreshAfterReconcile, Goto,
    Idle, OnlyControl
<1>6. CASE Reconcile \/ Query
  BY <1>4, <1>6 DEF Reconcile, DockIsAtBottom, Query, Arrived, Goto,
    OnlyControl
<1>7. CASE Relocate
  BY <1>4, <1>7 DEF Relocate, RelocateMissing, RelocateSideways, RelocateMoves,
    RelocateInterrupted, RelocateTimesOut, Settle, Arrived, Retry, Goto,
    OnlyControl
<1>8. CASE Lock
  BY <1>4, <1>8 DEF Lock, SetLock, AfterLock, SetLockFails, Save, Commit,
    Forget, Release, Join, Exit, ProcessEnds, Goto, OnlyControl
<1>9. CASE UNCHANGED vars
  BY <1>9 DEF vars
<1> QED
  BY <1>1, <1>2, <1>3, <1>5, <1>6, <1>7, <1>8, <1>9 DEF Next, MainThread

-----------------------------------------------------------------------------
(***************************************************************************)
(* The inductive invariant. TypeOK is not inductive by itself: that Save   *)
(* writes an identity needs the display it saves to be one, which is a     *)
(* matter of how control got there. ControlInv says which operation each   *)
(* step of the main thread belongs to.                                     *)
(***************************************************************************)
Between == {"exited", "crashed", "boot_status", "boot_info", "loop", "recv",
            "poll", "retry_info", "unchanged", "heal", "changed_info",
            "changed_status", "reconcile", "refresh"}

ControlInv ==
  /\ pc \in Between => goal = "none" /\ task \notin {"set", "unlock"}
  /\ task = "set" <=> goal = "pin"
  /\ task = "unlock" => goal = "forget"
  /\ pc \in {"query", "relocate", "settle"} => goal \in {"hold", "restore", "pin"}
  /\ pc = "set_lock" => goal \in {"restore", "pin"}
  /\ pc \in {"save", "commit"} => goal = "pin"
  /\ pc = "forget" => goal = "forget"
  /\ goal \in {"hold", "restore", "pin"} => want \in Displays

(***************************************************************************)
(* PinInv ties the lock, the preferences and what clients were told to the *)
(* step under way. While a command is handled nothing is acknowledged; an  *)
(* apply_unlock has already withdrawn an acknowledged pin; a restore has   *)
(* found its display by the saved identity; and a lock that is about to    *)
(* differ from the preferences does so only between two named steps.       *)
(***************************************************************************)
LockMaybeUnsaved == \/ goal = "pin" /\ pc = "save"
                    \/ goal = "forget" /\ pc = "release"

AnswerInv ==
  /\ task \in {"set", "unlock"} => acked = NoDisplay
  /\ goal = "forget" => acked \notin Displays
  /\ AckedPinIsSaved
  /\ AckedUnlockSticks

FileInv ==
  /\ goal = "forget" /\ pc \in {"release", "join"} => saved = NoIdentity
  /\ goal = "restore" => saved = Identity[want] /\ saved # NoIdentity
  /\ pc = "commit" => saved = Identity[want]

TargetInv ==
  /\ pc = "join" => lockTarget = NoDisplay
  /\ pc \in {"save", "commit"} => lockTarget \in {NoDisplay, want}
  /\ lockTarget # NoDisplay /\ ~writeFailed /\ ~LockMaybeUnsaved
       => saved = Identity[lockTarget]
  /\ LockNeedsTap

PinInv == AnswerInv /\ FileInv /\ TargetInv

DaemonInv == TypeOK /\ ControlInv /\ PinInv

(***************************************************************************)
(* The initial states satisfy the invariant.                               *)
(***************************************************************************)
LEMMA InvInit == Init => DaemonInv
<1> SUFFICES ASSUME Init PROVE DaemonInv
  OBVIOUS
<1>1. TypeOK
  BY TypeInit
<1>2. ControlInv
  BY DEF Init, ControlInv, Between
<1>3. PinInv
  BY SentinelAssumption
  DEF Init, PinInv, AnswerInv, FileInv, TargetInv, LockNeedsTap, AckedPinIsSaved, AckedUnlockSticks
<1> QED
  BY <1>1, <1>2, <1>3 DEF DaemonInv

(***************************************************************************)
(* However a task ends, no operation is under way after it.                *)
(***************************************************************************)
LEMMA TaskEndControl ==
  ASSUME Succeed \/ Fail
  PROVE  /\ pc' \in Between /\ goal' = "none"
         /\ task' \notin {"set", "unlock"}
         /\ ControlInv'
BY DEF Succeed, Fail, Answered, Reconciled, ReconcileFailed,
  UnsupportedHandled, Idle, EndPoll, Between, ControlInv

(***************************************************************************)
(* Control follows the operations.                                         *)
(***************************************************************************)
LEMMA ControlStep == TypeOK /\ ControlInv /\ [Next]_vars => ControlInv'
<1> SUFFICES ASSUME TypeOK, ControlInv, [Next]_vars PROVE ControlInv'
  OBVIOUS
<1>0. Succeed \/ Fail => ControlInv'
  BY TaskEndControl
<1> USE DEF ControlInv, Between, Goto, Idle, operation
<1>1. CASE Environment
  BY <1>1 DEF Environment, ChangeLayout, DockMoves, DockAppears,
    ChangeOrientation, PushEdge, Tick, TapDisabled, TapReenabled,
    CallbackStarts, CallbackClears, Crash, ProcessEnds, Start, Running,
    Terminate, othersThanMacos, controlVars
<1>2. CASE Clients
  <2>1. \A i \in DOMAIN displays : displays[i] \in Displays
    BY LayoutElements DEF TypeOK, SnapshotTypeOK
  <2> QED
    BY <1>2, <2>1 DEF Clients, GetState, Request, SetStateRefused,
      SetStateAccepted, UnlockRequest
<1>3. CASE Boot \/ Loop \/ ReceiveTimeout
  BY <1>3 DEF Boot, BootStatus, BootInfo, ProcessEnds, Loop, ReceiveTimeout
<1>4. CASE Reconcile
  BY <1>0, <1>4, PreferredInSnapshot
  DEF Reconcile, TypeOK, LockTypeOK, MaybeDisplay
<1>5. CASE Query
  BY <1>0, <1>5 DEF Query, Arrived
<1>6. CASE Poll
  BY <1>6 DEF Poll, PollDisplays, RetryInfo, ChangedInfo, ChangedStatus,
    Unchanged, HealCheck, EndPoll, RefreshAfterReconcile
<1>7. CASE Relocate
  BY <1>0, <1>7 DEF Relocate, RelocateMissing, RelocateSideways, RelocateMoves,
    RelocateInterrupted, RelocateTimesOut, Settle, Arrived, Retry
<1>8. CASE Lock
  BY <1>0, <1>8 DEF Lock, SetLock, AfterLock, SetLockFails, Save, Commit,
    Forget, Release, Join, Exit, ProcessEnds
<1>9. CASE UNCHANGED vars
  BY <1>9 DEF vars, controlVars
<1> QED
  BY <1>1, <1>2, <1>3, <1>4, <1>5, <1>6, <1>7, <1>8, <1>9 DEF Next, MainThread

(***************************************************************************)
(* The preferences hold an identity, whole or torn: only Save, Forget and  *)
(* a crash in the middle of one of them write the file.                    *)
(***************************************************************************)
LEMMA SavedTypeStep ==
  TypeOK /\ ControlInv /\ [Next]_vars => saved' \in Identities
<1> SUFFICES ASSUME TypeOK, ControlInv, [Next]_vars PROVE saved' \in Identities
  OBVIOUS
<1>0. /\ saved \in Identities /\ NoIdentity \in Identities /\ Torn \in Identities
      /\ pc = "save" => Identity[want] \in Identities
  BY DEF TypeOK, Identities, ControlInv
<1>1. CASE Crash
  BY <1>0, <1>1 DEF Crash, PartlyWritten
<1>2. CASE Save \/ Forget
  BY <1>0, <1>2 DEF Save, Forget, PartlyWritten
<1>3. CASE Environment /\ ~Crash
  BY <1>0, <1>3 DEF Environment, ChangeLayout, DockMoves, DockAppears,
    ChangeOrientation, PushEdge, Tick, TapDisabled, TapReenabled,
    CallbackStarts, CallbackClears, Start, Terminate, othersThanMacos
<1>4. CASE Clients
  BY <1>0, <1>4 DEF Clients, GetState, SetStateRefused, SetStateAccepted,
    UnlockRequest, OnlyControl
<1>5. CASE Boot \/ Loop \/ ReceiveTimeout \/ Poll \/ Reconcile \/ Query
  BY <1>0, <1>5 DEF Boot, BootStatus, BootInfo, Loop, ReceiveTimeout, Poll,
    PollDisplays, RetryInfo, ChangedInfo, ChangedStatus, Unchanged, HealCheck,
    RefreshAfterReconcile, Reconcile, Query, OnlyControl
<1>6. CASE Relocate
  BY <1>0, <1>6 DEF Relocate, RelocateMissing, RelocateSideways, RelocateMoves,
    RelocateInterrupted, RelocateTimesOut, Settle, OnlyControl
<1>7. CASE Lock /\ ~(Save \/ Forget)
  BY <1>0, <1>7 DEF Lock, SetLock, SetLockFails, Commit, Release, Join, Exit,
    OnlyControl
<1>8. CASE UNCHANGED vars
  BY <1>0, <1>8 DEF vars
<1> QED
  BY <1>1, <1>2, <1>3, <1>4, <1>5, <1>6, <1>7, <1>8 DEF Next, MainThread

(***************************************************************************)
(* How a task ends for the client: a failure acknowledges nothing, and     *)
(* only the end of a command changes what was acknowledged.                *)
(***************************************************************************)
LEMMA TaskEndAnswer ==
  /\ Fail => acked' \in {acked, NoDisplay}
  /\ Succeed /\ task \notin {"set", "unlock"} => acked' = acked
  /\ Succeed /\ task = "set" => acked' = want
  /\ Succeed /\ task = "unlock" => acked' = Unlocked
<1>1. Fail => acked' \in {acked, NoDisplay}
  BY DEF Fail, Answered, ReconcileFailed, UnsupportedHandled
<1>2. Succeed /\ task \notin {"set", "unlock"} => acked' = acked
  BY DEF Succeed, Answered, Reconciled, UnsupportedHandled
<1>3. Succeed /\ task \in {"set", "unlock"}
        => acked' = IF task = "set" THEN want ELSE Unlocked
  BY DEF Succeed, Answered, Commanded, Reconciled, UnsupportedHandled
<1> QED
  BY <1>1, <1>2, <1>3

(***************************************************************************)
(* No step breaks the tie between lock, preferences and acknowledgements.  *)
(***************************************************************************)
LEMMA PinStep == DaemonInv /\ [Next]_vars => PinInv'
<1> SUFFICES ASSUME DaemonInv, [Next]_vars PROVE PinInv'
  OBVIOUS
<1> USE SentinelAssumption
    DEF DaemonInv, ControlInv, Between, PinInv, AnswerInv, FileInv,
        TargetInv, LockMaybeUnsaved, LockNeedsTap, AckedPinIsSaved,
        AckedUnlockSticks, Goto, Idle, operation, lockVars,
        historyVars, controlVars
<1>0. /\ Succeed \/ Fail =>
           /\ pc' \in Between /\ goal' = "none"
           /\ task' \notin {"set", "unlock"}
      /\ Fail => acked' \in {acked, NoDisplay}
      /\ Succeed /\ task \notin {"set", "unlock"} => acked' = acked
      /\ Succeed /\ task = "set" => acked' = want
      /\ Succeed /\ task = "unlock" => acked' = Unlocked
  BY TaskEndControl, TaskEndAnswer
<1>1. CASE Crash
  BY <1>1 DEF Crash, ProcessEnds, PartlyWritten
<1>2. CASE Environment /\ ~Crash
  BY <1>2 DEF Environment, ChangeLayout, DockMoves, DockAppears,
    ChangeOrientation, PushEdge, Tick, TapDisabled, TapReenabled,
    CallbackStarts, CallbackClears, Start, Running, Terminate, othersThanMacos
<1>3. CASE Clients
  BY <1>3 DEF Clients, GetState, Request, SetStateRefused, SetStateAccepted,
    UnlockRequest, OnlyControl
<1>4. CASE Boot \/ Loop \/ ReceiveTimeout
  BY <1>4 DEF Boot, BootStatus, BootInfo, ProcessEnds, Loop, ReceiveTimeout,
    OnlyControl
<1>5. CASE Poll
  BY <1>5 DEF Poll, PollDisplays, RetryInfo, ChangedInfo, ChangedStatus,
    Unchanged, HealCheck, EndPoll, RefreshAfterReconcile, OnlyControl
<1>6. CASE Reconcile
  <2>1. AnswerInv'
    BY <1>0, <1>6, PreferredInSnapshot
    DEF Reconcile, IsPreferred, Identified
  <2>2. FileInv'
    BY <1>0, <1>6, PreferredInSnapshot
    DEF Reconcile, IsPreferred, Identified
  <2>3. TargetInv'
    BY <1>0, <1>6, PreferredInSnapshot
    DEF Reconcile, IsPreferred, Identified
  <2> QED
    BY <2>1, <2>2, <2>3
<1>7. CASE Query
  <2>1. AnswerInv'
    BY <1>0, <1>7
    DEF Query, Arrived, OnlyControl
  <2>2. FileInv'
    BY <1>0, <1>7
    DEF Query, Arrived, OnlyControl
  <2>3. TargetInv'
    BY <1>0, <1>7
    DEF Query, Arrived, OnlyControl
  <2> QED
    BY <2>1, <2>2, <2>3
<1>8. CASE Relocate
  <2>1. AnswerInv'
    BY <1>0, <1>8
    DEF Relocate, RelocateMissing, RelocateSideways, RelocateMoves,
      RelocateInterrupted, RelocateTimesOut, Settle, Arrived, Retry, OnlyControl
  <2>2. FileInv'
    BY <1>0, <1>8
    DEF Relocate, RelocateMissing, RelocateSideways, RelocateMoves,
      RelocateInterrupted, RelocateTimesOut, Settle, Arrived, Retry, OnlyControl
  <2>3. TargetInv'
    BY <1>0, <1>8
    DEF Relocate, RelocateMissing, RelocateSideways, RelocateMoves,
      RelocateInterrupted, RelocateTimesOut, Settle, Arrived, Retry, OnlyControl
  <2> QED
    BY <2>1, <2>2, <2>3
<1>9. CASE SetLock \/ SetLockFails
  <2>1. AnswerInv'
    BY <1>0, <1>9
    DEF SetLock, AfterLock, SetLockFails, OnlyControl
  <2>2. FileInv'
    BY <1>0, <1>9
    DEF SetLock, AfterLock, SetLockFails, OnlyControl
  <2>3. TargetInv'
    BY <1>0, <1>9
    DEF SetLock, AfterLock, SetLockFails, OnlyControl
  <2> QED
    BY <2>1, <2>2, <2>3
<1>10. CASE Save
  BY <1>0, <1>10 DEF Save
<1>11. CASE Commit
  <2>1. AnswerInv'
    BY <1>0, <1>11
    DEF Commit
  <2>2. FileInv'
    BY <1>0, <1>11
    DEF Commit
  <2>3. TargetInv'
    BY <1>0, <1>11
    DEF Commit
  <2> QED
    BY <2>1, <2>2, <2>3
<1>12. CASE Forget
  BY <1>0, <1>12 DEF Forget, PartlyWritten
<1>13. CASE Release \/ Join \/ Exit
  BY <1>0, <1>13 DEF Release, Join, Exit, ProcessEnds, OnlyControl
<1>14. CASE UNCHANGED vars
  BY <1>14 DEF vars
<1> QED
  BY <1>1, <1>2, <1>3, <1>4, <1>5, <1>6, <1>7, <1>8, <1>9, <1>10, <1>11,
    <1>12, <1>13, <1>14
  DEF Next, MainThread, Lock

-----------------------------------------------------------------------------
(***************************************************************************)
(* The theorems.                                                           *)
(***************************************************************************)

(***************************************************************************)
(* The invariant holds in every reachable state.                           *)
(***************************************************************************)
THEOREM DaemonInvariant == Spec => []DaemonInv
<1>1. DaemonInv /\ [Next]_vars => DaemonInv'
  <2> SUFFICES ASSUME DaemonInv, [Next]_vars PROVE DaemonInv'
    OBVIOUS
  <2>1. TypeOK /\ ControlInv
    BY DEF DaemonInv
  <2>2. MacosTypeOK' /\ LockTypeOK' /\ SnapshotTypeOK' /\ PollTypeOK'
    BY <2>1, MacosTypeStep, LockTypeStep, SnapshotTypeStep, PollTypeStep
  <2>3. ControlTypeOK' /\ HistoryTypeOK' /\ FlagsTypeOK'
    BY <2>1, ControlTypeStep, HistoryTypeStep, FlagsTypeStep
  <2>4. (saved \in Identities)'
    BY <2>1, SavedTypeStep DEF Identities
  <2>5. ControlInv' /\ PinInv'
    BY <2>1, ControlStep, PinStep
  <2> QED
    BY <2>2, <2>3, <2>4, <2>5 DEF DaemonInv, TypeOK
<1> QED
  BY <1>1, InvInit, PTL DEF Spec

(***************************************************************************)
(* Type correctness: the reported location is an index into the reported   *)
(* list, and no relocation is attempted more often than it may be.         *)
(***************************************************************************)
THEOREM TypeCorrect == Spec => []TypeOK
<1>1. DaemonInv => TypeOK
  BY DEF DaemonInv
<1> QED
  BY <1>1, DaemonInvariant, PTL

(***************************************************************************)
(* A lock never stands without the event tap that enforces it.             *)
(***************************************************************************)
THEOREM LockIsEnforced == Spec => []LockNeedsTap
<1>1. DaemonInv => LockNeedsTap
  BY DEF DaemonInv, PinInv, TargetInv
<1> QED
  BY <1>1, DaemonInvariant, PTL

(***************************************************************************)
(* Between two activities the lock in force is the one a restart would     *)
(* restore, unless a write of the preferences failed.                      *)
(***************************************************************************)
THEOREM LockAgreesWithPreferences == Spec => []LockMatchesPreference
<1>1. DaemonInv => LockMatchesPreference
  BY DEF DaemonInv, PinInv, TargetInv, LockMatchesPreference, AtRest,
    LockMaybeUnsaved, ControlInv, Between
<1> QED
  BY <1>1, DaemonInvariant, PTL

(***************************************************************************)
(* An acknowledged set_state survives crashes, restarts and failures.      *)
(***************************************************************************)
THEOREM AcknowledgedPinIsDurable == Spec => []AckedPinIsSaved
<1>1. DaemonInv => AckedPinIsSaved
  BY DEF DaemonInv, PinInv, AnswerInv
<1> QED
  BY <1>1, DaemonInvariant, PTL

(***************************************************************************)
(* An acknowledged unlock sticks: nothing locks again before a set_state.  *)
(***************************************************************************)
THEOREM AcknowledgedUnlockIsFinal == Spec => []AckedUnlockSticks
<1>1. DaemonInv => AckedUnlockSticks
  BY DEF DaemonInv, PinInv, AnswerInv
<1> QED
  BY <1>1, DaemonInvariant, PTL

(***************************************************************************)
(* When valid identities tell the displays apart, the lock in force is     *)
(* never on a display other than the one last acknowledged, although the   *)
(* code finds the display to lock by comparing identities in a list that   *)
(* may have been reordered. The assumption is needed: with twin displays   *)
(* TLC finds the lock restored on the other one.                           *)
(***************************************************************************)
THEOREM RestoredLockIsTheAcknowledgedOne ==
  ASSUME \A d, e \in Displays :
           Identity[d] = Identity[e] /\ Identity[d] # NoIdentity => d = e
  PROVE  Spec => []RestoredLockIsPinned
<1>1. Init => RestoredLockIsPinned
  BY DEF Init, RestoredLockIsPinned
<1>2. DaemonInv /\ RestoredLockIsPinned /\ [Next]_vars => RestoredLockIsPinned'
  <2> SUFFICES ASSUME DaemonInv, RestoredLockIsPinned, [Next]_vars
               PROVE  RestoredLockIsPinned'
    OBVIOUS
  <2> USE SentinelAssumption
      DEF DaemonInv, ControlInv, Between, PinInv, RestoredLockIsPinned,
          lockVars, historyVars
  <2>0. /\ Fail => acked' \in {acked, NoDisplay}
        /\ Succeed /\ task \notin {"set", "unlock"} => acked' = acked
        /\ Succeed /\ task = "set" => acked' = want
        /\ Succeed /\ task = "unlock" => acked' = Unlocked
    BY TaskEndAnswer
  <2>1. CASE SetLock
    \* A pin under way is not acknowledged; a restore goes by the saved
    \* identity, which is that of the acknowledged display and of no other.
    <3>1. CASE goal = "pin"
      BY <2>1, <3>1 DEF SetLock, AfterLock, Goto, AnswerInv
    <3>2. CASE goal = "restore"
      <4>1. acked' = acked /\ lockTarget' = want
        BY <2>0, <2>1, <3>2 DEF SetLock, AfterLock
      <4>2. acked \in Displays => Identity[acked] = Identity[want]
        BY <3>2 DEF AnswerInv, FileInv, AckedPinIsSaved
      <4> QED
        BY <3>2, <4>1, <4>2 DEF FileInv
    <3> QED
      BY <2>1, <3>1, <3>2 DEF SetLock
  <2>2. CASE Commit
    BY <2>0, <2>2 DEF Commit, TargetInv
  <2>3. CASE Lock /\ ~SetLock /\ ~Commit
    BY <2>0, <2>3 DEF Lock, SetLockFails, Save, Forget, Release, Join, Exit,
      ProcessEnds, Goto, OnlyControl
  <2>4. CASE Environment
    BY <2>4 DEF Environment, ChangeLayout, DockMoves, DockAppears,
      ChangeOrientation, PushEdge, Tick, TapDisabled, TapReenabled,
      CallbackStarts, CallbackClears, Crash, ProcessEnds, Start, Terminate,
      othersThanMacos
  <2>5. CASE Clients
    BY <2>5 DEF Clients, GetState, SetStateRefused, SetStateAccepted,
      UnlockRequest
  <2>6. CASE Boot \/ Loop \/ ReceiveTimeout \/ Poll
    BY <2>6 DEF Boot, BootStatus, BootInfo, ProcessEnds, Loop, ReceiveTimeout,
      Poll, PollDisplays, RetryInfo, ChangedInfo, ChangedStatus, Unchanged,
      HealCheck, RefreshAfterReconcile, OnlyControl
  <2>7. CASE Reconcile
    BY <2>0, <2>7 DEF Reconcile
  <2>8. CASE Query \/ Relocate
    BY <2>0, <2>8 DEF Query, Relocate, RelocateMissing, RelocateSideways,
      RelocateMoves, RelocateInterrupted, RelocateTimesOut, Settle, Arrived,
      Retry, OnlyControl
  <2>9. CASE UNCHANGED vars
    BY <2>9 DEF vars
  <2> QED
    BY <2>1, <2>2, <2>3, <2>4, <2>5, <2>6, <2>7, <2>8, <2>9
    DEF Next, MainThread
<1> QED
  BY <1>1, <1>2, DaemonInvariant, PTL DEF Spec

(***************************************************************************)
(* The poll's branch for a changed list is entered only on the second of   *)
(* two consecutive polls that saw the list. The pending list is always the *)
(* one the last poll saw, which is the invariant.                          *)
(***************************************************************************)
THEOREM ChangesAreDebounced == Spec => []ChangeIsDebounced
<1> DEFINE DebounceInv == pending \subseteq seen /\ ChangeIsDebounced
<1>1. Init => DebounceInv
  BY DEF Init, ChangeIsDebounced
<1>2. DaemonInv /\ DebounceInv /\ [Next]_vars => DebounceInv'
  <2> SUFFICES ASSUME DaemonInv, DebounceInv, [Next]_vars PROVE DebounceInv'
    OBVIOUS
  <2> USE DEF ChangeIsDebounced, pollVars, historyVars, pollHistory, Goto, Idle
  <2>0. Succeed \/ Fail => pc' \in Between \ {"changed_info"}
    BY DEF Succeed, Fail, Answered, Reconciled, ReconcileFailed,
      UnsupportedHandled, EndPoll, Between
  <2>1. CASE PollDisplays
    <3>1. seen \in {{}} \cup {{list} : list \in Layouts}
      BY DEF DaemonInv, TypeOK, HistoryTypeOK
    <3>2. pending' \subseteq {active} /\ seen' = {active}
      BY <2>1 DEF PollDisplays, PendingAfterEqual
    <3>3. pc' = "changed_info" => steady'
      BY <2>1, <3>1 DEF PollDisplays, EndPoll
    <3> QED
      BY <3>2, <3>3
  <2>2. CASE Poll /\ ~PollDisplays
    BY <2>2 DEF Poll, RetryInfo, ChangedInfo, ChangedStatus, Unchanged,
      HealCheck, EndPoll, RefreshAfterReconcile, OnlyControl
  <2>3. CASE Environment
    BY <2>3 DEF Environment, ChangeLayout, DockMoves, DockAppears,
      ChangeOrientation, PushEdge, Tick, TapDisabled, TapReenabled,
      CallbackStarts, CallbackClears, Crash, ProcessEnds, Start, Terminate,
      othersThanMacos, controlVars
  <2>4. CASE Clients
    BY <2>4 DEF Clients, GetState, SetStateRefused, SetStateAccepted,
      UnlockRequest, OnlyControl
  <2>5. CASE Boot \/ Loop \/ ReceiveTimeout
    BY <2>5 DEF Boot, BootStatus, BootInfo, ProcessEnds, Loop, ReceiveTimeout,
      OnlyControl
  <2>6. CASE Reconcile
    BY <2>0, <2>6 DEF Reconcile
  <2>7. CASE Query \/ Relocate
    BY <2>0, <2>7 DEF Query, Relocate, RelocateMissing, RelocateSideways,
      RelocateMoves, RelocateInterrupted, RelocateTimesOut, Settle, Arrived,
      Retry, OnlyControl
  <2>8. CASE Lock
    BY <2>0, <2>8 DEF Lock, SetLock, AfterLock, SetLockFails, Save, Commit,
      Forget, Release, Join, Exit, ProcessEnds, OnlyControl
  <2>9. CASE UNCHANGED vars
    BY <2>9 DEF vars, controlVars
  <2> QED
    BY <2>1, <2>2, <2>3, <2>4, <2>5, <2>6, <2>7, <2>8, <2>9
    DEF Next, MainThread
<1>3. DebounceInv => ChangeIsDebounced
  OBVIOUS
<1> QED
  BY <1>1, <1>2, <1>3, DaemonInvariant, PTL DEF Spec

=============================================================================
