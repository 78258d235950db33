-------------------------- MODULE DaemonProperties --------------------------
(***************************************************************************)
(* What the daemon must and must not do. The invariants are safety         *)
(* properties of Spec; the temporal formulas need FairSpec.                *)
(***************************************************************************)
EXTENDS Daemon

(***************************************************************************)
(* Type correctness: every variable of the daemon stays in its range, the  *)
(* reported location is an index into the reported list, and a relocation  *)
(* makes at most RelocationAttempts attempts.                              *)
(***************************************************************************)
MacosTypeOK ==
  /\ active \in Layouts
  /\ dock \in Elements(active) \cup {NoDisplay}
  /\ orientation \in {"bottom", "side"}

LockTypeOK ==
  /\ lockTarget \in MaybeDisplay
  /\ cache \subseteq Displays
  /\ callback \in {"idle", "clearing", "disabled"}

SnapshotTypeOK ==
  /\ displays \in Layouts \cup {<<>>}
  /\ location \in DOMAIN displays \cup {0}
  /\ info \subseteq Displays

PollTypeOK ==
  /\ pending \in {{}} \cup {{list} : list \in Layouts}
  /\ infoRetry \in (-1)..InfoRetry
  /\ cooldown \in 0..RetryCooldown
  /\ nextPoll \in 0..PollInterval

ControlTypeOK ==
  /\ pc \in Steps /\ task \in Tasks /\ goal \in Goals
  /\ want \in MaybeDisplay
  /\ attempt \in 0..RelocationAttempts

HistoryTypeOK ==
  /\ disturbances \in 0..MaxDisturbances
  /\ requests \in 0..MaxRequests
  /\ acked \in MaybeDisplay \cup {Unlocked}
  /\ seen \in {{}} \cup {{list} : list \in Layouts}

FlagsTypeOK ==
  /\ dockSupported \in BOOLEAN /\ tap \in BOOLEAN /\ shutdown \in BOOLEAN
  /\ writeFailed \in BOOLEAN /\ steady \in BOOLEAN

TypeOK ==
  /\ MacosTypeOK /\ LockTypeOK /\ SnapshotTypeOK
  /\ PollTypeOK /\ ControlTypeOK /\ HistoryTypeOK /\ FlagsTypeOK
  /\ saved \in Identities

(***************************************************************************)
(* A lock never stands without the event tap that enforces it: LOCK_TARGET *)
(* is stored after the tap has started and cleared before the tap stops,   *)
(* whatever the callback stores meanwhile.                                 *)
(***************************************************************************)
LockNeedsTap == lockTarget # NoDisplay => tap

(***************************************************************************)
(* Between two activities of the main thread the lock in force, if any, is *)
(* the one the preferences would restore after a restart, unless a write   *)
(* of the preferences failed (the error is reported, the lock is not taken *)
(* back).                                                                  *)
(***************************************************************************)
LockMatchesPreference ==
  AtRest /\ lockTarget # NoDisplay /\ ~writeFailed
     => saved = Identity[lockTarget]

(***************************************************************************)
(* A set_state that was answered with success is durable: until the next   *)
(* command, or until the Dock leaves the bottom edge, the preferences name *)
(* that display, through crashes, restarts and failed reconciles.          *)
(***************************************************************************)
AckedPinIsSaved == acked \in Displays => saved = Identity[acked]

(***************************************************************************)
(* An unlock that was answered with success sticks: no poll, heal, display *)
(* change or restart brings a lock or a preference back before the next    *)
(* set_state.                                                              *)
(***************************************************************************)
AckedUnlockSticks ==
  acked = Unlocked => saved = NoIdentity /\ lockTarget = NoDisplay

(***************************************************************************)
(* Whatever is restored after a disconnection, a reordering of the list or *)
(* a restart is the pin the client was told of: the lock in force is never *)
(* on a display other than the one last acknowledged. It needs identities  *)
(* that tell the displays apart.                                           *)
(***************************************************************************)
RestoredLockIsPinned ==
  acked \in Displays /\ lockTarget # NoDisplay => lockTarget = acked

(***************************************************************************)
(* "A changed display list is acted upon only after it is observed on two  *)
(* consecutive polls" (daemon.rs, PollState): the branch for a changed     *)
(* list is entered only when the last two polls saw that list, even when   *)
(* the old list was seen again in between.                                 *)
(***************************************************************************)
ChangeIsDebounced == pc = "changed_info" => steady

(***************************************************************************)
(* The same promise of the whole poll: no poll moves the Dock over a list  *)
(* that the poll before it did not see. refresh_status() takes in a list   *)
(* no poll has seen, and the next poll heals with it at once.              *)
(***************************************************************************)
PollRelocatesDebounced ==
  pc = "relocate" /\ Relocatable /\ task \in {"changed", "heal"} => steady

(***************************************************************************)
(* "How long to wait after a failed reconcile before the poll loop tries   *)
(* to move the Dock again" (daemon.rs, RECONCILE_RETRY_COOLDOWN): the poll *)
(* loop moves no Dock before the cooldown has passed.                      *)
(***************************************************************************)
PollRelocatesAfterCooldown ==
  pc = "relocate" /\ Relocatable /\ task \in {"changed", "heal"}
     => cooldown = 0

-----------------------------------------------------------------------------
\* The environment has come to rest with the daemon up and the Dock found.
Quiet == Running /\ ~shutdown /\ dock # NoDisplay

(***************************************************************************)
(* While the Dock stays at a side of the screen the daemon lets it go:     *)
(* eventually neither a lock nor a preference remains (reconcile runs      *)
(* apply_unlock whenever the orientation is not supported).                *)
(***************************************************************************)
SidewaysDockIsUnlocked ==
  <>[](Quiet /\ orientation = "side")
     => <>[](lockTarget = NoDisplay /\ saved = NoIdentity)

(***************************************************************************)
(* "If the pinned display is disconnected, target disappears because the   *)
(* active lock is removed" (ipc_v1.md): eventually no lock names a display *)
(* that stays disconnected, even when refresh_status has hidden the change *)
(* of the list from the polls.                                             *)
(***************************************************************************)
GoneDisplayIsReleased ==
  \A d \in Displays :
    <>[](Quiet /\ d \notin Elements(active)) => <>[](lockTarget # d)

(***************************************************************************)
(* When the environment is quiet and the snapshot has a display of the     *)
(* saved identity, the lock is eventually set and the Dock stays on the    *)
(* locked display, however often relocations failed, the Dock was moved or *)
(* the daemon crashed before, and however often the user pushes at the     *)
(* edges of the other displays. A tap that macOS disabled does not let     *)
(* those pushes through for ever.                                          *)
(***************************************************************************)
PinIsRestored ==
  <>[](Quiet /\ orientation = "bottom" /\ Preferred # {})
     => <>[](lockTarget # NoDisplay /\ dock = lockTarget)

(***************************************************************************)
(* "When the same physical display is connected again, lockdock moves the  *)
(* Dock back to it and target appears again automatically" (ipc_v1.md):    *)
(* here the display only has to be connected, not known to the snapshot.   *)
(***************************************************************************)
ReconnectedPinIsRestored ==
  <>[](/\ Quiet /\ orientation = "bottom"
       /\ \E d \in Elements(active) : Identity[d] = saved /\ saved # NoIdentity)
     => <>[](lockTarget # NoDisplay)

(***************************************************************************)
(* Clients that ask all the time (get_state has no bound) do not keep the  *)
(* daemon from polling: next_poll is absolute, it is not moved by requests.*)
(***************************************************************************)
PollsRecur == <>[](Running /\ ~shutdown) => []<>(pc = "poll")

(***************************************************************************)
(* A termination signal is honoured: whatever is under way, and however    *)
(* many requests wait, the main thread stops (or the process crashes).     *)
(***************************************************************************)
TerminationIsHonoured == shutdown ~> ~Running

=============================================================================
