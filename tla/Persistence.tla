---------------------------- MODULE Persistence -----------------------------
(***************************************************************************)
(* The pin across the lives of the daemon: the preferences file, the       *)
(* service that starts the daemons, and the daemon that runs, which loads  *)
(* the file when it boots and writes it when a command is carried out. It  *)
(* may crash between any two writes.                                       *)
(***************************************************************************)
EXTENDS Preferences, Service

VARIABLES
  pinned,    \* the identity the running daemon holds the Dock to
  acked      \* history: the identity a write completed with, {} when the
             \* last write did not complete, or there was none

vars == <<preferenceVars, serviceVars, pinned, acked>>

Init ==
  /\ PreferencesInit
  /\ ServiceInit
  /\ pinned = NoIdentity
  /\ acked = {}

\* A request is carried out by the running daemon: set_state has the lock on
\* when it begins to save, unlock releases it after it has cleared.
Request ==
  /\ Running # {}
  /\ \/ \E identity \in Identities : Save(identity) /\ pinned' = identity
     \/ Clear /\ UNCHANGED pinned
  /\ acked' = {}
  /\ UNCHANGED serviceVars

DaemonWrites ==
  /\ WriteKey
  /\ IF Len(todo) = 1 THEN pinned' = goal /\ acked' = {goal}
                      ELSE UNCHANGED <<pinned, acked>>
  /\ UNCHANGED serviceVars

WriteFails ==
  /\ Fault
  /\ BreakOff
  /\ UNCHANGED <<program, job, cli, action, answer, pinned, acked>>

\* Commands that unload a job let its daemon end what it is doing.
ServiceCommand ==
  /\ todo = <<>>
  /\ \/ Command
     \/ UninstallLegacy
     \/ BrewService
     \/ InstallAgent
     \/ UninstallAgent
     \/ CommandFails
     \/ Reinstall
  /\ pinned' = IF Running' = {} THEN NoIdentity ELSE pinned
  /\ UNCHANGED <<preferenceVars, acked>>

DaemonStays ==
  /\ \E j \in Jobs : BootFails(j) \/ Restart(j)
  /\ UNCHANGED <<preferenceVars, pinned, acked>>

\* Preferences that cannot be read leave the daemon running without a lock.
DaemonBoots ==
  /\ \E j \in Jobs : Boot(j)
  /\ \/ NoFault /\ pinned' = Load
     \/ Fault /\ pinned' = NoIdentity
  /\ UNCHANGED <<preferenceVars, acked>>

\* A later poll reads them again.
DaemonHeals ==
  /\ Running # {} /\ todo = <<>>
  /\ pinned = NoIdentity /\ Load # NoIdentity
  /\ pinned' = Load
  /\ UNCHANGED <<preferenceVars, serviceVars, acked>>

\* A daemon that is told to stop ends between two requests.
DaemonEnds ==
  /\ todo = <<>>
  /\ \E j \in Jobs : Terminate(j)
  /\ pinned' = NoIdentity
  /\ UNCHANGED <<preferenceVars, acked>>

\* A crash or the end of the session takes the daemon wherever it is.
DaemonDies ==
  /\ (\E j \in Jobs : Crash(j)) \/ Login
  /\ pinned' = NoIdentity
  /\ IF todo = <<>> THEN UNCHANGED preferenceVars ELSE BreakOff
  /\ UNCHANGED acked

Next ==
  \/ Request
  \/ DaemonWrites
  \/ WriteFails
  \/ ServiceCommand
  \/ DaemonStays
  \/ DaemonBoots
  \/ DaemonHeals
  \/ DaemonEnds
  \/ DaemonDies

\* launchd gets round to every job it has to start, a daemon under way goes on,
\* and preferences that could not be read can be in the end. Nobody is bound
\* to make requests, run commands or log in.
Fairness ==
  /\ WF_vars(DaemonWrites)
  /\ WF_vars(DaemonBoots)
  /\ WF_vars(DaemonHeals)
  /\ \A j \in Jobs :
       WF_vars(Restart(j) /\ UNCHANGED <<preferenceVars, pinned, acked>>)

Spec == Init /\ [][Next]_vars
FairSpec == Spec /\ Fairness

-----------------------------------------------------------------------------
(***************************************************************************)
(* Properties.                                                             *)
(***************************************************************************)
Values == Int \cup {Missing}
MaybeIdentities == [Fields -> Nat]

\* Every variable has a value of its type, and a command under way is one the
\* user's program can be at (lockdock.rs:74-103).
TypeOK ==
  /\ store \in [Keys -> Values]
  /\ \A i \in DOMAIN todo : todo[i].key \in Keys /\ todo[i].value \in Values
  /\ Len(todo) <= 5
  /\ {before, goal, pinned} \cup acked \subseteq MaybeIdentities
  /\ job \in [Jobs -> JobStates]
  /\ cli \in IF program = "cellar" THEN {"idle", "legacy", "brew"}
             ELSE {"idle", "agent"}
  /\ action \in {"start", "stop"}
  /\ answer \in {"none", "enabled", "disabled", "already enabled",
                 "not enabled", "failed"}
  /\ faults \in 0 .. MaxFaults

\* The five keys behave as the one preference PreferenceContract describes:
\* what load() makes of them changes only by a save or clear, one that ends
\* well leaves just that identity whatever the file held before (values out
\* of range, the key of an older daemon, the remains of other writes), and
\* one that does not mixes at most the old and the new (preferences.rs:24-62).
Contract == INSTANCE PreferenceContract WITH
  Saveable <- Identities \cup {NoIdentity},
  NoWrite <- Missing,
  saved <- IF todo = <<>> THEN Load ELSE before,
  pending <- IF todo = <<>> THEN Missing ELSE goal
KeepsContract == Contract!Spec

\* A command that reports success has brought the service to the one state it
\* names, whatever was registered before: with brew's program the service is
\* brew's alone, an agent of an older version is gone, and after a disable
\* nothing is left to start a daemon (lockdock.rs:73-103, :139-152;
\* README.md:43).
AnswersAreTrue ==
  /\ answer = "enabled" /\ program = "cellar"
       => Registered("brew") /\ ~Registered("agent")
  /\ answer = "disabled" /\ program = "cellar"
       => \A j \in Jobs : ~Registered(j)
  /\ answer \in {"enabled", "already enabled"} /\ program = "standalone"
       => Registered("agent")
  /\ answer \in {"disabled", "not enabled"} /\ program = "standalone"
       => ~Registered("agent")

\* The agent is the only job there is, and its daemon ended with an error at
\* boot, or at a SIGTERM: KeepAlive::Crashed leaves it at that until the next
\* login.
GivenUp == job["agent"] = "exited" /\ ~Registered("brew")

\* An acknowledged pin is held again by a later daemon, however often daemons
\* crash and by whichever job they are started, until another request comes;
\* unless the service is disabled, or the agent's daemon failed to boot or was
\* told to stop (lockdock.rs:91, daemon.rs:69-76, :104-125, preferences.rs:35;
\* CHANGELOG.md:162, "Add lock persistence"). Preferences that cannot be read
\* for a while only delay it (controller.rs:129, :137).
PinComesBack ==
  \A identity \in Identities :
    acked = {identity}
      ~> \/ Running # {} /\ pinned = identity
         \/ acked # {identity}
         \/ \A j \in Jobs : ~Registered(j)
         \/ GivenUp
=============================================================================
