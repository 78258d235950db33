------------------------------ MODULE Service -------------------------------
(***************************************************************************)
(* The background service: `lockdock enable` and `lockdock disable` of     *)
(* lockdock.rs and homebrew.rs, the two jobs they register (the daemon's   *)
(* own LaunchAgent, and the one brew services keeps), and launchd, which   *)
(* starts the jobs and restarts them by different rules: the agent after a *)
(* crash only (KeepAlive::Crashed), brew's always (keep_alive true in the  *)
(* formula of release.yml). One command runs at a time.                    *)
(***************************************************************************)
EXTENDS Integers

CONSTANT MaxFaults   \* bound: failures, crashes, SIGTERMs, logins and installations

ASSUME FaultsAssumption == MaxFaults \in Nat

VARIABLES
  program,   \* the lockdock the user runs: "cellar" of brew, or "standalone"
  job,       \* launchd: the state of each job, "absent" when not registered
  cli,       \* the next step of the command under way
  action,    \* what it asks for, "start" or "stop"
  answer,    \* what the last command answered
  faults     \* bound: faults still to come

serviceVars == <<program, job, cli, action, answer, faults>>

Jobs == {"agent", "brew"}
JobStates == {"absent", "starting", "running", "crashed", "exited"}

Registered(j) == job[j] # "absent"
Running == {j \in Jobs : job[j] = "running"}

ServiceInit ==
  /\ program \in {"cellar", "standalone"}
  /\ job \in [Jobs -> {"absent", "starting"}]
  /\ cli = "idle" /\ action = "start" /\ answer = "none"
  /\ faults = MaxFaults

Fault == faults > 0 /\ faults' = faults - 1
NoFault == UNCHANGED faults

-----------------------------------------------------------------------------
(***************************************************************************)
(* The commands.                                                           *)
(***************************************************************************)
Answer(text) == cli' = "idle" /\ answer' = text
Done == Answer(IF action = "start" THEN "enabled" ELSE "disabled")

\* homebrew_service: a program in a Cellar leaves the service to brew.
BuggyCommand ==
  /\ cli = "idle"
  /\ action' \in {"start", "stop"}
  /\ cli' = IF program = "cellar" /\ ~Registered("agent") THEN "legacy"
            ELSE "agent"
  /\ answer' = "none"
  /\ NoFault /\ UNCHANGED <<program, job>>

Command ==
  /\ cli = "idle"
  /\ action' \in {"start", "stop"}
  /\ cli' = IF program = "cellar" THEN "legacy" ELSE "agent"
  /\ answer' = "none"
  /\ NoFault /\ UNCHANGED <<program, job>>

\* An agent registered by an older version is uninstalled first.
BuggyUninstallLegacy ==
  /\ cli = "legacy"
  /\ cli' = "brew"
  /\ NoFault /\ UNCHANGED <<program, job, action, answer>>

UninstallLegacy ==
  /\ cli = "legacy"
  /\ job' = [job EXCEPT !["agent"] = "absent"]
  /\ cli' = "brew"
  /\ NoFault /\ UNCHANGED <<program, action, answer>>

\* brew services start or stop; starting a service twice is not an error.
BrewService ==
  /\ cli = "brew"
  /\ job' = [job EXCEPT !["brew"] =
               CASE action = "stop" -> "absent"
                 [] action = "start" /\ Registered("brew") -> @
                 [] OTHER -> "starting"]
  /\ Done
  /\ NoFault /\ UNCHANGED <<program, action>>

\* A standalone program registers or removes the agent itself.
InstallAgent ==
  /\ cli = "agent" /\ action = "start"
  /\ IF Registered("agent")
     THEN Answer("already enabled") /\ UNCHANGED job
     ELSE Done /\ job' = [job EXCEPT !["agent"] = "starting"]
  /\ NoFault /\ UNCHANGED <<program, action>>

UninstallAgent ==
  /\ cli = "agent" /\ action = "stop"
  /\ IF Registered("agent")
     THEN Done /\ job' = [job EXCEPT !["agent"] = "absent"]
     ELSE Answer("not enabled") /\ UNCHANGED job
  /\ NoFault /\ UNCHANGED <<program, action>>

\* install(), uninstall() or brew fails, and its error is the answer; the
\* steps before it are not taken back.
CommandFails ==
  /\ \/ cli = "legacy" /\ Registered("agent")
     \/ cli = "brew"
     \/ cli = "agent" /\ (action = "start" <=> ~Registered("agent"))
  /\ Fault
  /\ Answer("failed")
  /\ UNCHANGED <<program, job, action>>

-----------------------------------------------------------------------------
(***************************************************************************)
(* The system.                                                             *)
(***************************************************************************)
\* The daemon starts: it exits with an error when another holds the socket
\* or when the displays cannot be read (daemon.rs:69-71).
Boot(j) ==
  /\ job[j] = "starting" /\ Running = {}
  /\ job' = [job EXCEPT ![j] = "running"]
  /\ UNCHANGED <<program, cli, action, answer>>

BootFails(j) ==
  /\ job[j] = "starting"
  /\ IF Running # {} THEN NoFault ELSE Fault
  /\ job' = [job EXCEPT ![j] = "exited"]
  /\ UNCHANGED <<program, cli, action, answer>>

Crash(j) ==
  /\ job[j] = "running"
  /\ Fault
  /\ job' = [job EXCEPT ![j] = "crashed"]
  /\ UNCHANGED <<program, cli, action, answer>>

\* SIGTERM from somebody else than launchd: run() returns, and the exit is no
\* crash.
Terminate(j) ==
  /\ job[j] = "running"
  /\ Fault
  /\ job' = [job EXCEPT ![j] = "exited"]
  /\ UNCHANGED <<program, cli, action, answer>>

\* launchd restarts the job of brew after any exit, the agent after a crash.
BuggyRestart(j) ==
  /\ job[j] \in IF j = "brew" THEN {"crashed", "exited"} ELSE {}
  /\ job' = [job EXCEPT ![j] = "starting"]
  /\ NoFault /\ UNCHANGED <<program, cli, action, answer>>

Restart(j) ==
  /\ job[j] \in IF j = "brew" THEN {"crashed", "exited"} ELSE {"crashed"}
  /\ job' = [job EXCEPT ![j] = "starting"]
  /\ NoFault /\ UNCHANGED <<program, cli, action, answer>>

\* The user logs out and in again: every job is started anew (run_at_load).
Login ==
  /\ Fault
  /\ cli = "idle"
  /\ job' = [j \in Jobs |-> IF Registered(j) THEN "starting" ELSE "absent"]
  /\ UNCHANGED <<program, cli, action, answer>>

\* The user installs the other program; what it registered stays.
Reinstall ==
  /\ Fault
  /\ cli = "idle"
  /\ program' = IF program = "cellar" THEN "standalone" ELSE "cellar"
  /\ answer' = "none"
  /\ UNCHANGED <<job, cli, action>>
=============================================================================
