-------------------------- MODULE SocketOwnership ---------------------------
(***************************************************************************)
(* Who serves the control socket: Server::bind and its Drop (server.rs).   *)
(* Several daemons may be started on one path, by launchd and by hand;     *)
(* any may crash between two system calls, which frees its lock and leaves *)
(* its socket behind. Other programs may put a file at the path, listen    *)
(* there without taking the lock, or remove what is there.                 *)
(*                                                                         *)
(* Each system call is one step. A bind that finds the lock taken returns  *)
(* SocketInUse and changes nothing, so it is no step.                      *)
(***************************************************************************)
EXTENDS Integers

CONSTANTS
  Daemons,      \* the processes that may run lockdock-daemon
  NULL,         \* no daemon
  MaxCrashes,   \* bound: crashes of daemons
  MaxRemovals   \* bound: removals of the path by another program

Occupants == {"absent", "file", "stale", "foreign"}

ASSUME DaemonsAssumption == NULL \notin Daemons /\ Daemons \cap Occupants = {}
ASSUME BoundsAssumption == MaxCrashes \in Nat /\ MaxRemovals \in Nat

VARIABLES
  pc,        \* where each daemon is
  lock,      \* the daemon that holds the lock on <path>.lock, or NULL
  path,      \* what is at the path: an Occupant or the socket of a daemon
  crashes,   \* bound: the crashes so far
  removals   \* bound: the removals so far

vars == <<pc, lock, path, crashes, removals>>
bounds == <<crashes, removals>>

Init ==
  /\ pc = [d \in Daemons |-> "down"]
  /\ lock = NULL
  /\ path \in {"absent", "file", "stale"}
  /\ crashes = 0 /\ removals = 0

Goto(d, where) == pc' = [pc EXCEPT ![d] = where]

BuggyFail(d) == Goto(d, "down") /\ UNCHANGED <<lock, path>>

\* bind() returns an error: the lock file it holds is closed.
Fail(d) == Goto(d, "down") /\ lock' = NULL /\ path' = path

Proceed(d, where) == Goto(d, where) /\ UNCHANGED <<lock, path>>

BuggyLockSocket(d) ==
  /\ pc[d] = "down"
  /\ lock' = d
  /\ Goto(d, "locked")
  /\ UNCHANGED <<path, bounds>>

LockSocket(d) ==
  /\ pc[d] = "down"
  /\ lock = NULL
  /\ lock' = d
  /\ Goto(d, "locked")
  /\ UNCHANGED <<path, bounds>>

\* symlink_metadata: nothing there, something that is no socket, a socket.
Inspect(d) ==
  /\ pc[d] = "locked"
  /\ \/ path = "absent" /\ Proceed(d, "binding")
     \/ path = "file" /\ Fail(d)
     \/ path \notin {"absent", "file"} /\ Proceed(d, "probing")
  /\ UNCHANGED bounds

BuggyProbe(d) ==
  /\ pc[d] = "probing"
  /\ \/ path = "absent" /\ Proceed(d, "binding")
     \/ path # "absent" /\ Proceed(d, "removing")
  /\ UNCHANGED bounds

\* connect: refused by a stale socket, accepted by a live one.
Probe(d) ==
  /\ pc[d] = "probing"
  /\ \/ path = "absent" /\ Proceed(d, "binding")
     \/ path = "stale" /\ Proceed(d, "removing")
     \/ path \notin {"absent", "stale"} /\ Fail(d)
  /\ UNCHANGED bounds

BuggyRemove(d) ==
  /\ pc[d] = "removing"
  /\ Proceed(d, "binding")
  /\ UNCHANGED bounds

\* remove_file takes whatever is at the path by now.
Remove(d) ==
  /\ pc[d] = "removing"
  /\ \/ path = "absent" /\ Fail(d)
     \/ path # "absent" /\ path' = "absent" /\ Goto(d, "binding") /\ lock' = lock
  /\ UNCHANGED bounds

BuggyBind(d) ==
  /\ pc[d] = "binding"
  /\ path' = (IF path = "absent" THEN d ELSE path)
  /\ Goto(d, "serving") /\ lock' = lock
  /\ UNCHANGED bounds

Bind(d) ==
  /\ pc[d] = "binding"
  /\ \/ path = "absent" /\ path' = d /\ Goto(d, "serving") /\ lock' = lock
     \/ path # "absent" /\ Fail(d)
  /\ UNCHANGED bounds

\* Server::drop removes the path first; its fields, the listener and the
\* lock, are dropped after it. A bound daemon may also fail to start.
Unlink(d) ==
  /\ pc[d] = "serving"
  /\ path' = "absent"
  /\ Goto(d, "closing")
  /\ UNCHANGED <<lock, bounds>>

Close(d) ==
  /\ pc[d] = "closing"
  /\ Fail(d)
  /\ UNCHANGED bounds

Crash(d) ==
  /\ pc[d] # "down" /\ crashes < MaxCrashes
  /\ Goto(d, "down")
  /\ lock' = NULL
  /\ path' = (IF path = d THEN "stale" ELSE path)
  /\ crashes' = crashes + 1
  /\ UNCHANGED removals

WriteFile ==
  /\ path = "absent" /\ path' = "file"
  /\ UNCHANGED <<pc, lock, bounds>>

ForeignListens ==
  /\ path = "absent" /\ path' = "foreign"
  /\ UNCHANGED <<pc, lock, bounds>>

ForeignEnds ==
  /\ path = "foreign" /\ path' = "stale"
  /\ UNCHANGED <<pc, lock, bounds>>

RemovePath ==
  /\ path # "absent" /\ path' = "absent"
  /\ removals < MaxRemovals /\ removals' = removals + 1
  /\ UNCHANGED <<pc, lock, crashes>>

-----------------------------------------------------------------------------
Starting(d) == Inspect(d) \/ Probe(d) \/ Remove(d) \/ Bind(d)

Daemon(d) == LockSocket(d) \/ Starting(d) \/ Unlink(d) \/ Close(d)

Others == WriteFile \/ ForeignListens \/ ForeignEnds \/ RemovePath

Next == (\E d \in Daemons : Daemon(d) \/ Crash(d)) \/ Others

Spec == Init /\ [][Next]_vars

(***************************************************************************)
(* A daemon that has begun to bind or to drop its server goes on, for none *)
(* of its system calls waits; launchd or the user starts a daemon again    *)
(* and again, and one that finds the lock taken ends and may be started    *)
(* once more (strong fairness). No daemon has to end.                      *)
(***************************************************************************)
Fairness == \A d \in Daemons : WF_vars(Starting(d) \/ Close(d)) /\ SF_vars(LockSocket(d))

FairSpec == Spec /\ Fairness

-----------------------------------------------------------------------------
(* Properties.                                                             *)

\* Every variable is in its range, and the lock is held by a daemon that is
\* up: an error path that kept it would keep every later daemon out
\* (server.rs:34-38).
TypeOK ==
  /\ pc \in [Daemons -> {"down", "locked", "probing", "removing", "binding",
                         "serving", "closing"}]
  /\ lock \in Daemons \cup {NULL}
  /\ lock # NULL => pc[lock] # "down"
  /\ path \in Daemons \cup Occupants
  /\ crashes \in 0 .. MaxCrashes
  /\ removals \in 0 .. MaxRemovals

\* Whoever inspects, removes, binds or unlinks the path holds the lock, so no
\* two daemons work on it or serve it at once (server.rs:34, :96-100).
OneAtWork == \A d \in Daemons : pc[d] # "down" => lock = d

\* The socket at the path is that of the daemon that serves, and clients reach
\* it, unless another program removed the path (server.rs:35-37).
ServingIsReachable ==
  \A d \in Daemons : /\ path = d => pc[d] = "serving"
                     /\ pc[d] = "serving" /\ removals = 0 => path = d

\* A live socket is never removed under its listener: a daemon's goes only
\* when it stops serving itself, another program's not at all, unless
\* someone interferes between the probe and the removal (server.rs:85-90;
\* test rejects_second_server_for_live_socket, server.rs:146).
LiveSocketIsKept ==
  [][ /\ \A d \in Daemons : path = d /\ path' # d =>
                              pc'[d] # "serving" \/ removals' # removals
      /\ path = "foreign" /\ removals' = 0 => path' \in {"foreign", "stale"} ]_vars

\* A file that is no socket stays where it is, whether it was there before or
\* is written while a daemon binds, if nobody removes the path in between
\* (server.rs:81-83, :98; test preserves_non_socket_path, server.rs:175).
FileIsKept == [][path = "file" /\ removals' = 0 => path' = "file"]_vars

\* A socket that a crashed daemon left behind does not keep the next ones out
\* for ever (server.rs:87-90; test replaces_stale_socket, server.rs:159). One
\* left in the place of a socket that was removed waits until that daemon ends.
StaleSocketIsReplaced ==
  (path = "stale" /\ \A d \in Daemons : pc[d] # "serving") ~> path # "stale"
=============================================================================
