----------------------- MODULE SocketOwnershipProofs ------------------------
(***************************************************************************)
(* Proofs about the control socket, for any number of daemons, crashes and *)
(* removals. The lock makes what one daemon found out about the path true  *)
(* until it acts on it, which is what PathInv adds to the properties.      *)
(***************************************************************************)
EXTENDS SocketOwnership, TLAPS

\* Without removals nothing takes a stale socket away from the daemon that is
\* about to remove it.
PathInv ==
  \A d \in Daemons : pc[d] = "removing" /\ removals = 0 => path = "stale"

SocketInv == TypeOK /\ OneAtWork /\ ServingIsReachable /\ PathInv

\* Before the first start nobody holds the lock.
LEMMA SocketInvInit == Init => SocketInv
<1> SUFFICES ASSUME Init PROVE SocketInv
  OBVIOUS
<1> USE DaemonsAssumption, BoundsAssumption DEF Init, Occupants
<1>1. TypeOK
  BY DEF TypeOK
<1>2. OneAtWork /\ ServingIsReachable /\ PathInv
  BY DEF OneAtWork, ServingIsReachable, PathInv
<1>3. QED
  BY <1>1, <1>2 DEF SocketInv

\* A daemon's steps. The other daemons are down, for they do not hold the lock.
LEMMA DaemonStep ==
  ASSUME SocketInv, NEW d \in Daemons, Daemon(d) \/ Crash(d)
  PROVE  SocketInv'
<1> USE DaemonsAssumption, BoundsAssumption
    DEF SocketInv, Occupants, bounds, Goto, Fail, Proceed
<1>1. CASE LockSocket(d)
  BY <1>1 DEF LockSocket, TypeOK, OneAtWork, ServingIsReachable, PathInv
<1>2. CASE Inspect(d)
  BY <1>2 DEF Inspect, TypeOK, OneAtWork, ServingIsReachable, PathInv
<1>3. CASE Probe(d)
  BY <1>3 DEF Probe, TypeOK, OneAtWork, ServingIsReachable, PathInv
<1>4. CASE Remove(d)
  BY <1>4 DEF Remove, TypeOK, OneAtWork, ServingIsReachable, PathInv
<1>5. CASE Bind(d)
  BY <1>5 DEF Bind, TypeOK, OneAtWork, ServingIsReachable, PathInv
<1>6. CASE Unlink(d)
  BY <1>6 DEF Unlink, TypeOK, OneAtWork, ServingIsReachable, PathInv
<1>7. CASE Close(d)
  BY <1>7 DEF Close, TypeOK, OneAtWork, ServingIsReachable, PathInv
<1>8. CASE Crash(d)
  BY <1>8 DEF Crash, TypeOK, OneAtWork, ServingIsReachable, PathInv
<1>9. QED
  BY <1>1, <1>2, <1>3, <1>4, <1>5, <1>6, <1>7, <1>8 DEF Daemon, Starting

\* What other programs do at the path.
LEMMA OthersStep ==
  ASSUME SocketInv, Others
  PROVE  SocketInv'
<1> USE DaemonsAssumption, BoundsAssumption DEF SocketInv, Occupants, bounds
<1>1. CASE WriteFile
  BY <1>1 DEF WriteFile, TypeOK, OneAtWork, ServingIsReachable, PathInv
<1>2. CASE ForeignListens
  BY <1>2 DEF ForeignListens, TypeOK, OneAtWork, ServingIsReachable, PathInv
<1>3. CASE ForeignEnds
  BY <1>3 DEF ForeignEnds, TypeOK, OneAtWork, ServingIsReachable, PathInv
<1>4. CASE RemovePath
  BY <1>4 DEF RemovePath, TypeOK, OneAtWork, ServingIsReachable, PathInv
<1>5. QED
  BY <1>1, <1>2, <1>3, <1>4 DEF Others

\* Every step of a daemon, a crash or another program keeps the invariant.
LEMMA SocketInvStep == SocketInv /\ [Next]_vars => SocketInv'
<1>1. CASE Next
  BY <1>1, DaemonStep, OthersStep DEF Next
<1>2. CASE UNCHANGED vars
  BY <1>2 DEF vars, SocketInv, TypeOK, OneAtWork, ServingIsReachable, PathInv
<1>3. QED
  BY <1>1, <1>2

\* The lock ties together who is at work and what is at the path.
THEOREM SocketInvariant == Spec => []SocketInv
<1>1. QED
  BY SocketInvInit, SocketInvStep, PTL DEF Spec

\* Every variable stays in its range and no dead daemon holds the lock.
THEOREM SocketTypeCorrect == Spec => []TypeOK
<1>1. SocketInv => TypeOK
  BY DEF SocketInv
<1>2. QED
  BY <1>1, SocketInvariant, PTL

\* Never are two daemons at work on the path, however they crash.
THEOREM OneDaemonAtWork == Spec => []OneAtWork
<1>1. SocketInv => OneAtWork
  BY DEF SocketInv
<1>2. QED
  BY <1>1, SocketInvariant, PTL

\* The socket at the path is the serving daemon's, unless it was removed.
THEOREM ServerIsReachable == Spec => []ServingIsReachable
<1>1. SocketInv => ServingIsReachable
  BY DEF SocketInv
<1>2. QED
  BY <1>1, SocketInvariant, PTL

\* Nobody's live socket is taken away by a daemon that starts or ends.
THEOREM LiveSocketStays == Spec => LiveSocketIsKept
<1> DEFINE Kept ==
      /\ \A d \in Daemons : path = d /\ path' # d =>
                              pc'[d] # "serving" \/ removals' # removals
      /\ path = "foreign" /\ removals' = 0 => path' \in {"foreign", "stale"}
<1>1. ASSUME SocketInv, NEW d \in Daemons, Daemon(d) \/ Crash(d) PROVE Kept
  <2> USE <1>1, DaemonsAssumption DEF SocketInv, Occupants, bounds, Goto, Fail, Proceed
  <2>1. CASE LockSocket(d)
    BY <2>1 DEF LockSocket
  <2>2. CASE Inspect(d) \/ Probe(d) \/ Close(d)
    BY <2>2 DEF Inspect, Probe, Close
  <2>3. CASE Remove(d)
    BY <2>3 DEF Remove, TypeOK, OneAtWork, ServingIsReachable, PathInv
  <2>4. CASE Bind(d)
    BY <2>4 DEF Bind
  <2>5. CASE Unlink(d)
    BY <2>5 DEF Unlink, TypeOK, OneAtWork, ServingIsReachable
  <2>6. CASE Crash(d)
    BY <2>6 DEF Crash, TypeOK, OneAtWork, ServingIsReachable
  <2>7. QED
    BY <2>1, <2>2, <2>3, <2>4, <2>5, <2>6 DEF Daemon, Starting
<1>2. ASSUME SocketInv, Others PROVE Kept
  BY <1>2, DaemonsAssumption
     DEF SocketInv, TypeOK, Others, WriteFile, ForeignListens, ForeignEnds, RemovePath,
         bounds, Occupants
<1>3. SocketInv /\ [Next]_vars => [Kept]_vars
  BY <1>1, <1>2 DEF Next
<1>4. QED
  BY <1>3, SocketInvariant, PTL DEF Spec, LiveSocketIsKept

\* A daemon never removes a file that is no socket.
THEOREM FileStays == Spec => FileIsKept
<1> DEFINE Kept == path = "file" /\ removals' = 0 => path' = "file"
<1>1. ASSUME SocketInv, NEW d \in Daemons, Daemon(d) \/ Crash(d) PROVE Kept
  BY <1>1, DaemonsAssumption
     DEF SocketInv, TypeOK, ServingIsReachable, PathInv, Occupants, bounds, Goto, Fail,
         Proceed, Daemon, Starting, LockSocket, Inspect, Probe, Remove, Bind, Unlink,
         Close, Crash
<1>2. ASSUME SocketInv, Others PROVE Kept
  BY <1>2, DaemonsAssumption
     DEF SocketInv, TypeOK, Others, WriteFile, ForeignListens, ForeignEnds, RemovePath,
         bounds
<1>3. SocketInv /\ [Next]_vars => [Kept]_vars
  BY <1>1, <1>2 DEF Next
<1>4. QED
  BY <1>3, SocketInvariant, PTL DEF Spec, FileIsKept
=============================================================================
