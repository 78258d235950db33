------------------------- MODULE PersistenceProofs --------------------------
(***************************************************************************)
(* Proofs about the preference and the service, for any identities, any    *)
(* file to begin with and any number of faults.                            *)
(*                                                                         *)
(* A field of the identity is either still to be written, with the goal's  *)
(* value, or has it already. So the write that empties the list of writes  *)
(* leaves the goal, and one that breaks off leaves a mixture. The commands *)
(* answer only at their last step, when the steps before have made the     *)
(* answer true.                                                            *)
(***************************************************************************)
EXTENDS Persistence, SequenceTheorems, TLAPS

Writes == [key : Keys, value : Values]

\* The ranges of what Preferences keeps.
StoreInv ==
  /\ store \in [Keys -> Values]
  /\ todo \in Seq(Writes) /\ Len(todo) <= 5
  /\ before \in MaybeIdentities
  /\ goal \in MaybeIdentities

\* The writes to come are the goal's.
GoalInv ==
  \A i \in 1 .. Len(todo) :
    todo[i].key \in Fields => Decoded(todo[i].value) = goal[todo[i].key]

\* While there are some, each field is the old one or the new one, and one
\* that is not to be written any more is the new one.
MixtureInv ==
  todo # <<>> =>
    \A f \in Fields :
      /\ Load[f] \in {before[f], goal[f]}
      /\ Load[f] = goal[f] \/ \E i \in 1 .. Len(todo) : todo[i].key = f

AckInv ==
  /\ pinned \in MaybeIdentities
  /\ acked \subseteq MaybeIdentities
  /\ todo # <<>> => acked = {}

WriteInv == StoreInv /\ GoalInv /\ MixtureInv /\ AckInv

\* The ranges of what Service keeps, and where a command can be.
JobInv ==
  /\ program \in {"cellar", "standalone"}
  /\ job \in [Jobs -> JobStates]
  /\ cli \in IF program = "cellar" THEN {"idle", "legacy", "brew"}
             ELSE {"idle", "agent"}
  /\ action \in {"start", "stop"}
  /\ answer \in {"none", "enabled", "disabled", "already enabled",
                 "not enabled", "failed"}
  /\ faults \in 0 .. MaxFaults

\* A command has not answered before it ends, and asks brew only when the
\* older agent is gone.
CommandInv ==
  /\ cli # "idle" => answer = "none"
  /\ cli = "brew" => ~Registered("agent")
  /\ AnswersAreTrue

ServiceInv == JobInv /\ CommandInv

\* A step of the service that lets the commands be: it registers no job,
\* removes none, and starts no command.
KeepsJobs ==
  /\ job' \in [Jobs -> JobStates]
  /\ \A j \in Jobs : Registered(j)' <=> Registered(j)
  /\ UNCHANGED <<program, cli, action, answer>>
  /\ faults' \in 0 .. MaxFaults

-----------------------------------------------------------------------------
(***************************************************************************)
(* The preference.                                                         *)
(***************************************************************************)
\* load() gives an identity, whatever the file holds.
LEMMA LoadType == ASSUME StoreInv PROVE Load \in MaybeIdentities
  BY DEF StoreInv, Load, Decoded, MaybeIdentities

\* Nothing is pinned by the identity without numbers.
LEMMA NoIdentityType == NoIdentity \in MaybeIdentities
  BY DEF NoIdentity, MaybeIdentities

\* The invariant holds of the file a first daemon finds.
LEMMA WriteInit == Init => WriteInv
<1> SUFFICES ASSUME Init PROVE WriteInv
  OBVIOUS
<1> USE DEF Init, PreferencesInit
<1>1. StoreInv
  BY FilesAssumption, NoIdentityType DEF StoreInv, Values
<1>2. GoalInv /\ MixtureInv
  BY DEF GoalInv, MixtureInv
<1>3. AckInv
  BY NoIdentityType DEF AckInv
<1>4. QED
  BY <1>1, <1>2, <1>3 DEF WriteInv

\* A save begins with writes of the identity's numbers to every key.
LEMMA SaveBegins ==
  ASSUME WriteInv, NEW identity \in Identities, Save(identity),
         pinned' = identity, acked' = {}
  PROVE  WriteInv'
<1>1. identity \in MaybeIdentities
  BY IdentitiesAssumption DEF MaybeIdentities
<1>2. /\ store' = store /\ before' = Load /\ goal' = identity
      /\ todo' = <<Write("legacy", Missing),
                   Write("builtin", identity["builtin"]),
                   Write("vendor", identity["vendor"]),
                   Write("model", identity["model"]),
                   Write("serial", identity["serial"])>>
  BY DEF Save, Begin
<1>3. \A f \in Fields : identity[f] \in Nat /\ Decoded(identity[f]) = identity[f]
  BY <1>1 DEF MaybeIdentities, Decoded
<1>4. StoreInv'
  <2>1. /\ Write("legacy", Missing) \in Writes
        /\ \A f \in Fields : Write(f, identity[f]) \in Writes
    BY <1>3 DEF Write, Writes, Keys, Values
  <2>2. todo' \in Seq(Writes) /\ Len(todo') = 5
    BY <1>2, <2>1 DEF Fields
  <2>3. QED
    BY <1>1, <1>2, <2>2, LoadType DEF WriteInv, StoreInv
<1>5. GoalInv'
  BY <1>2, <1>3 DEF GoalInv, Write, Fields
<1>6. MixtureInv'
  <2>1. Load' = Load
    BY <1>2 DEF Load
  <2>2. \A f \in Fields : \E i \in 1 .. Len(todo') : todo'[i].key = f
    BY <1>2 DEF Write, Fields
  <2>3. QED
    BY <1>2, <2>1, <2>2 DEF MixtureInv
<1>7. AckInv'
  BY <1>1 DEF AckInv
<1>8. QED
  BY <1>4, <1>5, <1>6, <1>7 DEF WriteInv

\* A clear begins with writes that leave every key missing.
LEMMA ClearBegins ==
  ASSUME WriteInv, Clear, pinned' = pinned, acked' = {}
  PROVE  WriteInv'
<1>1. /\ store' = store /\ before' = Load /\ goal' = NoIdentity
      /\ todo' = <<Write("legacy", Missing), Write("builtin", Missing),
                   Write("vendor", Missing), Write("model", Missing),
                   Write("serial", Missing)>>
  BY DEF Clear, Begin
<1>2. Decoded(Missing) = 0
  BY FilesAssumption DEF Decoded
<1>3. StoreInv'
  <2>1. \A k \in Keys : Write(k, Missing) \in Writes
    BY DEF Write, Writes, Values
  <2>2. todo' \in Seq(Writes) /\ Len(todo') = 5
    BY <1>1, <2>1 DEF Keys, Fields
  <2>3. QED
    BY <1>1, <2>2, LoadType, NoIdentityType DEF WriteInv, StoreInv
<1>4. GoalInv'
  BY <1>1, <1>2 DEF GoalInv, Write, Fields, NoIdentity
<1>5. MixtureInv'
  <2>1. Load' = Load
    BY <1>1 DEF Load
  <2>2. \A f \in Fields : \E i \in 1 .. Len(todo') : todo'[i].key = f
    BY <1>1 DEF Write, Fields
  <2>3. QED
    BY <1>1, <2>1, <2>2 DEF MixtureInv
<1>6. AckInv'
  BY DEF WriteInv, AckInv
<1>7. QED
  BY <1>3, <1>4, <1>5, <1>6 DEF WriteInv

\* The write made is one of the five, and the others are left as they were,
\* one place further on.
LEMMA WritesLeft ==
  ASSUME StoreInv, WriteKey
  PROVE  /\ 1 \in 1 .. Len(todo) /\ todo[1] \in Writes
         /\ store' = [store EXCEPT ![todo[1].key] = todo[1].value]
         /\ todo' \in Seq(Writes) /\ Len(todo') = Len(todo) - 1
         /\ \A i \in 1 .. Len(todo') : todo'[i] = todo[i + 1]
<1> DEFINE S == Writes
<1>1. todo \in Seq(S) /\ todo # <<>> /\ todo' = Tail(todo)
  BY DEF StoreInv, WriteKey
<1>2. store' = [store EXCEPT ![Head(todo).key] = Head(todo).value]
  BY DEF WriteKey
<1> HIDE DEF S
<1>3. Len(todo) \in Nat /\ Len(todo) > 0
  BY <1>1, EmptySeq
<1>4. Head(todo) = todo[1] /\ Head(todo) \in S
  BY <1>1, HeadTailProperties
<1>5. todo' \in Seq(S) /\ Len(todo') = Len(todo) - 1
  BY <1>1, HeadTailProperties
<1>6. \A i \in 1 .. Len(todo') : todo'[i] = todo[i + 1]
  BY <1>1, HeadTailProperties
<1>7. 1 \in 1 .. Len(todo)
  BY <1>3
<1>8. store' = [store EXCEPT ![todo[1].key] = todo[1].value]
  BY <1>2, <1>4, Zenon
<1>9. QED
  BY <1>4, <1>5, <1>6, <1>7, <1>8, Zenon DEF S

\* A write brings its field to the goal and leaves the others as they are.
LEMMA WriteLoads ==
  ASSUME StoreInv, GoalInv, WriteKey, NEW f \in Fields
  PROVE  /\ Load'[f] \in {Load[f], goal[f]}
         /\ todo[1].key = f => Load'[f] = goal[f]
         /\ todo[1].key # f => Load'[f] = Load[f]
<1>1. /\ 1 \in 1 .. Len(todo)
      /\ todo[1] \in Writes
      /\ store' = [store EXCEPT ![todo[1].key] = todo[1].value]
  BY WritesLeft
<1>2. store \in [Keys -> Values] /\ f \in Keys
  BY DEF StoreInv, Keys
<1>3. Load[f] = Decoded(store[f]) /\ Load'[f] = Decoded(store'[f])
  BY DEF Load
<1>4. CASE todo[1].key = f
  <2>1. store'[f] = todo[1].value
    BY <1>1, <1>2, <1>4
  <2>2. Decoded(todo[1].value) = goal[f]
    BY <1>1, <1>4 DEF GoalInv
  <2>3. QED
    BY <1>3, <1>4, <2>1, <2>2
<1>5. CASE todo[1].key # f
  <2>1. store'[f] = store[f]
    BY <1>1, <1>2, <1>5 DEF Writes
  <2>2. QED
    BY <1>3, <1>5, <2>1
<1>6. QED
  BY <1>4, <1>5

\* So when the last of the writes is made the file holds the goal.
LEMMA LastWrite ==
  ASSUME StoreInv, GoalInv, MixtureInv, WriteKey, Len(todo) = 1
  PROVE  Load' = goal
<1>1. todo # <<>>
  BY DEF WriteKey
<1>2. ASSUME NEW f \in Fields PROVE Load'[f] = goal[f]
  <2>1. Load[f] = goal[f] \/ todo[1].key = f
    BY <1>1 DEF MixtureInv
  <2>2. QED
    BY <2>1, WriteLoads
<1>3. Load' = [f \in Fields |-> Load'[f]]
  BY DEF Load
<1>4. goal = [f \in Fields |-> goal[f]]
  BY DEF StoreInv, MaybeIdentities
<1>5. QED
  BY <1>2, <1>3, <1>4

\* A write keeps the invariant.
LEMMA WriteSteps ==
  ASSUME WriteInv, DaemonWrites
  PROVE  WriteInv'
<1>1. StoreInv /\ GoalInv /\ MixtureInv /\ AckInv /\ WriteKey
  BY DEF WriteInv, DaemonWrites
<1>2. before' = before /\ goal' = goal /\ todo # <<>>
  BY <1>1 DEF WriteKey
<1>3. StoreInv'
  <2>1. store' \in [Keys -> Values]
    BY <1>1, WritesLeft DEF StoreInv, Writes
  <2>2. QED
    BY <1>1, <1>2, <2>1, WritesLeft DEF StoreInv
<1>4. GoalInv'
  <2>1. ASSUME NEW i \in 1 .. Len(todo'), todo'[i].key \in Fields
        PROVE  Decoded(todo'[i].value) = goal[todo'[i].key]
    <3>1. i + 1 \in 1 .. Len(todo) /\ todo'[i] = todo[i + 1]
      BY <1>1, WritesLeft
    <3>2. QED
      BY <1>1, <2>1, <3>1 DEF GoalInv
  <2>2. QED
    BY <1>2, <2>1 DEF GoalInv
<1>5. MixtureInv'
  <2>1. ASSUME NEW f \in Fields
        PROVE  /\ Load'[f] \in {before[f], goal[f]}
               /\ \/ Load'[f] = goal[f]
                  \/ \E i \in 1 .. Len(todo') : todo'[i].key = f
    <3>1. Load[f] \in {before[f], goal[f]}
      BY <1>1, <1>2 DEF MixtureInv
    <3>2. CASE todo[1].key = f
      BY <1>1, <3>2, WriteLoads
    <3>3. CASE todo[1].key # f
      <4>1. Load'[f] = Load[f]
        BY <1>1, <3>3, WriteLoads
      <4>2. CASE Load[f] = goal[f]
        BY <4>1, <4>2
      <4>3. CASE \E i \in 1 .. Len(todo) : todo[i].key = f
        <5>1. PICK i \in 1 .. Len(todo) : todo[i].key = f
          BY <4>3
        <5>2. i # 1
          BY <3>3, <5>1
        <5>3. i - 1 \in 1 .. Len(todo') /\ todo'[i - 1] = todo[i]
          BY <1>1, <5>2, WritesLeft
        <5>4. QED
          BY <3>1, <4>1, <5>1, <5>3
      <4>4. QED
        BY <1>1, <1>2, <4>2, <4>3 DEF MixtureInv
    <3>4. QED
      BY <3>2, <3>3
  <2>2. QED
    BY <1>2, <2>1 DEF MixtureInv
<1>6. AckInv'
  <2>1. CASE Len(todo) = 1
    <3>1. todo' = <<>>
      BY <1>1, <2>1, WritesLeft
    <3>2. pinned' = goal /\ acked' = {goal} /\ goal \in MaybeIdentities
      BY <1>1, <2>1 DEF DaemonWrites, StoreInv
    <3>3. QED
      BY <3>1, <3>2 DEF AckInv
  <2>2. CASE Len(todo) # 1
    BY <1>1, <1>2, <2>2 DEF DaemonWrites, AckInv
  <2>3. QED
    BY <2>1, <2>2
<1>7. QED
  BY <1>3, <1>4, <1>5, <1>6 DEF WriteInv

\* What is broken off leaves the file as it was, and nothing under way.
LEMMA BreakOffKeeps ==
  ASSUME WriteInv, BreakOff, pinned' \in MaybeIdentities, acked' = acked
  PROVE  WriteInv'
<1>1. todo' = <<>> /\ store' = store /\ before' = before /\ goal' = goal
  BY DEF BreakOff
<1>2. StoreInv'
  BY <1>1 DEF WriteInv, StoreInv
<1>3. GoalInv' /\ MixtureInv'
  BY <1>1 DEF GoalInv, MixtureInv
<1>4. AckInv'
  BY <1>1 DEF WriteInv, AckInv
<1>5. QED
  BY <1>2, <1>3, <1>4 DEF WriteInv

\* So does a step that does not touch the file.
LEMMA FileLeftAlone ==
  ASSUME WriteInv, UNCHANGED <<preferenceVars, acked>>,
         pinned' \in MaybeIdentities
  PROVE  WriteInv'
<1>1. StoreInv' /\ GoalInv'
  BY DEF WriteInv, preferenceVars, StoreInv, GoalInv
<1>2. MixtureInv'
  BY DEF WriteInv, preferenceVars, MixtureInv, Load
<1>3. AckInv'
  BY DEF WriteInv, preferenceVars, AckInv
<1>4. QED
  BY <1>1, <1>2, <1>3 DEF WriteInv

\* Every step keeps the invariant of the writes.
LEMMA WriteNext == WriteInv /\ [Next]_vars => WriteInv'
<1> SUFFICES ASSUME WriteInv, [Next]_vars PROVE WriteInv'
  OBVIOUS
<1>t. pinned \in MaybeIdentities /\ StoreInv
  BY DEF WriteInv, AckInv
<1>1. CASE Request
  BY <1>1, SaveBegins, ClearBegins DEF Request
<1>2. CASE DaemonWrites
  BY <1>2, WriteSteps
<1>3. CASE WriteFails
  BY <1>3, <1>t, BreakOffKeeps DEF WriteFails
<1>4. CASE ServiceCommand
  <2>1. UNCHANGED <<preferenceVars, acked>> /\ pinned' \in MaybeIdentities
    BY <1>4, <1>t, NoIdentityType DEF ServiceCommand
  <2>2. QED
    BY <2>1, FileLeftAlone
<1>5. CASE DaemonStays
  BY <1>5, <1>t, FileLeftAlone DEF DaemonStays
<1>6. CASE DaemonBoots
  <2>1. UNCHANGED <<preferenceVars, acked>> /\ pinned' \in MaybeIdentities
    BY <1>6, <1>t, LoadType, NoIdentityType DEF DaemonBoots
  <2>2. QED
    BY <2>1, FileLeftAlone
<1>7. CASE DaemonHeals \/ DaemonEnds
  <2>1. UNCHANGED <<preferenceVars, acked>> /\ pinned' \in MaybeIdentities
    BY <1>7, <1>t, LoadType, NoIdentityType DEF DaemonHeals, DaemonEnds
  <2>2. QED
    BY <2>1, FileLeftAlone
<1>8. CASE DaemonDies
  <2>1. pinned' \in MaybeIdentities /\ acked' = acked
    BY <1>8, NoIdentityType DEF DaemonDies
  <2>2. QED
    BY <1>8, <2>1, FileLeftAlone, BreakOffKeeps DEF DaemonDies
<1>9. CASE UNCHANGED vars
  BY <1>9, <1>t, FileLeftAlone DEF vars
<1>10. QED
  BY <1>1, <1>2, <1>3, <1>4, <1>5, <1>6, <1>7, <1>8, <1>9 DEF Next

\* In every state each field is the old one, or the goal's, and the writes
\* still to be made are those that are missing (preferences.rs:24-62).
THEOREM WriteInvariant == Spec => []WriteInv
BY WriteInit, WriteNext, PTL DEF Spec

-----------------------------------------------------------------------------
(***************************************************************************)
(* The service.                                                            *)
(***************************************************************************)
\* A fault leaves a number of faults to come, and so does a step without one.
LEMMA FaultsLeft ==
  ASSUME JobInv, Fault \/ NoFault
  PROVE  faults' \in 0 .. MaxFaults
<1>1. faults \in 0 .. MaxFaults /\ MaxFaults \in Nat
  BY FaultsAssumption DEF JobInv
<1>2. CASE Fault
  BY <1>1, <1>2 DEF Fault
<1>3. CASE NoFault
  BY <1>1, <1>3 DEF NoFault
<1>4. QED
  BY <1>2, <1>3

\* A step that lets the commands be keeps what is known of them.
LEMMA JobsKept ==
  ASSUME ServiceInv, KeepsJobs
  PROVE  ServiceInv'
<1>1. JobInv'
  BY DEF ServiceInv, JobInv, KeepsJobs
<1>2. AnswersAreTrue'
  BY DEF ServiceInv, CommandInv, AnswersAreTrue, KeepsJobs, Jobs
<1>3. CommandInv'
  BY <1>2 DEF ServiceInv, CommandInv, KeepsJobs, Jobs
<1>4. QED
  BY <1>1, <1>3 DEF ServiceInv

\* launchd and the daemons it starts move a job among the states of one that
\* is registered.
LEMMA JobMoves ==
  ASSUME JobInv, NEW j \in Jobs, Registered(j), NEW s \in JobStates,
         s # "absent", job' = [job EXCEPT ![j] = s], Fault \/ NoFault,
         UNCHANGED <<program, cli, action, answer>>
  PROVE  KeepsJobs
<1>1. job' \in [Jobs -> JobStates]
  BY DEF JobInv
<1>2. \A k \in Jobs : Registered(k)' <=> Registered(k)
  BY DEF JobInv, Registered
<1>3. QED
  BY <1>1, <1>2, FaultsLeft DEF KeepsJobs

\* Whatever else happens to a job, it stays registered.
LEMMA JobSteps ==
  ASSUME JobInv, NEW j \in Jobs,
         \/ Boot(j) /\ (Fault \/ NoFault)
         \/ BootFails(j) \/ Crash(j) \/ Terminate(j) \/ Restart(j)
  PROVE  KeepsJobs
<1>1. CASE Boot(j) /\ (Fault \/ NoFault)
  <2>1. Registered(j) /\ "running" \in JobStates
    BY <1>1 DEF Boot, Registered, JobStates
  <2>2. QED
    BY <1>1, <2>1, JobMoves DEF Boot
<1>2. CASE BootFails(j)
  <2>1. Registered(j) /\ "exited" \in JobStates
    BY <1>2 DEF BootFails, Registered, JobStates
  <2>2. QED
    BY <1>2, <2>1, JobMoves DEF BootFails
<1>3. CASE Crash(j)
  <2>1. Registered(j) /\ "crashed" \in JobStates
    BY <1>3 DEF Crash, Registered, JobStates
  <2>2. QED
    BY <1>3, <2>1, JobMoves DEF Crash
<1>4. CASE Terminate(j)
  <2>1. Registered(j) /\ "exited" \in JobStates
    BY <1>4 DEF Terminate, Registered, JobStates
  <2>2. QED
    BY <1>4, <2>1, JobMoves DEF Terminate
<1>5. CASE Restart(j)
  <2>1. Registered(j) /\ "starting" \in JobStates
    BY <1>5 DEF Restart, Registered, JobStates
  <2>2. QED
    BY <1>5, <2>1, JobMoves DEF Restart
<1>6. QED
  BY <1>1, <1>2, <1>3, <1>4, <1>5

\* A login starts the jobs there are, and no other.
LEMMA LoginSteps ==
  ASSUME JobInv, Login
  PROVE  KeepsJobs
<1>1. job' = [j \in Jobs |-> IF Registered(j) THEN "starting" ELSE "absent"]
  BY DEF Login
<1>2. job' \in [Jobs -> JobStates]
  BY <1>1 DEF JobStates
<1>3. \A j \in Jobs : Registered(j)' <=> Registered(j)
  BY <1>1 DEF Registered
<1>4. QED
  BY <1>2, <1>3, FaultsLeft DEF Login, KeepsJobs

\* A command begins without an answer, and brew's is not asked at once.
LEMMA CommandSteps ==
  ASSUME ServiceInv, Command
  PROVE  ServiceInv'
<1>1. JobInv'
  BY FaultsLeft DEF ServiceInv, JobInv, Command
<1>2. cli' # "brew" /\ answer' = "none"
  BY DEF Command
<1>3. CommandInv'
  BY <1>2 DEF CommandInv, AnswersAreTrue
<1>4. QED
  BY <1>1, <1>3 DEF ServiceInv

\* brew's turn comes when the older agent is gone.
LEMMA UninstallLegacySteps ==
  ASSUME ServiceInv, UninstallLegacy
  PROVE  ServiceInv'
<1>1. program = "cellar" /\ cli' = "brew" /\ answer' = "none"
  BY DEF ServiceInv, JobInv, CommandInv, UninstallLegacy
<1>2. job \in [Jobs -> JobStates] /\ job' = [job EXCEPT !["agent"] = "absent"]
  BY DEF ServiceInv, JobInv, UninstallLegacy
<1>3. job' \in [Jobs -> JobStates]
  BY <1>2 DEF JobStates
<1>4. ~Registered("agent")'
  BY <1>2 DEF Registered, Jobs
<1>5. JobInv'
  BY <1>1, <1>3, FaultsLeft DEF ServiceInv, JobInv, UninstallLegacy
<1>6. CommandInv'
  BY <1>1, <1>4 DEF CommandInv, AnswersAreTrue
<1>7. QED
  BY <1>5, <1>6 DEF ServiceInv

\* brew's answer is true: its own job is as asked, and the agent was gone.
LEMMA BrewSteps ==
  ASSUME ServiceInv, BrewService
  PROVE  ServiceInv'
<1>1. /\ program = "cellar" /\ program' = program /\ action' = action
      /\ cli' = "idle" /\ answer' \in {"enabled", "disabled"}
      /\ answer' = "enabled" <=> action = "start"
      /\ action \in {"start", "stop"}
  BY DEF ServiceInv, JobInv, BrewService, Done, Answer
<1>2. job \in [Jobs -> JobStates] /\ job["agent"] = "absent"
  BY DEF ServiceInv, JobInv, CommandInv, BrewService, Registered
<1>3. \E s \in JobStates :
        /\ job' = [job EXCEPT !["brew"] = s]
        /\ s = "absent" <=> action = "stop"
  <2>1. CASE action = "stop"
    <3>1. job' = [job EXCEPT !["brew"] = "absent"]
      BY <2>1 DEF BrewService
    <3>2. QED
      BY <2>1, <3>1 DEF JobStates
  <2>2. CASE action = "start" /\ Registered("brew")
    <3>1. job' = [job EXCEPT !["brew"] = job["brew"]]
      BY <2>2 DEF BrewService
    <3>2. job["brew"] \in JobStates /\ job["brew"] # "absent"
      BY <1>2, <2>2 DEF Registered, Jobs
    <3>3. QED
      BY <2>2, <3>1, <3>2
  <2>3. CASE action = "start" /\ ~Registered("brew")
    <3>1. job' = [job EXCEPT !["brew"] = "starting"]
      BY <2>3 DEF BrewService
    <3>2. QED
      BY <2>3, <3>1 DEF JobStates
  <2>4. QED
    BY <1>1, <2>1, <2>2, <2>3
<1>4. /\ job' \in [Jobs -> JobStates] /\ job'["agent"] = "absent"
      /\ job'["brew"] = "absent" <=> action = "stop"
  BY <1>2, <1>3 DEF Jobs
<1>5. JobInv'
  BY <1>1, <1>4, FaultsLeft DEF ServiceInv, JobInv, BrewService
<1>6. AnswersAreTrue'
  BY <1>1, <1>4 DEF AnswersAreTrue, Registered, Jobs
<1>7. CommandInv'
  BY <1>1, <1>6 DEF CommandInv
<1>8. QED
  BY <1>5, <1>7 DEF ServiceInv

\* A standalone program answers of the agent, which it has just set or found.
LEMMA AgentSteps ==
  ASSUME ServiceInv, InstallAgent \/ UninstallAgent
  PROVE  ServiceInv'
<1>1. /\ program = "standalone" /\ program' = program /\ action' = action
      /\ cli' = "idle" /\ job \in [Jobs -> JobStates]
  BY DEF ServiceInv, JobInv, InstallAgent, UninstallAgent, Done, Answer
<1>2. /\ answer' \in {"enabled", "already enabled", "disabled", "not enabled"}
      /\ job' \in [Jobs -> JobStates]
      /\ Registered("agent")' <=> answer' \in {"enabled", "already enabled"}
  <2>1. CASE InstallAgent
    <3>1. CASE Registered("agent")
      BY <1>1, <2>1, <3>1 DEF InstallAgent, Answer, Registered
    <3>2. CASE ~Registered("agent")
      <4>1. job' = [job EXCEPT !["agent"] = "starting"] /\ answer' = "enabled"
        BY <2>1, <3>2 DEF InstallAgent, Done, Answer
      <4>2. job' \in [Jobs -> JobStates] /\ job'["agent"] = "starting"
        BY <1>1, <4>1 DEF Jobs, JobStates
      <4>3. QED
        BY <4>1, <4>2 DEF Registered
    <3>3. QED
      BY <3>1, <3>2
  <2>2. CASE UninstallAgent
    <3>1. CASE ~Registered("agent")
      BY <1>1, <2>2, <3>1 DEF UninstallAgent, Answer, Registered
    <3>2. CASE Registered("agent")
      <4>1. job' = [job EXCEPT !["agent"] = "absent"] /\ answer' = "disabled"
        BY <2>2, <3>2 DEF UninstallAgent, Done, Answer
      <4>2. job' \in [Jobs -> JobStates] /\ job'["agent"] = "absent"
        BY <1>1, <4>1 DEF Jobs, JobStates
      <4>3. QED
        BY <4>1, <4>2 DEF Registered
    <3>3. QED
      BY <3>1, <3>2
  <2>3. QED
    BY <2>1, <2>2
<1>3. JobInv'
  BY <1>1, <1>2, FaultsLeft DEF ServiceInv, JobInv, InstallAgent, UninstallAgent
<1>4. AnswersAreTrue'
  BY <1>1, <1>2 DEF AnswersAreTrue
<1>5. CommandInv'
  BY <1>1, <1>4 DEF CommandInv
<1>6. QED
  BY <1>3, <1>5 DEF ServiceInv

\* A failure and a new program promise nothing.
LEMMA NoPromise ==
  ASSUME ServiceInv, CommandFails \/ Reinstall
  PROVE  ServiceInv'
<1>1. /\ cli' = "idle" /\ answer' \in {"failed", "none"}
      /\ UNCHANGED <<job, action>>
      /\ program' \in {"cellar", "standalone"}
  BY DEF ServiceInv, JobInv, CommandFails, Reinstall, Answer
<1>2. JobInv'
  BY <1>1, FaultsLeft DEF ServiceInv, JobInv, CommandFails, Reinstall
<1>3. CommandInv'
  BY <1>1 DEF CommandInv, AnswersAreTrue
<1>4. QED
  BY <1>2, <1>3 DEF ServiceInv

\* Nothing is asked of the service at first.
LEMMA ServiceStart == Init => ServiceInv
<1> SUFFICES ASSUME Init PROVE ServiceInv
  OBVIOUS
<1>1. JobInv
  BY FaultsAssumption DEF Init, ServiceInit, JobInv, JobStates
<1>2. CommandInv
  BY DEF Init, ServiceInit, CommandInv, AnswersAreTrue
<1>3. QED
  BY <1>1, <1>2 DEF ServiceInv

\* Every step keeps the invariant of the service.
LEMMA ServiceNext == ServiceInv /\ [Next]_vars => ServiceInv'
<1> SUFFICES ASSUME ServiceInv, [Next]_vars PROVE ServiceInv'
  OBVIOUS
<1>0. JobInv
  BY DEF ServiceInv
<1>1. CASE UNCHANGED serviceVars
  <2>1. KeepsJobs
    BY <1>0, <1>1 DEF serviceVars, KeepsJobs, JobInv, Registered
  <2>2. QED
    BY <2>1, JobsKept
<1>2. CASE WriteFails
  <2>1. KeepsJobs
    BY <1>0, <1>2, FaultsLeft DEF WriteFails, KeepsJobs, JobInv, Registered
  <2>2. QED
    BY <2>1, JobsKept
<1>3. CASE ServiceCommand
  BY <1>3, CommandSteps, UninstallLegacySteps, BrewSteps, AgentSteps, NoPromise
     DEF ServiceCommand
<1>4. CASE DaemonStays \/ DaemonBoots \/ DaemonEnds \/ DaemonDies
  <2>1. KeepsJobs
    BY <1>0, <1>4, JobSteps, LoginSteps
       DEF DaemonStays, DaemonBoots, DaemonEnds, DaemonDies
  <2>2. QED
    BY <2>1, JobsKept
<1>5. QED
  BY <1>1, <1>2, <1>3, <1>4
     DEF Next, Request, DaemonWrites, DaemonHeals, vars

\* No command answers before its last step, and the steps before it have made
\* the answer true: an "enabled" or "disabled" is never a guess
\* (lockdock.rs:73-103, :139-152).
THEOREM ServiceInvariant == Spec => []ServiceInv
BY ServiceStart, ServiceNext, PTL DEF Spec

-----------------------------------------------------------------------------
(***************************************************************************)
(* What the runs check.                                                    *)
(***************************************************************************)
\* Every variable keeps a value of its type, and a command under way is where
\* the user's program can be.
THEOREM TypeCorrect == Spec => []TypeOK
<1>1. WriteInv /\ ServiceInv => TypeOK
  <2> SUFFICES ASSUME WriteInv, ServiceInv PROVE TypeOK
    OBVIOUS
  <2>1. /\ store \in [Keys -> Values] /\ Len(todo) <= 5
        /\ {before, goal, pinned} \cup acked \subseteq MaybeIdentities
    BY DEF WriteInv, StoreInv, AckInv
  <2>2. \A i \in DOMAIN todo : todo[i].key \in Keys /\ todo[i].value \in Values
    <3>1. todo \in Seq(Writes)
      BY DEF WriteInv, StoreInv
    <3>2. todo \in [1 .. Len(todo) -> Writes]
      BY <3>1, LenProperties
    <3>3. \A i \in DOMAIN todo : todo[i] \in Writes
      BY <3>2
    <3>4. QED
      BY <3>3 DEF Writes
  <2>3. JobInv
    BY DEF ServiceInv
  <2>4. QED
    BY <2>1, <2>2, <2>3 DEF TypeOK, JobInv
<1>2. QED
  BY <1>1, WriteInvariant, ServiceInvariant, PTL

\* A command that reports success has brought the service to the state it
\* names (lockdock.rs:73-103, :139-152).
THEOREM AnswersStayTrue == Spec => []AnswersAreTrue
<1>1. ServiceInv => AnswersAreTrue
  BY DEF ServiceInv, CommandInv
<1>2. QED
  BY <1>1, ServiceInvariant, PTL

\* What the contract calls saved and pending.
SavedOf == IF todo = <<>> THEN Load ELSE before
PendingOf == IF todo = <<>> THEN Missing ELSE goal

\* A write under way is of an identity, which is not the mark for none.
LEMMA PendingIsReal == WriteInv /\ todo # <<>> => goal # Missing
  BY FilesAssumption DEF WriteInv, StoreInv, MaybeIdentities

\* The first state of the file is one the contract begins in.
LEMMA ContractInit == Init => Contract!Init
<1> SUFFICES ASSUME Init PROVE Contract!Init
  OBVIOUS
<1>1. todo = <<>> /\ acked = {}
  BY DEF Init, PreferencesInit
<1>2. Load \in [Fields -> Nat]
  BY WriteInit, LoadType DEF WriteInv, MaybeIdentities
<1>3. QED
  BY <1>1, <1>2 DEF Contract!Init

\* A request begins a write.
LEMMA RequestBegins ==
  ASSUME WriteInv, WriteInv', Request
  PROVE  Contract!Begin
<1>1. /\ todo = <<>> /\ acked' = {} /\ before' = Load
      /\ goal' \in Identities \cup {NoIdentity}
  BY DEF Request, Save, Clear, Begin
<1>2. todo' # <<>>
  BY DEF Request, Save, Clear, Begin
<1>3. QED
  BY <1>1, <1>2 DEF Contract!Begin

\* The last write completes it; the others do not show.
LEMMA WriteShows ==
  ASSUME WriteInv, DaemonWrites
  PROVE  Contract!Complete \/ UNCHANGED <<SavedOf, PendingOf, acked>>
<1>1. /\ StoreInv /\ GoalInv /\ MixtureInv /\ WriteKey
      /\ todo # <<>> /\ before' = before /\ goal' = goal
  BY DEF WriteInv, DaemonWrites, WriteKey
<1>2. CASE Len(todo) = 1
  <2>1. Load' = goal
    BY <1>1, <1>2, LastWrite
  <2>2. todo' = <<>>
    BY <1>1, <1>2, WritesLeft
  <2>3. acked' = {goal} /\ goal # Missing
    BY <1>1, <1>2, PendingIsReal DEF DaemonWrites
  <2>4. QED
    BY <1>1, <2>1, <2>2, <2>3 DEF Contract!Complete
<1>3. CASE Len(todo) # 1
  <2>1. todo' # <<>>
    BY <1>1, <1>3, WritesLeft
  <2>2. acked' = acked
    BY <1>3 DEF DaemonWrites
  <2>3. QED
    BY <1>1, <2>1, <2>2 DEF SavedOf, PendingOf
<1>4. QED
  BY <1>2, <1>3

\* One that breaks off leaves a mixture.
LEMMA BreakOffMixes ==
  ASSUME WriteInv, BreakOff, acked' = acked
  PROVE  Contract!BreakOff
<1>1. todo # <<>> /\ todo' = <<>> /\ store' = store
  BY DEF BreakOff
<1>2. Load' = Load
  BY <1>1 DEF Load
<1>3. acked' = {} /\ goal # Missing
  BY <1>1, PendingIsReal DEF WriteInv, AckInv
<1>4. \A f \in Fields : Load[f] \in {before[f], goal[f]}
  BY <1>1 DEF WriteInv, MixtureInv
<1>5. Load \in [Fields -> UNION {{before[f], goal[f]} : f \in Fields}]
  <2>1. Load = [f \in Fields |-> Load[f]]
    BY DEF Load
  <2>2. \A f \in Fields :
          Load[f] \in UNION {{before[g], goal[g]} : g \in Fields}
    BY <1>4
  <2>3. QED
    BY <2>1, <2>2
<1>6. Load \in Contract!Mixtures(before, goal)
  BY <1>4, <1>5 DEF Contract!Mixtures
<1>7. QED
  BY <1>1, <1>2, <1>3, <1>6 DEF Contract!BreakOff

\* What does not touch the file does not show.
LEMMA FileUnseen ==
  ASSUME UNCHANGED <<preferenceVars, acked>>
  PROVE  UNCHANGED <<SavedOf, PendingOf, acked>>
<1>1. UNCHANGED <<store, todo, before, goal, acked>>
  BY DEF preferenceVars
<1>2. QED
  BY <1>1 DEF SavedOf, PendingOf, Load

\* Every step of the daemon and the service is a step of the contract.
LEMMA ContractNext ==
  ASSUME WriteInv, WriteInv', [Next]_vars
  PROVE  Contract!Next \/ UNCHANGED <<SavedOf, PendingOf, acked>>
<1>1. CASE Request
  BY <1>1, RequestBegins DEF Contract!Next
<1>2. CASE DaemonWrites
  BY <1>2, WriteShows DEF Contract!Next
<1>3. CASE WriteFails
  BY <1>3, BreakOffMixes DEF WriteFails, Contract!Next
<1>4. CASE \/ ServiceCommand \/ DaemonStays \/ DaemonBoots \/ DaemonHeals
           \/ DaemonEnds \/ UNCHANGED vars
  BY <1>4, FileUnseen DEF ServiceCommand, DaemonStays, DaemonBoots, DaemonHeals,
     DaemonEnds, vars
<1>5. CASE DaemonDies
  BY <1>5, BreakOffMixes, FileUnseen DEF DaemonDies, Contract!Next
<1>6. QED
  BY <1>1, <1>2, <1>3, <1>4, <1>5 DEF Next

\* The five keys behave as the one preference of PreferenceContract: a save
\* that ends well leaves its identity, one that does not mixes at most the
\* old and the new, and nothing else changes it (preferences.rs:24-62).
THEOREM PreferenceKeepsContract == Spec => KeepsContract
<1>1. Init => Contract!Init
  BY ContractInit
<1>2. WriteInv /\ WriteInv' /\ [Next]_vars
        => [Contract!Next]_<<IF todo = <<>> THEN Load ELSE before,
                             IF todo = <<>> THEN Missing ELSE goal, acked>>
  BY ContractNext DEF SavedOf, PendingOf
<1>3. QED
  BY <1>1, <1>2, WriteInvariant, PTL DEF Spec, KeepsContract, Contract!Spec
=============================================================================
