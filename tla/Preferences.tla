---------------------------- MODULE Preferences -----------------------------
(***************************************************************************)
(* preferences.rs: the pinned display's identity, kept under four keys of  *)
(* the preferences file, which are written one after the other. The file   *)
(* may also hold a key of the daemon before this one, and values no        *)
(* version has written (it can be edited by hand).                         *)
(***************************************************************************)
EXTENDS Integers, Sequences

CONSTANTS
  Identities,     \* valid identities a set_state can save
  InitialFiles,   \* what the file may hold at first
  Missing         \* a key that is not in the file

Fields == {"builtin", "vendor", "model", "serial"}
Keys == Fields \cup {"legacy"}
NoIdentity == [f \in Fields |-> 0]    \* a flag is 0 or 1

\* display_identity_is_valid
IsValid(identity) == identity # NoIdentity

ASSUME IdentitiesAssumption ==
  \A identity \in Identities :
    identity \in [Fields -> Nat] /\ IsValid(identity)
ASSUME FilesAssumption ==
  /\ InitialFiles \subseteq [Keys -> Int \cup {Missing}]
  /\ Missing \notin Int \cup [Fields -> Nat]

VARIABLES
  store,    \* the preferences file, a value or Missing for every key
  todo,     \* the writes of keys a save or clear still has to make
  before,   \* history: the identity saved when that began
  goal      \* history: the identity it is to leave

preferenceVars == <<store, todo, before, goal>>

\* An i64 that is not a u32 is read as 0, like a key that is not there.
\* (-1 stands for every such number.)
Decoded(value) == IF value \in Nat THEN value ELSE 0
Load == [f \in Fields |-> Decoded(store[f])]

PreferencesInit ==
  /\ store \in InitialFiles
  /\ todo = <<>> /\ before = NoIdentity /\ goal = NoIdentity

Write(key, value) == [key |-> key, value |-> value]

Begin(writes, identity) ==
  /\ todo = <<>>
  /\ todo' = writes
  /\ before' = Load /\ goal' = identity
  /\ UNCHANGED store

BuggySave(identity) ==
  Begin(<<Write("legacy", Missing),
          Write("builtin", identity["builtin"]),
          Write("vendor", identity["vendor"]),
          Write("model", identity["model"])>>, identity)

Save(identity) ==
  Begin(<<Write("legacy", Missing),
          Write("builtin", identity["builtin"]),
          Write("vendor", identity["vendor"]),
          Write("model", identity["model"]),
          Write("serial", identity["serial"])>>, identity)

Clear ==
  Begin(<<Write("legacy", Missing), Write("builtin", Missing),
          Write("vendor", Missing), Write("model", Missing),
          Write("serial", Missing)>>, NoIdentity)

\* The next of the writes; the last one completes the save or clear.
WriteKey ==
  /\ todo # <<>>
  /\ store' = [store EXCEPT ![Head(todo).key] = Head(todo).value]
  /\ todo' = Tail(todo)
  /\ UNCHANGED <<before, goal>>

\* A write fails and the ? returns its error, or the process ends.
BreakOff ==
  /\ todo # <<>>
  /\ todo' = <<>>
  /\ UNCHANGED <<store, before, goal>>
=============================================================================
