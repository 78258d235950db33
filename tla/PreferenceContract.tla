------------------------- MODULE PreferenceContract -------------------------
(***************************************************************************)
(* What the saved preference promises the rest of the daemon, abstract     *)
(* from the keys it is spread over: a write that is reported done leaves   *)
(* exactly what was written, one that is not leaves each field of the      *)
(* identity as it was or as it was to be, and nothing changes otherwise.   *)
(* So writing again what is saved can only leave what is saved. The module *)
(* Daemon models the preference at this level.                             *)
(***************************************************************************)
EXTENDS Naturals

CONSTANTS
  Fields,     \* the fields of a DisplayIdentity
  Saveable,   \* the identities that can be written, the empty one included
  NoWrite     \* no write is under way

VARIABLES
  saved,      \* the identity load() makes of the preferences
  pending,    \* the identity being written
  acked       \* the identity the last write was reported done with, or {}

Init == saved \in [Fields -> Nat] /\ pending = NoWrite /\ acked = {}

Begin ==
  /\ pending = NoWrite
  /\ pending' \in Saveable
  /\ acked' = {}
  /\ UNCHANGED saved

Complete ==
  /\ pending # NoWrite
  /\ saved' = pending /\ acked' = {pending}
  /\ pending' = NoWrite

Mixtures(old, new) ==
  {m \in [Fields -> UNION {{old[f], new[f]} : f \in Fields}] :
     \A f \in Fields : m[f] \in {old[f], new[f]}}

BreakOff ==
  /\ pending # NoWrite
  /\ saved' \in Mixtures(saved, pending) /\ acked' = {}
  /\ pending' = NoWrite

Next ==
  \/ Begin
  \/ Complete
  \/ BreakOff

Spec == Init /\ [][Next]_<<saved, pending, acked>>
=============================================================================
