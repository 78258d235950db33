---------------------------- MODULE TapContract -----------------------------
(***************************************************************************)
(* What a tap promises its user: one owner at a time, the owner's handler  *)
(* called only while the owner holds the tap, and never once it let go.    *)
(***************************************************************************)
CONSTANTS Callers, NULL

VARIABLES owner,     \* who has claimed the tap, or NULL
          watching   \* whether the owner's handler may be called now

Init == owner = NULL /\ watching = FALSE

Claim == owner = NULL /\ owner' \in Callers /\ ~watching /\ watching' = watching
Watch == owner # NULL /\ ~watching /\ watching' = TRUE /\ owner' = owner
Rest == watching /\ watching' = FALSE /\ owner' = owner
Release == owner # NULL /\ ~watching /\ owner' = NULL /\ watching' = watching

Next == Claim \/ Watch \/ Rest \/ Release

Spec == Init /\ [][Next]_<<owner, watching>>
=============================================================================
