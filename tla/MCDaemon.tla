------------------------------ MODULE MCDaemon ------------------------------
(***************************************************************************)
(* Instances of Daemon for TLC: two displays, d1 and d2.                   *)
(***************************************************************************)
EXTENDS DaemonProperties, TLC

CONSTANTS d1, d2, i1, i2

Two == {d1, d2}

\* The displays are told apart by their identities.
Distinct == (d1 :> i1) @@ (d2 :> i2)

OneOrBoth == {<<d1>>, <<d1, d2>>}
GrowingList == {<<>>, <<d1>>, <<d2, d1>>}  \* d1 changes its place

NothingSaved == {NoIdentity}
SecondSaved == {i2}

=============================================================================
