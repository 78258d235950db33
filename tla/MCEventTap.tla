----------------------------- MODULE MCEventTap -----------------------------
(***************************************************************************)
(* Instances of EventTap for TLC.                                          *)
(***************************************************************************)
EXTENDS EventTapProperties

CONSTANTS c1, c2, t1, t2

TwoCallers == {c1, c2}
TwoThreads == {t1, t2}
=============================================================================
