------------------------- MODULE MCSocketOwnership --------------------------
(***************************************************************************)
(* Two daemons on one path, for TLC.                                       *)
(***************************************************************************)
EXTENDS SocketOwnership

CONSTANTS launched, byHand

BothDaemons == {launched, byHand}
=============================================================================
