--------------------------- MODULE MCPersistence ----------------------------
(***************************************************************************)
(* Instances of Persistence for TLC: the built-in display and two external *)
(* ones of one model, and files as daemons of this version, daemons of the *)
(* one before and a text editor leave them.                                *)
(***************************************************************************)
EXTENDS Persistence

Display(builtin, vendor, model, serial) ==
  [f \in Fields |-> CASE f = "builtin" -> builtin [] f = "vendor" -> vendor
                      [] f = "model" -> model [] f = "serial" -> serial]

ThreeDisplays == {Display(1, 1, 1, 0), Display(0, 2, 2, 1),
                  Display(0, 2, 2, 2)}

Empty == [k \in Keys |-> Missing]
FourFiles == {Empty,
              [Empty EXCEPT !["legacy"] = 1],
              [k \in Keys |-> CASE k = "builtin" -> 0 [] k = "vendor" -> 2
                                [] k = "legacy" -> Missing [] OTHER -> -1],
              [k \in Keys |-> CASE k = "builtin" -> 0
                                [] k = "legacy" -> Missing [] OTHER -> 2]}
=============================================================================
