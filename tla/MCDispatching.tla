---------------------------- MODULE MCDispatching ----------------------------
(***************************************************************************)
(* Globals that differ in nothing but their names.                         *)
(***************************************************************************)
EXTENDS Dispatching

CONSTANTS g1, g2

MCGlobals == {g1, g2}
=============================================================================
