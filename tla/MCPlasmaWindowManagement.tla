---------------------- MODULE MCPlasmaWindowManagement ----------------------
(***************************************************************************)
(* Two windows, enough for one to be the parent of the other and for the   *)
(* focus to move between them.                                             *)
(***************************************************************************)
EXTENDS PlasmaWindowManagement

CONSTANTS w1, w2

MCWindows == {w1, w2}
=============================================================================
