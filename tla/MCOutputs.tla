----------------------------- MODULE MCOutputs -----------------------------
(***************************************************************************)
(* Two outputs with two modes each; and one output with three modes, with  *)
(* which addMode() loses its iterator also where a compositor announces    *)
(* only the mode that is current.                                          *)
(***************************************************************************)
EXTENDS Outputs, TLC

CONSTANTS left, right

MCOutputIds == {left, right}
OneOutput == {left}
\* Outputs are alike.
Alike == Permutations(MCOutputIds)
=============================================================================
