----------------------------- MODULE MCRegistry -----------------------------
(***************************************************************************)
(* An interface of which the servers have a newer version than the library *)
(* knows, one of which they have an older one, one the library does not    *)
(* know, and wl_fixes.                                                     *)
(***************************************************************************)
EXTENDS Registry

CONSTANTS output, shell, other, fix

MCInterfaces == {output, shell, other, fix}

MCClientVersion == [i \in MCInterfaces |-> CASE i = output -> 1 [] i = shell -> 2 [] OTHER -> 0]

MCServerVersion == [i \in MCInterfaces |-> IF i = output THEN 2 ELSE 1]
=============================================================================
