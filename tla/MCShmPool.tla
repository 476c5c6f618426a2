----------------------------- MODULE MCShmPool -----------------------------
(***************************************************************************)
(* A pool of 2 bytes at first, buffers of 1 and of 2 bytes: the first      *)
(* buffer may fit, the second may need a resize, the last one meets the    *)
(* file limit.                                                             *)
(***************************************************************************)
EXTENDS ShmPool

CONSTANTS small, large

MCKinds == {small, large}
MCBytes == [k \in MCKinds |-> IF k = small THEN 1 ELSE 2]
=============================================================================
