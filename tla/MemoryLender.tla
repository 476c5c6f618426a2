---------------------------- MODULE MemoryLender ----------------------------
(***************************************************************************)
(* What a shared memory pool promises, without buffers, files or mappings: *)
(* it lends ranges of bytes, and a range is lent only while no byte of it  *)
(* is already lent to somebody.                                            *)
(***************************************************************************)
EXTENDS Integers

VARIABLE lent   \* the set of ranges somebody may be reading or writing

Range == [lo : Int, hi : Int]

\* Two ranges [lo, hi) share no byte.
Apart(r, s) == r.hi <= s.lo \/ s.hi <= r.lo

Init == lent = {}

Lend(r) ==
  /\ \A s \in lent : Apart(r, s)
  /\ lent' = lent \union {r}

TakeBack(r) ==
  /\ r \in lent
  /\ lent' = lent \ {r}

TakeAllBack == lent' = {}

Next ==
  \/ \E r \in lent' : r \in Range /\ Lend(r)
  \/ \E r \in lent : TakeBack(r)
  \/ TakeAllBack

Spec == Init /\ [][Next]_lent
=============================================================================
