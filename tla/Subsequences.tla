---------------------------- MODULE Subsequences ----------------------------
(***************************************************************************)
(* What is left of a sequence when some of its elements are dropped, which *)
(* of them comes first, what it is with one more, the elements of a set in *)
(* a row and short sequences joined.  They are found by counting, so that  *)
(* there is no recursion and the provers can follow.                       *)
(***************************************************************************)
EXTENDS Naturals, Sequences, FiniteSets, Functions

\* Which of the places a place is.
Rank(places, k) == Cardinality({j \in places : j <= k})

\* The elements of s at the places, in their order.
Kept(s, places) ==
    [n \in 1 .. Cardinality(places) |-> s[CHOOSE k \in places : Rank(places, k) = n]]

\* The first of the places, 0 when there is none.
First(places) == IF places = {} THEN 0 ELSE CHOOSE k \in places : \A j \in places : k <= j

\* s with x behind its first n elements.
Inserted(s, n, x) ==
    [k \in 1 .. Len(s) + 1 |-> IF k <= n THEN s[k] ELSE IF k = n + 1 THEN x ELSE s[k - 1]]

\* The elements of a set, each once.
Listing(set) == CHOOSE f \in [1 .. Cardinality(set) -> set] : IsInjective(f)

\* The sequences of a list one behind another; none is longer than room.
Joined(list, room) ==
    LET of(k) == list[(k + room - 1) \div room]
        at(k) == ((k - 1) % room) + 1
        places == {k \in 1 .. room * Len(list) : at(k) <= Len(of(k))}
    IN  Kept([k \in places |-> of(k)[at(k)]], places)

=============================================================================
