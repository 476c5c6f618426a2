------------------------------- MODULE Replay -------------------------------
(***************************************************************************)
(* What two ends of a queue know of each other.  A sequence of events leads*)
(* from the state of the end that takes them to the state of the end that  *)
(* sent them: each event moves one state to the next.  The lemmas say that *)
(* this is kept when an event is sent and when one is taken, for every     *)
(* relation R, so that an invariant on a queue of any length is proved from*)
(* what a single event does.                                               *)
(***************************************************************************)
EXTENDS Naturals, Sequences, Subsequences, FiniteSetTheorems, TLAPS

-----------------------------------------------------------------------------
(* A sequence, one behind another, and what is left when one is taken.     *)

LEMMA SeqDomain ==
  ASSUME NEW S, NEW s \in Seq(S)
  PROVE  DOMAIN s = 1 .. Len(s) /\ Len(s) \in Nat
OBVIOUS

LEMMA Element ==
  ASSUME NEW S, NEW s \in Seq(S), NEW k \in DOMAIN s
  PROVE  s[k] \in S
OBVIOUS

\* What is sent is put behind what is on its way.
LEMMA Behind ==
  ASSUME NEW S, NEW s \in Seq(S), NEW t \in Seq(S), NEW all, all = s \o t
  PROVE  /\ DOMAIN s = 1 .. Len(s) /\ Len(s) \in Nat /\ Len(t) \in Nat
         /\ DOMAIN all = 1 .. Len(s) + Len(t) /\ DOMAIN t = 1 .. Len(t)
         /\ \A k \in DOMAIN s : k \in DOMAIN all /\ all[k] = s[k]
         /\ \A k \in DOMAIN all : k \notin DOMAIN s =>
              k - Len(s) \in DOMAIN t /\ all[k] = t[k - Len(s)]
         /\ \A k \in DOMAIN t : Len(s) + k \in DOMAIN all /\ all[Len(s) + k] = t[k]
<1>1. /\ DOMAIN s = 1 .. Len(s) /\ Len(s) \in Nat
      /\ DOMAIN t = 1 .. Len(t) /\ Len(t) \in Nat
      /\ DOMAIN (s \o t) = 1 .. Len(s) + Len(t)
  OBVIOUS
<1>2. \A k \in DOMAIN (s \o t) :
        IF k \in 1 .. Len(s) THEN (s \o t)[k] = s[k] ELSE (s \o t)[k] = t[k - Len(s)]
  OBVIOUS
<1> QED
  BY <1>1, <1>2

LEMMA TailIndices ==
  ASSUME NEW S, NEW s \in Seq(S), s # <<>>, NEW t, t = Tail(s)
  PROVE  /\ 1 \in DOMAIN s /\ Head(s) = s[1]
         /\ \A k \in DOMAIN t : k + 1 \in DOMAIN s /\ t[k] = s[k + 1] /\ k + 1 # 1 /\ k \in Nat
         /\ \A k \in DOMAIN s : k # 1 =>
              k - 1 \in DOMAIN t /\ t[k - 1] = s[k] /\ k = (k - 1) + 1
OBVIOUS

LEMMA ConcatNone ==
  ASSUME NEW S, NEW s \in Seq(S), NEW t \in Seq(S), DOMAIN t = {}
  PROVE  s \o t = s
OBVIOUS

LEMMA ConcatOne ==
  ASSUME NEW S, NEW s \in Seq(S), NEW t \in Seq(S), DOMAIN t = {1}
  PROVE  s \o t = Append(s, t[1])
<1>1. DOMAIN t = 1 .. Len(t) /\ Len(t) \in Nat
  BY SeqDomain
<1>2. Len(t) = 1
  <2>1. 1 \in 1 .. Len(t) /\ 2 \notin 1 .. Len(t)
    BY <1>1
  <2> QED
    BY <1>1, <2>1
<1>3. t[1] \in S
  BY Element
<1> DEFINE a == s \o t
           b == Append(s, t[1])
<1>4. /\ Len(a) = Len(s) + 1 /\ a \in Seq(S) /\ Len(s) \in Nat
      /\ \A k \in 1 .. Len(s) : a[k] = s[k]
      /\ a[Len(s) + 1] = t[1]
  <2>1. Len(a) = Len(s) + Len(t) /\ a \in Seq(S)
    OBVIOUS
  <2>2. DOMAIN a = 1 .. Len(a) /\ DOMAIN s = 1 .. Len(s) /\ Len(s) \in Nat
    BY <2>1, SeqDomain
  <2>3. /\ \A k \in DOMAIN s : a[k] = s[k]
        /\ \A k \in DOMAIN a : k \notin DOMAIN s => a[k] = t[k - Len(s)]
    BY Behind
  <2> HIDE DEF a
  <2> QED
    BY <1>2, <2>1, <2>2, <2>3
<1>5. /\ Len(b) = Len(s) + 1 /\ b \in Seq(S)
      /\ \A k \in 1 .. Len(s) : b[k] = s[k]
      /\ b[Len(s) + 1] = t[1]
  BY <1>3
<1> HIDE DEF a, b
<1>6. \A k \in 1 .. Len(a) : a[k] = b[k]
  BY <1>4, <1>5
<1>7. a = b
  BY <1>4, <1>5, <1>6
<1> QED
  BY <1>7 DEF a, b

LEMMA Associates ==
  ASSUME NEW S, NEW s \in Seq(S), NEW t \in Seq(S), NEW w \in Seq(S)
  PROVE  (s \o t) \o w = s \o (t \o w)
<1>1. /\ (s \o t) \o w \in Seq(S) /\ s \o (t \o w) \in Seq(S)
      /\ Len((s \o t) \o w) = Len(s) + Len(t) + Len(w)
      /\ Len(s \o (t \o w)) = Len(s) + Len(t) + Len(w)
  OBVIOUS
<1>2. \A i \in 1 .. Len(s) + Len(t) + Len(w) : ((s \o t) \o w)[i] = (s \o (t \o w))[i]
  OBVIOUS
<1> DEFINE a == (s \o t) \o w
           b == s \o (t \o w)
<1> HIDE DEF a, b
<1>3. a = b
  BY <1>1, <1>2 DEF a, b
<1> QED
  BY <1>3 DEF a, b

\* A sequence between two elements.
LEMMA Enclosed ==
  ASSUME NEW S, NEW a \in S, NEW b \in S, NEW s \in Seq(S), NEW all,
         all = <<a>> \o s \o <<b>>
  PROVE  /\ <<a>> \in Seq(S) /\ <<a>> = Append(<<>>, a) /\ <<a>> \o s \in Seq(S)
         /\ all \in Seq(S) /\ all = Append(<<a>> \o s, b)
         /\ DOMAIN all = 1 .. Len(s) + 2 /\ all[1] = a /\ all[Len(s) + 2] = b
         /\ \A k \in 1 .. Len(s) : all[k + 1] = s[k]
<1> DEFINE opened == <<a>> \o s
<1>1. /\ opened \in Seq(S) /\ Len(opened) = Len(s) + 1 /\ Len(s) \in Nat
      /\ opened[1] = a /\ \A k \in 1 .. Len(s) : opened[k + 1] = s[k]
  OBVIOUS
<1>2. <<a>> \in Seq(S) /\ <<a>> = Append(<<>>, a)
  OBVIOUS
<1>3. <<b>> \in Seq(S) /\ DOMAIN <<b>> = {1} /\ <<b>>[1] = b /\ all = opened \o <<b>>
  OBVIOUS
<1> HIDE DEF opened
<1>4. all = Append(opened, b)
  BY <1>1, <1>3, ConcatOne
<1>5. \A list \in Seq(S) :
        /\ Append(list, b) \in Seq(S) /\ DOMAIN Append(list, b) = 1 .. Len(list) + 1
        /\ Append(list, b)[Len(list) + 1] = b
        /\ \A k \in 1 .. Len(list) : Append(list, b)[k] = list[k]
  OBVIOUS
<1>6. /\ all \in Seq(S) /\ DOMAIN all = 1 .. Len(opened) + 1 /\ all[Len(opened) + 1] = b
      /\ \A k \in 1 .. Len(opened) : all[k] = opened[k]
  BY <1>1, <1>4, <1>5
<1> QED
  BY <1>1, <1>2, <1>4, <1>6 DEF opened

\* What is left without one element.
LEMMA WithoutOne ==
  ASSUME NEW S, NEW s \in Seq(S), NEW k \in DOMAIN s
  PROVE  LET t == SubSeq(s, 1, k - 1) \o SubSeq(s, k + 1, Len(s))
         IN  /\ t \in Seq(S)
             /\ Len(t) = Len(s) - 1 /\ DOMAIN t = 1 .. Len(s) - 1
             /\ \A n \in 1 .. Len(s) - 1 : t[n] = IF n < k THEN s[n] ELSE s[n + 1]
<1> DEFINE before == SubSeq(s, 1, k - 1)
           after == SubSeq(s, k + 1, Len(s))
           t == before \o after
<1>1. k \in 1 .. Len(s) /\ Len(s) \in Nat
  OBVIOUS
<1>2. /\ before \in Seq(S) /\ Len(before) = k - 1
      /\ \A n \in 1 .. k - 1 : before[n] = s[n]
  BY <1>1
<1>3. /\ after \in Seq(S) /\ Len(after) = Len(s) - k
      /\ \A n \in 1 .. Len(s) - k : after[n] = s[n + k]
  BY <1>1
<1>4. t = before \o after
  OBVIOUS
<1> HIDE DEF before, after, t
<1>5. /\ t \in Seq(S) /\ Len(t) = Len(s) - 1
      /\ \A n \in 1 .. Len(s) - 1 : t[n] = IF n < k THEN s[n] ELSE s[n + 1]
  BY <1>1, <1>2, <1>3, <1>4
<1>6. DOMAIN t = 1 .. Len(s) - 1
  BY <1>5, SeqDomain
<1> QED
  BY <1>5, <1>6 DEF t, before, after

-----------------------------------------------------------------------------
(* The elements of a finite set in a row.                                  *)

LEMMA InARow ==
  ASSUME NEW S, IsFiniteSet(S)
  PROVE  /\ Cardinality(S) \in Nat
         /\ \E f \in [1 .. Cardinality(S) -> S] :
              \A i, j \in 1 .. Cardinality(S) : f[i] = f[j] => i = j
         /\ \A f \in [1 .. Cardinality(S) -> S] :
              (\A i, j \in 1 .. Cardinality(S) : f[i] = f[j] => i = j)
                => /\ f \in Seq(S) /\ Len(f) = Cardinality(S)
                   /\ \A x \in S : \E i \in 1 .. Cardinality(S) : f[i] = x
<1> DEFINE n == Cardinality(S)
<1>1. n \in Nat /\ ExistsBijection(1 .. n, S)
  BY FS_CardinalityType
<1>2. \E f \in [1 .. n -> S] : \A i, j \in 1 .. n : f[i] = f[j] => i = j
  BY <1>1 DEF ExistsBijection, Bijection, Injection, IsInjective
<1>3. ASSUME NEW f \in [1 .. n -> S], \A i, j \in 1 .. n : f[i] = f[j] => i = j
      PROVE  f \in Seq(S) /\ Len(f) = n /\ \A x \in S : \E i \in 1 .. n : f[i] = x
  <2> HIDE DEF n
  <2>1. DOMAIN f = 1 .. n
    OBVIOUS
  <2>2. f \in Injection(1 .. n, S)
    BY <1>3, <2>1 DEF Injection, IsInjective
  <2>3. Cardinality(1 .. n) = n
    BY <1>1, FS_Interval
  <2>4. f \in Surjection(1 .. n, S)
    BY <1>1, <2>2, <2>3, FS_Injection DEF n
  <2>5. f \in Seq(S) /\ Len(f) = n
    BY <1>1
  <2> QED
    BY <2>4, <2>5 DEF Surjection
<1> QED
  BY <1>1, <1>2, <1>3

-----------------------------------------------------------------------------
(* What is kept of a sequence.                                             *)

\* What is kept of a sequence is told by a growing enumeration of the places.
Enumerates(f, places) ==
  /\ f \in [1 .. Cardinality(places) -> places]
  /\ \A i, j \in 1 .. Cardinality(places) : i < j => f[i] < f[j]
  /\ \A k \in places : \E i \in 1 .. Cardinality(places) : f[i] = k

LEMMA RankFacts ==
  ASSUME NEW n \in Nat, NEW places \in SUBSET (1 .. n)
  PROVE  /\ IsFiniteSet(places) /\ Cardinality(places) \in Nat
         /\ \A k \in places : Rank(places, k) \in 1 .. Cardinality(places)
         /\ \A j, k \in places : j < k => Rank(places, j) < Rank(places, k)
         /\ \A m \in 1 .. Cardinality(places) : \E k \in places : Rank(places, k) = m
<1> DEFINE below(k) == {j \in places : j <= k}
           c == Cardinality(places)
<1>1. IsFiniteSet(places) /\ c \in Nat
  <2>1. IsFiniteSet(1 .. n)
    BY FS_Interval
  <2> QED
    BY <2>1, FS_Subset, FS_CardinalityType
<1>2. \A k \in places : k \in 1 .. n /\ k \in Nat
  OBVIOUS
<1>3. ASSUME NEW k \in places
      PROVE  /\ IsFiniteSet(below(k)) /\ Rank(places, k) = Cardinality(below(k))
             /\ Rank(places, k) \in 1 .. c
  <2>1. below(k) \in SUBSET places /\ k \in below(k)
    BY <1>2
  <2>2. IsFiniteSet(below(k)) /\ Cardinality(below(k)) <= c
    <3> HIDE DEF below
    <3> QED
      BY <1>1, <2>1, FS_Subset
  <2>3. Cardinality(below(k)) \in Nat /\ Cardinality(below(k)) # 0
    <3> HIDE DEF below
    <3> QED
      BY <2>1, <2>2, FS_CardinalityType, FS_EmptySet
  <2> QED
    BY <1>1, <2>2, <2>3 DEF Rank
<1>4. ASSUME NEW j \in places, NEW k \in places, j < k
      PROVE  Rank(places, j) < Rank(places, k)
  <2>1. below(j) \in SUBSET below(k) /\ k \in below(k) /\ k \notin below(j)
    <3>1. j \in Nat /\ k \in Nat /\ ~(k <= j) /\ k <= k
      BY <1>2, <1>4
    <3>2. \A i \in places : i <= j => i <= k
      BY <1>2, <3>1, <1>4
    <3> QED
      BY <3>1, <3>2
  <2>2. Cardinality(below(j)) <= Cardinality(below(k)) /\ Cardinality(below(j)) # Cardinality(below(k))
    <3>1. IsFiniteSet(below(k))
      BY <1>3
    <3> HIDE DEF below
    <3> QED
      BY <2>1, <3>1, FS_Subset
  <2>3. Cardinality(below(j)) \in Nat /\ Cardinality(below(k)) \in Nat
    <3>1. IsFiniteSet(below(j)) /\ IsFiniteSet(below(k))
      BY <1>3
    <3> HIDE DEF below
    <3> QED
      BY <3>1, FS_CardinalityType
  <2>4. Rank(places, j) = Cardinality(below(j)) /\ Rank(places, k) = Cardinality(below(k))
    BY DEF Rank
  <2> HIDE DEF below
  <2> QED
    BY <2>2, <2>3, <2>4
<1>5. \A m \in 1 .. c : \E k \in places : Rank(places, k) = m
  <2> DEFINE r == [k \in places |-> Rank(places, k)]
  <2>1. r \in [places -> 1 .. c]
    BY <1>3
  <2>2. \A j, k \in places : r[j] = r[k] => j = k
    <3> TAKE j, k \in places
    <3>1. j < k \/ k < j \/ j = k
      BY <1>2
    <3>2. r[j] \in Nat /\ r[k] \in Nat
      BY <1>1, <2>1
    <3>3. (j < k => r[j] < r[k]) /\ (k < j => r[k] < r[j])
      BY <1>4
    <3> HIDE DEF r
    <3> QED
      BY <3>1, <3>2, <3>3
  <2>3. r \in Injection(places, 1 .. c)
    <3> HIDE DEF r, c
    <3>1. DOMAIN r = places
      BY <2>1
    <3> QED
      BY <2>1, <2>2, <3>1 DEF Injection, IsInjective
  <2>4. IsFiniteSet(1 .. c) /\ Cardinality(1 .. c) = c
    <3> HIDE DEF c
    <3>1. 1 \in Int /\ c \in Int
      BY <1>1
    <3>2. /\ IsFiniteSet(1 .. c)
          /\ Cardinality(1 .. c) = IF 1 > c THEN 0 ELSE c - 1 + 1
      BY <3>1, FS_Interval
    <3> QED
      BY <1>1, <3>2
  <2>5. r \in Surjection(places, 1 .. c)
    <3> HIDE DEF r
    <3> QED
      BY <2>3, <2>4, FS_Injection
  <2>6. \A m \in 1 .. c : \E k \in places : r[k] = m
    <3> HIDE DEF r, c
    <3> QED
      BY <2>5 DEF Surjection
  <2> QED
    BY <2>6
<1> QED
  BY <1>1, <1>3, <1>4, <1>5

LEMMA KeptFacts ==
  ASSUME NEW S, NEW s \in Seq(S), NEW places \in SUBSET DOMAIN s
  PROVE  /\ Kept(s, places) \in Seq(S)
         /\ Len(Kept(s, places)) = Cardinality(places) /\ Cardinality(places) \in Nat
         /\ \E f : /\ Enumerates(f, places)
                   /\ \A i \in 1 .. Cardinality(places) : Kept(s, places)[i] = s[f[i]]
<1> DEFINE c == Cardinality(places)
           f == [i \in 1 .. c |-> CHOOSE k \in places : Rank(places, k) = i]
<1>1. DOMAIN s = 1 .. Len(s) /\ Len(s) \in Nat /\ places \in SUBSET (1 .. Len(s))
  OBVIOUS
<1>2. /\ c \in Nat
      /\ \A k \in places : Rank(places, k) \in 1 .. c
      /\ \A j, k \in places : j < k => Rank(places, j) < Rank(places, k)
      /\ \A m \in 1 .. c : \E k \in places : Rank(places, k) = m
  BY <1>1, RankFacts
<1>3. \A i \in 1 .. c : f[i] \in places /\ Rank(places, f[i]) = i
  <2> HIDE DEF c
  <2> QED
    BY <1>2
<1>4. f \in [1 .. c -> places]
  <2> HIDE DEF c
  <2> QED
    BY <1>3
<1>5. \A k \in places : f[Rank(places, k)] = k
  <2> TAKE k \in places
  <2> DEFINE i == Rank(places, k)
             l == f[i]
  <2>1. i \in 1 .. c /\ k \in Nat
    BY <1>1, <1>2
  <2>2. l \in places /\ Rank(places, l) = i
    BY <1>3, <2>1
  <2>3. l \in Nat
    BY <1>1, <2>2
  <2>4. (l < k => Rank(places, l) < i) /\ (k < l => i < Rank(places, l))
    BY <1>2, <2>2
  <2> HIDE DEF l, i, f, c
  <2>5. l = k
    BY <1>2, <2>1, <2>2, <2>3, <2>4
  <2> QED
    BY <2>5 DEF l, i
<1>6. \A i, j \in 1 .. c : i < j => f[i] < f[j]
  <2> TAKE i, j \in 1 .. c
  <2>1. /\ f[i] \in places /\ Rank(places, f[i]) = i
        /\ f[j] \in places /\ Rank(places, f[j]) = j
    BY <1>3
  <2>2. f[i] \in Nat /\ f[j] \in Nat /\ i \in Nat /\ j \in Nat
    BY <1>1, <1>2, <2>1
  <2>3. f[j] < f[i] => j < i
    <3> HIDE DEF f
    <3> QED
      BY <1>2, <2>1
  <2>4. f[i] = f[j] => i = j
    <3> HIDE DEF f
    <3> QED
      BY <2>1
  <2> HIDE DEF f
  <2> QED
    BY <2>2, <2>3, <2>4
<1>7. Enumerates(f, places)
  <2> HIDE DEF f
  <2>1. \A k \in places : \E i \in 1 .. c : f[i] = k
    BY <1>2, <1>5
  <2> QED
    BY <1>4, <1>6, <2>1 DEF Enumerates
<1>8. Kept(s, places) = [i \in 1 .. c |-> s[f[i]]]
  BY DEF Kept
<1>9. \A i \in 1 .. c : s[f[i]] \in S
  <2> HIDE DEF f
  <2> QED
    BY <1>1, <1>4
<1> HIDE DEF f
<1>10. Kept(s, places) \in Seq(S) /\ Len(Kept(s, places)) = c
  <2> HIDE DEF c
  <2> QED
    BY <1>2, <1>8, <1>9
<1>11. \A i \in 1 .. c : Kept(s, places)[i] = s[f[i]]
  BY <1>8
<1> QED
  BY <1>2, <1>7, <1>10, <1>11

\* What is kept of a sequence was there.
Within(t, s) == \A k \in DOMAIN t : \E j \in DOMAIN s : t[k] = s[j]

BeginsWith(s, t) ==
  /\ Len(s) \in Nat /\ Len(t) \in Nat /\ Len(t) <= Len(s)
  /\ SubSeq(s, 1, Len(t)) = t

\* What is kept of the front of a sequence is the front of what is kept.
LEMMA KeptFront ==
  ASSUME NEW n \in Nat, NEW places \in SUBSET (1 .. n), NEW m \in Nat, NEW s, NEW t,
         NEW below, below = {k \in places : k <= m}, \A k \in below : t[k] = s[k]
  PROVE  BeginsWith(Kept(s, places), Kept(t, below))
<1> DEFINE c == Cardinality(places)
           d == Cardinality(below)
           whole == Kept(s, places)
           front == Kept(t, below)
<1>1. below \in SUBSET places /\ below \in SUBSET (1 .. n)
  OBVIOUS
<1>2. /\ IsFiniteSet(places) /\ c \in Nat
      /\ \A k \in places : Rank(places, k) \in 1 .. c
      /\ \A j, k \in places : j < k => Rank(places, j) < Rank(places, k)
      /\ \A i \in 1 .. c : \E k \in places : Rank(places, k) = i
  BY RankFacts
<1>3. d \in Nat /\ \A i \in 1 .. d : \E k \in below : Rank(below, k) = i
  BY <1>1, RankFacts
<1>4. d <= c
  BY <1>1, <1>2, FS_Subset
<1>5. ASSUME NEW k \in below PROVE Rank(places, k) = Rank(below, k)
  <2>1. {j \in places : j <= k} = {j \in below : j <= k}
    <3>1. k <= m /\ k \in 1 .. n
      BY <1>1
    <3>2. ASSUME NEW j \in places, j <= k PROVE j \in below
      <4>1. j \in 1 .. n
        OBVIOUS
      <4> QED
        BY <3>1, <3>2, <4>1
    <3> QED
      BY <1>1, <3>2
  <2> QED
    BY <2>1 DEF Rank
<1>6. \A j, k \in places : Rank(places, j) = Rank(places, k) => j = k
  <2> TAKE j, k \in places
  <2>1. j \in Nat /\ k \in Nat /\ Rank(places, j) \in Nat /\ Rank(places, k) \in Nat
    BY <1>2
  <2>2. /\ j < k => Rank(places, j) < Rank(places, k)
        /\ k < j => Rank(places, k) < Rank(places, j)
    BY <1>2
  <2> QED
    BY <2>1, <2>2
<1>7. ASSUME NEW i \in 1 .. d PROVE front[i] = whole[i]
  <2>1. PICK k \in below : Rank(below, k) = i
    BY <1>3
  <2>2. k \in places /\ Rank(places, k) = i
    BY <1>1, <1>5, <2>1
  <2>3. \A j \in below : Rank(below, j) = i => j = k
    BY <1>1, <1>5, <1>6, <2>2
  <2>4. (CHOOSE j \in below : Rank(below, j) = i) = k
    BY <2>1, <2>3
  <2>5. (CHOOSE j \in places : Rank(places, j) = i) = k
    BY <1>6, <2>2
  <2>6. i \in 1 .. c
    BY <1>2, <1>3, <1>4
  <2>7. front[i] = t[k]
    BY <2>4 DEF Kept
  <2>8. whole[i] = s[k]
    BY <2>5, <2>6 DEF Kept
  <2> QED
    BY <2>7, <2>8
<1>8. whole \in Seq({s[k] : k \in places}) /\ Len(whole) = c
  <2>1. \A i \in 1 .. c : (CHOOSE k \in places : Rank(places, k) = i) \in places
    BY <1>2
  <2>2. whole \in [1 .. c -> {s[k] : k \in places}]
    BY <2>1 DEF Kept
  <2>3. c \in Nat
    BY <1>2
  <2> HIDE DEF whole, c
  <2> QED
    BY <2>2, <2>3
<1>9. front \in Seq({t[k] : k \in below}) /\ Len(front) = d
  <2>1. \A i \in 1 .. d : (CHOOSE k \in below : Rank(below, k) = i) \in below
    BY <1>3
  <2>2. front \in [1 .. d -> {t[k] : k \in below}]
    BY <2>1 DEF Kept
  <2> HIDE DEF front, d
  <2> QED
    BY <1>3, <2>2
<1> HIDE DEF whole, front, BeginsWith, c, d
<1>10. front = [i \in 1 .. d |-> front[i]]
  BY <1>9
<1>11. SubSeq(whole, 1, d) = [i \in 1 .. d |-> whole[i]]
  BY <1>3, <1>4, <1>2, <1>8
<1>12. SubSeq(whole, 1, Len(front)) = front
  BY <1>7, <1>9, <1>10, <1>11
<1> QED
  BY <1>2, <1>3, <1>4, <1>8, <1>9, <1>12 DEF whole, front, BeginsWith

\* What is kept of anything is a sequence.
LEMMA KeptSomething ==
  ASSUME NEW n \in Nat, NEW places \in SUBSET (1 .. n), NEW s
  PROVE  \E S : Kept(s, places) \in Seq(S)
<1> DEFINE c == Cardinality(places)
           whole == Kept(s, places)
<1>1. c \in Nat
  BY RankFacts
<1>2. whole \in [1 .. c -> {whole[i] : i \in 1 .. c}]
  BY DEF Kept
<1>3. whole \in Seq({whole[i] : i \in 1 .. c})
  <2> HIDE DEF c, whole
  <2> QED
    BY <1>1, <1>2
<1> QED
  BY <1>3

LEMMA KeptWithin ==
  ASSUME NEW S, NEW s \in Seq(S), NEW places \in SUBSET DOMAIN s
  PROVE  Kept(s, places) \in Seq(S) /\ Within(Kept(s, places), s)
<1>1. PICK f : /\ Enumerates(f, places)
               /\ \A i \in 1 .. Cardinality(places) : Kept(s, places)[i] = s[f[i]]
  BY KeptFacts
<1> DEFINE t == Kept(s, places)
<1>2. t \in Seq(S) /\ Len(t) = Cardinality(places) /\ Cardinality(places) \in Nat
  BY KeptFacts
<1>3. \A i \in 1 .. Cardinality(places) : f[i] \in places
  BY <1>1 DEF Enumerates
<1> HIDE DEF t
<1>4. \A i \in DOMAIN t : f[i] \in DOMAIN s /\ t[i] = s[f[i]]
  BY <1>1, <1>2, <1>3 DEF t
<1> QED
  BY <1>2, <1>4 DEF Within, t

\* Two sequences keep the same places.
Alike(a, s, b, t) ==
  /\ DOMAIN a = DOMAIN b
  /\ \A m \in DOMAIN a : \E k \in DOMAIN s : a[m] = s[k] /\ b[m] = t[k]

LEMMA KeptAlike ==
  ASSUME NEW S, NEW s \in Seq(S), NEW places \in SUBSET DOMAIN s, NEW t
  PROVE  Alike(Kept(s, places), s, Kept(t, places), t)
<1> DEFINE c == Cardinality(places)
           f == [m \in 1 .. c |-> CHOOSE k \in places : Rank(places, k) = m]
<1>1. \A m \in 1 .. c : \E k \in places : Rank(places, k) = m
  <2>1. Len(s) \in Nat /\ places \in SUBSET (1 .. Len(s))
    BY SeqDomain
  <2> QED
    BY <2>1, RankFacts
<1>2. \A m \in 1 .. c : f[m] \in DOMAIN s
  BY <1>1
<1>3. \A m \in 1 .. c : Kept(s, places)[m] = s[f[m]] /\ Kept(t, places)[m] = t[f[m]]
  BY DEF Kept
<1>4. DOMAIN Kept(s, places) = 1 .. c /\ DOMAIN Kept(t, places) = 1 .. c
  BY DEF Kept
<1> HIDE DEF f, c
<1> QED
  BY <1>2, <1>3, <1>4 DEF Alike

\* Each place is kept somewhere.
LEMMA KeptCovers ==
  ASSUME NEW S, NEW s \in Seq(S), NEW places \in SUBSET DOMAIN s, NEW j \in places
  PROVE  \E k \in DOMAIN Kept(s, places) : Kept(s, places)[k] = s[j]
<1>1. PICK f : /\ Enumerates(f, places)
               /\ \A i \in 1 .. Cardinality(places) : Kept(s, places)[i] = s[f[i]]
  BY KeptFacts
<1>2. \E i \in 1 .. Cardinality(places) : f[i] = j
  BY <1>1 DEF Enumerates
<1>3. DOMAIN Kept(s, places) = 1 .. Cardinality(places)
  BY DEF Kept
<1> QED
  BY <1>1, <1>2, <1>3

-----------------------------------------------------------------------------
(* One element more, one element less.                                     *)

\* A sequence has one more element.
LEMMA InsertedFacts ==
  ASSUME NEW S, NEW s \in Seq(S), NEW n \in 0 .. Len(s), NEW x \in S,
         NEW t, t = Inserted(s, n, x)
  PROVE  /\ t \in Seq(S) /\ DOMAIN t = 1 .. Len(s) + 1 /\ n + 1 \in DOMAIN t /\ t[n + 1] = x
         /\ Len(s) \in Nat /\ DOMAIN s = 1 .. Len(s) /\ n \in Nat
         /\ \A k \in DOMAIN t :
              /\ k <= n => k \in DOMAIN s /\ t[k] = s[k]
              /\ k > n + 1 => k - 1 \in DOMAIN s /\ t[k] = s[k - 1]
         /\ \A k \in DOMAIN s :
              /\ k <= n => k \in DOMAIN t /\ t[k] = s[k]
              /\ k > n => k + 1 \in DOMAIN t /\ t[k + 1] = s[k]
<1>1. Len(s) \in Nat /\ DOMAIN s = 1 .. Len(s) /\ \A k \in 1 .. Len(s) : s[k] \in S
  OBVIOUS
<1>2. /\ DOMAIN t = 1 .. Len(s) + 1
      /\ \A k \in 1 .. Len(s) + 1 :
           t[k] = IF k <= n THEN s[k] ELSE IF k = n + 1 THEN x ELSE s[k - 1]
  BY DEF Inserted
<1>3. t \in Seq(S)
  <2>1. \A k \in 1 .. Len(s) + 1 :
          (IF k <= n THEN s[k] ELSE IF k = n + 1 THEN x ELSE s[k - 1]) \in S
    BY <1>1
  <2>2. t = [k \in 1 .. Len(s) + 1 |->
               IF k <= n THEN s[k] ELSE IF k = n + 1 THEN x ELSE s[k - 1]]
    BY DEF Inserted
  <2>3. t \in [1 .. Len(s) + 1 -> S]
    BY <2>1, <2>2
  <2>4. Len(s) + 1 \in Nat
    BY <1>1
  <2> QED
    BY <2>3, <2>4
<1>4. n + 1 \in DOMAIN t /\ t[n + 1] = x /\ n \in Nat
  BY <1>1, <1>2
<1>5. \A k \in DOMAIN t :
        /\ k <= n => k \in DOMAIN s /\ t[k] = s[k]
        /\ k > n + 1 => k - 1 \in DOMAIN s /\ t[k] = s[k - 1]
  BY <1>1, <1>2
<1>6. \A k \in DOMAIN s :
        /\ k <= n => k \in DOMAIN t /\ t[k] = s[k]
        /\ k > n => k + 1 \in DOMAIN t /\ t[k + 1] = s[k]
  BY <1>1, <1>2
<1> QED
  BY <1>1, <1>2, <1>3, <1>4, <1>5, <1>6

Apart(s) == \A i, j \in DOMAIN s : s[i] = s[j] => i = j
Has(s, x) == \E i \in DOMAIN s : s[i] = x
Less(s, x) == Kept(s, {k \in DOMAIN s : s[k] # x})

LEMMA InsertedHas ==
  ASSUME NEW S, NEW s \in Seq(S), NEW n \in 0 .. Len(s), NEW x \in S
  PROVE  /\ Has(Inserted(s, n, x), x)
         /\ \A y : Has(Inserted(s, n, x), y) <=> y = x \/ Has(s, y)
         /\ Apart(s) /\ ~Has(s, x) => Apart(Inserted(s, n, x))
<1> DEFINE t == Inserted(s, n, x)
<1>1. /\ DOMAIN t = 1 .. Len(s) + 1 /\ n + 1 \in DOMAIN t /\ t[n + 1] = x
      /\ Len(s) \in Nat /\ DOMAIN s = 1 .. Len(s) /\ n \in Nat
      /\ \A k \in DOMAIN t :
           /\ k <= n => k \in DOMAIN s /\ t[k] = s[k]
           /\ k > n + 1 => k - 1 \in DOMAIN s /\ t[k] = s[k - 1]
      /\ \A k \in DOMAIN s :
           /\ k <= n => k \in DOMAIN t /\ t[k] = s[k]
           /\ k > n => k + 1 \in DOMAIN t /\ t[k + 1] = s[k]
  BY InsertedFacts
<1> HIDE DEF t
<1>2. \A k \in DOMAIN t : k <= n \/ k = n + 1 \/ k > n + 1
  BY <1>1
<1>3. \A y : Has(t, y) => y = x \/ Has(s, y)
  BY <1>1, <1>2 DEF Has
<1>4. \A y : Has(s, y) => Has(t, y)
  <2>1. \A k \in DOMAIN s : k <= n \/ k > n
    BY <1>1
  <2> QED
    BY <1>1, <2>1 DEF Has
<1>5. ASSUME Apart(s), ~Has(s, x) PROVE Apart(t)
  <2> SUFFICES ASSUME NEW i \in DOMAIN t, NEW j \in DOMAIN t, t[i] = t[j] PROVE i = j
    BY DEF Apart
  <2>1. /\ i <= n => i \in DOMAIN s /\ t[i] = s[i]
        /\ j <= n => j \in DOMAIN s /\ t[j] = s[j]
        /\ i > n + 1 => i - 1 \in DOMAIN s /\ t[i] = s[i - 1]
        /\ j > n + 1 => j - 1 \in DOMAIN s /\ t[j] = s[j - 1]
    BY <1>1
  <2>2. \A k \in DOMAIN s : s[k] # x
    BY <1>5 DEF Has
  <2>3. \A k, l \in DOMAIN s : s[k] = s[l] => k = l
    BY <1>5 DEF Apart
  <2>4. i = n + 1 => t[i] = x
    BY <1>1
  <2>5. j = n + 1 => t[j] = x
    BY <1>1
  <2>6. i \in Nat /\ j \in Nat /\ n \in Nat
    BY <1>1
  <2> QED
    BY <2>1, <2>2, <2>3, <2>4, <2>5, <2>6
<1>6. Has(t, x)
  BY <1>1 DEF Has
<1> QED
  BY <1>3, <1>4, <1>5, <1>6 DEF t

LEMMA LessFacts ==
  ASSUME NEW S, NEW s \in Seq(S), NEW x
  PROVE  /\ Less(s, x) \in Seq(S)
         /\ \A y : Has(Less(s, x), y) <=> y # x /\ Has(s, y)
         /\ Apart(s) => Apart(Less(s, x))
<1> DEFINE t == Less(s, x)
           places == {k \in DOMAIN s : s[k] # x}
           c == Cardinality(places)
<1>1. places \in SUBSET DOMAIN s /\ t = Kept(s, places)
  BY DEF Less
<1>p. /\ \A k \in places : k \in DOMAIN s /\ s[k] # x
      /\ \A k \in DOMAIN s : s[k] # x => k \in places
  OBVIOUS
<1> HIDE DEF places
<1>2. PICK f : /\ Enumerates(f, places)
               /\ \A i \in 1 .. Cardinality(places) : Kept(s, places)[i] = s[f[i]]
  BY <1>1, KeptFacts
<1>3. t \in Seq(S) /\ Len(t) = Cardinality(places) /\ Cardinality(places) \in Nat
  BY <1>1, KeptFacts
<1>4. /\ \A i \in 1 .. c : f[i] \in places
      /\ \A k \in places : \E i \in 1 .. c : f[i] = k
      /\ \A i, j \in 1 .. c : i < j => f[i] < f[j]
  BY <1>2 DEF Enumerates
<1> HIDE DEF t
<1>5. DOMAIN t = 1 .. c /\ \A i \in 1 .. c : t[i] = s[f[i]]
  BY <1>1, <1>2, <1>3
<1>6. c \in Nat /\ DOMAIN s = 1 .. Len(s) /\ Len(s) \in Nat
  BY <1>3
<1> HIDE DEF c
<1>7. \A y : Has(t, y) <=> y # x /\ Has(s, y)
  BY <1>p, <1>4, <1>5 DEF Has
<1>8. ASSUME Apart(s) PROVE Apart(t)
  <2> SUFFICES ASSUME NEW i \in 1 .. c, NEW j \in 1 .. c, s[f[i]] = s[f[j]] PROVE i = j
    BY <1>5 DEF Apart
  <2>1. f[i] \in DOMAIN s /\ f[j] \in DOMAIN s
    BY <1>p, <1>4
  <2>2. f[i] = f[j]
    BY <1>8, <2>1 DEF Apart
  <2>3. f[i] \in Nat /\ f[j] \in Nat
    BY <1>6, <2>1
  <2> QED
    BY <1>4, <1>6, <2>2, <2>3
<1> QED
  BY <1>3, <1>7, <1>8 DEF t

LEMMA ListingFacts ==
  ASSUME NEW S, IsFiniteSet(S)
  PROVE  Listing(S) \in Seq(S) /\ \A x \in S : Has(Listing(S), x)
<1> DEFINE n == Cardinality(S)
           good(f) == \A i, j \in 1 .. n : f[i] = f[j] => i = j
<1>1. /\ n \in Nat
      /\ \E f \in [1 .. n -> S] : good(f)
      /\ \A f \in [1 .. n -> S] : good(f) =>
           f \in Seq(S) /\ Len(f) = n /\ \A x \in S : \E i \in 1 .. n : f[i] = x
  BY InARow
<1>2. \A f \in [1 .. n -> S] : IsInjective(f) <=> good(f)
  BY DEF IsInjective
<1> HIDE DEF n, good
<1>3. Listing(S) = CHOOSE f \in [1 .. n -> S] : IsInjective(f)
  BY DEF Listing, n
<1>4. \E f \in [1 .. n -> S] : IsInjective(f)
  BY <1>1, <1>2
<1>5. Listing(S) \in [1 .. n -> S] /\ IsInjective(Listing(S))
  BY <1>3, <1>4
<1>6. good(Listing(S))
  BY <1>2, <1>5
<1>7. /\ Listing(S) \in Seq(S) /\ Len(Listing(S)) = n
      /\ \A x \in S : \E i \in 1 .. n : Listing(S)[i] = x
  BY <1>1, <1>5, <1>6
<1>8. DOMAIN Listing(S) = 1 .. n
  BY <1>5
<1> QED
  BY <1>7, <1>8 DEF Has

-----------------------------------------------------------------------------
(* Replaying.                                                              *)

\* R is a set of triples: a state, an event, the state after it.
Leads(S, R, s, es, t) ==
  \E h \in [0 .. Len(es) -> S] :
    /\ h[0] = s /\ h[Len(es)] = t
    /\ \A k \in 1 .. Len(es) : <<h[k - 1], es[k], h[k]>> \in R

LEMMA LeadsNowhere ==
  ASSUME NEW S, NEW R, NEW s \in S
  PROVE  /\ Leads(S, R, s, <<>>, s)
         /\ \A t : Leads(S, R, s, <<>>, t) => t = s
<1>1. Leads(S, R, s, <<>>, s)
  <2> DEFINE h == [k \in {0} |-> s]
  <2>1. h \in [{0} -> S] /\ h[0] = s
    OBVIOUS
  <2>2. 0 .. Len(<<>>) = {0} /\ Len(<<>>) = 0 /\ 1 .. Len(<<>>) = {}
    OBVIOUS
  <2> QED
    BY <2>1, <2>2 DEF Leads
<1>2. \A t : Leads(S, R, s, <<>>, t) => t = s
  BY DEF Leads
<1> QED
  BY <1>1, <1>2

\* An event is sent.
LEMMA LeadsOn ==
  ASSUME NEW S, NEW R, NEW E, NEW es \in Seq(E), NEW e \in E,
         NEW s, NEW t, NEW u \in S,
         Leads(S, R, s, es, t), <<t, e, u>> \in R
  PROVE  Leads(S, R, s, Append(es, e), u)
<1> PICK h \in [0 .. Len(es) -> S] :
       /\ h[0] = s /\ h[Len(es)] = t
       /\ \A k \in 1 .. Len(es) : <<h[k - 1], es[k], h[k]>> \in R
  BY DEF Leads
<1> DEFINE n == Len(es)
           g == [k \in 0 .. n + 1 |-> IF k = n + 1 THEN u ELSE h[k]]
<1>1. n \in Nat /\ Len(Append(es, e)) = n + 1 /\ Append(es, e)[n + 1] = e
        /\ \A k \in 1 .. n : Append(es, e)[k] = es[k]
  OBVIOUS
<1>2. g \in [0 .. n + 1 -> S] /\ g[n + 1] = u /\ \A k \in 0 .. n : g[k] = h[k]
  BY <1>1
<1> HIDE DEF g
<1>3. ASSUME NEW k \in 1 .. n + 1
      PROVE  <<g[k - 1], Append(es, e)[k], g[k]>> \in R
  <2>1. CASE k \in 1 .. n
    <3>1. k - 1 \in 0 .. n /\ k \in 0 .. n
      BY <1>1, <2>1
    <3> QED
      BY <1>1, <1>2, <2>1, <3>1
  <2>2. CASE k = n + 1
    <3>1. k - 1 = n /\ n \in 0 .. n
      BY <1>1, <2>2
    <3> QED
      BY <1>1, <1>2, <2>2, <3>1
  <2>3. k \in 1 .. n \/ k = n + 1
    BY <1>1
  <2> QED
    BY <2>1, <2>2, <2>3
<1>4. g[0] = s
  BY <1>1, <1>2
<1> QED
  BY <1>1, <1>2, <1>3, <1>4 DEF Leads

\* An event is taken.
LEMMA LeadsFrom ==
  ASSUME NEW S, NEW R, NEW E, NEW es \in Seq(E), es # <<>>,
         NEW s, NEW t, Leads(S, R, s, es, t)
  PROVE  \E r \in S : <<s, Head(es), r>> \in R /\ Leads(S, R, r, Tail(es), t)
<1> PICK h \in [0 .. Len(es) -> S] :
       /\ h[0] = s /\ h[Len(es)] = t
       /\ \A k \in 1 .. Len(es) : <<h[k - 1], es[k], h[k]>> \in R
  BY DEF Leads
<1> DEFINE n == Len(es) - 1
           g == [k \in 0 .. n |-> h[k + 1]]
<1>1. /\ n \in Nat /\ Len(Tail(es)) = n /\ Len(es) = n + 1 /\ Head(es) = es[1]
      /\ \A k \in 1 .. n : Tail(es)[k] = es[k + 1]
  OBVIOUS
<1>2. g \in [0 .. n -> S] /\ \A k \in 0 .. n : g[k] = h[k + 1]
  BY <1>1
<1> HIDE DEF g, n
<1>3. ASSUME NEW k \in 1 .. n
      PROVE  <<g[k - 1], Tail(es)[k], g[k]>> \in R
  <2>1. k - 1 \in 0 .. n /\ k \in 0 .. n /\ k + 1 \in 1 .. n + 1 /\ (k - 1) + 1 = k /\ (k + 1) - 1 = k
    BY <1>1
  <2>2. <<h[(k + 1) - 1], es[k + 1], h[k + 1]>> \in R
    BY <1>1, <2>1
  <2>3. g[k - 1] = h[k] /\ g[k] = h[k + 1] /\ Tail(es)[k] = es[k + 1]
    BY <1>1, <1>2, <2>1
  <2> QED
    BY <2>1, <2>2, <2>3
<1>4. g[0] \in S /\ g[0] = h[1] /\ g[n] = h[n + 1]
  BY <1>1, <1>2
<1>5. <<s, Head(es), g[0]>> \in R
  <2>1. <<h[1 - 1], es[1], h[1]>> \in R
    BY <1>1
  <2> QED
    BY <1>1, <1>4, <2>1
<1>6. Leads(S, R, g[0], Tail(es), t)
  BY <1>1, <1>2, <1>3, <1>4 DEF Leads
<1> QED
  BY <1>4, <1>5, <1>6

\* One sequence behind another.
LEMMA LeadsThrough ==
  ASSUME NEW S, NEW R, NEW E, NEW es \in Seq(E), NEW fs \in Seq(E),
         NEW s, NEW t, NEW u, Leads(S, R, s, es, t), Leads(S, R, t, fs, u)
  PROVE  Leads(S, R, s, es \o fs, u)
<1> PICK h \in [0 .. Len(es) -> S] :
       /\ h[0] = s /\ h[Len(es)] = t
       /\ \A k \in 1 .. Len(es) : <<h[k - 1], es[k], h[k]>> \in R
  BY DEF Leads
<1> PICK i \in [0 .. Len(fs) -> S] :
       /\ i[0] = t /\ i[Len(fs)] = u
       /\ \A k \in 1 .. Len(fs) : <<i[k - 1], fs[k], i[k]>> \in R
  BY DEF Leads
<1> DEFINE m == Len(es)
           n == Len(fs)
           g == [k \in 0 .. m + n |-> IF k <= m THEN h[k] ELSE i[k - m]]
           all == es \o fs
<1>1. /\ m \in Nat /\ n \in Nat /\ Len(all) = m + n
      /\ \A k \in 1 .. m : all[k] = es[k]
      /\ \A k \in 1 .. m + n : k > m => all[k] = fs[k - m]
  OBVIOUS
<1>2. /\ g \in [0 .. m + n -> S]
      /\ \A k \in 0 .. m + n : IF k <= m THEN g[k] = h[k] ELSE g[k] = i[k - m]
  BY <1>1
<1> HIDE DEF g, all, m, n
<1>3. \A k \in 0 .. m + n : k >= m => g[k] = i[k - m]
  <2> SUFFICES ASSUME NEW k \in 0 .. m + n, k >= m PROVE g[k] = i[k - m]
    OBVIOUS
  <2>1. CASE k = m
    BY <1>1, <1>2, <2>1 DEF m
  <2>2. CASE k > m
    BY <1>1, <1>2, <2>2
  <2> QED
    BY <1>1, <2>1, <2>2
<1>4. ASSUME NEW k \in 1 .. m + n
      PROVE  <<g[k - 1], all[k], g[k]>> \in R
  <2>1. CASE k <= m
    <3>1. k \in 1 .. m /\ k - 1 \in 0 .. m + n /\ k \in 0 .. m + n /\ k - 1 <= m
      BY <1>1, <2>1
    <3>2. <<h[k - 1], es[k], h[k]>> \in R
      BY <3>1 DEF m
    <3> QED
      BY <1>1, <1>2, <2>1, <3>1, <3>2
  <2>2. CASE k > m
    <3>1. k - m \in 1 .. n /\ k - 1 \in 0 .. m + n /\ k - 1 >= m /\ (k - 1) - m = (k - m) - 1
      BY <1>1, <2>2
    <3>2. <<i[(k - m) - 1], fs[k - m], i[k - m]>> \in R
      BY <3>1 DEF n
    <3>3. g[k - 1] = i[(k - m) - 1]
      BY <1>3, <3>1
    <3>4. k \in 0 .. m + n /\ k >= m
      BY <1>1, <2>2
    <3>5. g[k] = i[k - m]
      BY <1>3, <3>4
    <3> QED
      BY <1>1, <2>2, <3>2, <3>3, <3>5
  <2> QED
    BY <1>1, <2>1, <2>2
<1>5. g[0] = s /\ g[m + n] = u
  <2>1. g[0] = h[0]
    BY <1>1, <1>2
  <2>2. g[m + n] = i[(m + n) - m]
    BY <1>1, <1>3
  <2>3. (m + n) - m = n
    BY <1>1
  <2> QED
    BY <2>1, <2>2, <2>3 DEF n
<1>6. Len(all) = m + n /\ m + n \in Nat
  BY <1>1
<1> QED
  BY <1>2, <1>4, <1>5, <1>6 DEF Leads, all


\* A state that no event changes.
LEMMA LeadsSame ==
  ASSUME NEW S, NEW R, NEW E, NEW es \in Seq(E), NEW s \in S,
         \A k \in DOMAIN es : <<s, es[k], s>> \in R
  PROVE  Leads(S, R, s, es, s)
<1> DEFINE h == [k \in 0 .. Len(es) |-> s]
<1>1. Len(es) \in Nat /\ DOMAIN es = 1 .. Len(es)
  BY SeqDomain
<1>2. h \in [0 .. Len(es) -> S] /\ \A k \in 0 .. Len(es) : h[k] = s
  OBVIOUS
<1> HIDE DEF h
<1>3. \A k \in 1 .. Len(es) : h[k - 1] = s /\ h[k] = s
  BY <1>1, <1>2
<1>4. h[0] = s /\ h[Len(es)] = s
  BY <1>1, <1>2
<1> QED
  BY <1>1, <1>2, <1>3, <1>4 DEF Leads


\* Events of which each one leads to the same state.
LEMMA LeadsAnyway ==
  ASSUME NEW S, NEW R, NEW E, NEW es \in Seq(E), es # <<>>, NEW s \in S, NEW u \in S,
         \A k \in DOMAIN es : \A x \in S : <<x, es[k], u>> \in R
  PROVE  Leads(S, R, s, es, u)
<1> DEFINE h == [k \in 0 .. Len(es) |-> IF k = 0 THEN s ELSE u]
<1>1. Len(es) \in Nat \ {0} /\ DOMAIN es = 1 .. Len(es)
  BY SeqDomain
<1>2. h \in [0 .. Len(es) -> S] /\ h[0] = s /\ \A k \in 1 .. Len(es) : h[k] = u
  BY <1>1
<1> HIDE DEF h
<1>3. \A k \in 1 .. Len(es) : h[k - 1] \in S
  BY <1>1, <1>2
<1>4. h[Len(es)] = u
  BY <1>1, <1>2
<1> QED
  BY <1>1, <1>2, <1>3, <1>4 DEF Leads

\* Events of which one changes the state.
LEMMA LeadsOnce ==
  ASSUME NEW S, NEW R, NEW E, NEW es \in Seq(E), NEW s \in S, NEW u \in S,
         NEW n \in DOMAIN es, <<s, es[n], u>> \in R,
         \A k \in DOMAIN es : /\ k < n => <<s, es[k], s>> \in R
                              /\ k > n => <<u, es[k], u>> \in R
  PROVE  Leads(S, R, s, es, u)
<1> DEFINE h == [k \in 0 .. Len(es) |-> IF k < n THEN s ELSE u]
<1>1. Len(es) \in Nat \ {0} /\ DOMAIN es = 1 .. Len(es)
  BY SeqDomain
<1>2. h \in [0 .. Len(es) -> S] /\ \A k \in 0 .. Len(es) : h[k] = IF k < n THEN s ELSE u
  BY <1>1
<1> HIDE DEF h
<1>3. ASSUME NEW k \in 1 .. Len(es) PROVE <<h[k - 1], es[k], h[k]>> \in R
  <2>1. k - 1 \in 0 .. Len(es) /\ k \in 0 .. Len(es)
    BY <1>1
  <2>2. CASE k < n
    <3>1. h[k - 1] = s /\ h[k] = s
      BY <1>1, <1>2, <2>1, <2>2
    <3> QED
      BY <1>1, <2>2, <3>1
  <2>3. CASE k = n
    <3>1. h[k - 1] = s /\ h[k] = u
      BY <1>1, <1>2, <2>1, <2>3
    <3> QED
      BY <2>3, <3>1
  <2>4. CASE k > n
    <3>1. h[k - 1] = u /\ h[k] = u
      BY <1>1, <1>2, <2>1, <2>4
    <3> QED
      BY <1>1, <2>4, <3>1
  <2> QED
    BY <1>1, <2>2, <2>3, <2>4
<1>4. h[0] = s /\ h[Len(es)] = u
  BY <1>1, <1>2
<1> QED
  BY <1>2, <1>3, <1>4 DEF Leads

\* The first of some places is one of them.
LEMMA FirstFacts ==
  ASSUME NEW n \in Nat, NEW places \in SUBSET (1 .. n)
  PROVE  IF places = {} THEN First(places) = 0
         ELSE First(places) \in places /\ \A k \in places : First(places) <= k
<1>1. CASE places = {}
  BY <1>1 DEF First
<1>2. CASE places # {}
  <2>1. PICK i \in places : TRUE
    BY <1>2
  <2>2. /\ Cardinality(places) \in Nat
        /\ Rank(places, i) \in 1 .. Cardinality(places)
        /\ \A k \in places : Rank(places, k) \in 1 .. Cardinality(places)
        /\ \A j, k \in places : j < k => Rank(places, j) < Rank(places, k)
        /\ \A m \in 1 .. Cardinality(places) : \E k \in places : Rank(places, k) = m
    BY <2>1, RankFacts
  <2>3. PICK k \in places : Rank(places, k) = 1
    BY <2>2
  <2>4. ASSUME NEW j \in places PROVE k <= j
    <3>1. j < k => Rank(places, j) < 1
      BY <2>2, <2>3
    <3>2. Rank(places, j) \in 1 .. Cardinality(places)
      BY <2>2
    <3> QED
      BY <2>2, <3>1, <3>2
  <2>5. \E l \in places : \A j \in places : l <= j
    BY <2>4
  <2> QED
    BY <1>2, <2>5 DEF First
<1> QED
  BY <1>1, <1>2

-----------------------------------------------------------------------------
(* What the last event of some kinds decides: it is a good one, or there   *)
(* is none and what it would have decided is so already.                   *)

NoneOf(es, K) == \A k \in DOMAIN es : es[k].kind \notin K
IsLast(es, K, k) ==
  es[k].kind \in K /\ \A j \in DOMAIN es : es[j].kind \in K => j <= k
Decided(es, K, good, so) ==
  /\ NoneOf(es, K) => so
  /\ \A k \in DOMAIN es : IsLast(es, K, k) => es[k] \in good

LEMMA NoneOfSent ==
  ASSUME NEW E, NEW es \in Seq(E), NEW e \in E, NEW K, e.kind \notin K, NoneOf(es, K)
  PROVE  NoneOf(Append(es, e), K)
<1>1. /\ Len(es) \in Nat /\ DOMAIN es = 1 .. Len(es)
      /\ DOMAIN Append(es, e) = 1 .. Len(es) + 1
      /\ Append(es, e)[Len(es) + 1] = e
      /\ \A k \in 1 .. Len(es) : Append(es, e)[k] = es[k]
  OBVIOUS
<1> QED
  BY <1>1 DEF NoneOf

LEMMA NoneOfTaken ==
  ASSUME NEW E, NEW es \in Seq(E), es # <<>>, NEW K, NoneOf(es, K)
  PROVE  NoneOf(Tail(es), K) /\ Head(es).kind \notin K
<1>1. /\ 1 \in DOMAIN es /\ Head(es) = es[1]
      /\ \A k \in DOMAIN Tail(es) : k + 1 \in DOMAIN es /\ Tail(es)[k] = es[k + 1]
  BY TailIndices
<1> QED
  BY <1>1 DEF NoneOf

LEMMA DecidedSent ==
  ASSUME NEW E, NEW es \in Seq(E), NEW e \in E, NEW K, NEW good, NEW so,
         IF e.kind \in K THEN e \in good ELSE Decided(es, K, good, so)
  PROVE  Decided(Append(es, e), K, good, so)
<1> DEFINE n == Len(es)
           all == Append(es, e)
<1>1. /\ n \in Nat /\ DOMAIN es = 1 .. n /\ DOMAIN all = 1 .. n + 1
      /\ all[n + 1] = e /\ \A k \in 1 .. n : all[k] = es[k]
  OBVIOUS
<1> HIDE DEF n, all
<1>2. CASE e.kind \in K
  <2>1. ~NoneOf(all, K)
    BY <1>1, <1>2 DEF NoneOf
  <2>2. ASSUME NEW k \in DOMAIN all, IsLast(all, K, k) PROVE all[k] \in good
    <3>1. n + 1 <= k
      BY <1>1, <1>2, <2>2 DEF IsLast
    <3>2. k = n + 1
      BY <1>1, <3>1
    <3> QED
      BY <1>1, <1>2, <3>2
  <2> QED
    BY <2>1, <2>2 DEF Decided, all
<1>3. CASE e.kind \notin K
  <2>1. NoneOf(all, K) => NoneOf(es, K)
    BY <1>1 DEF NoneOf
  <2>2. ASSUME NEW k \in DOMAIN all, IsLast(all, K, k) PROVE all[k] \in good
    <3>1. k \in DOMAIN es
      <4>1. k # n + 1
        BY <1>1, <1>3, <2>2 DEF IsLast
      <4> QED
        BY <1>1, <4>1
    <3>2. IsLast(es, K, k)
      BY <1>1, <2>2, <3>1 DEF IsLast
    <3> QED
      BY <1>1, <1>3, <3>1, <3>2 DEF Decided
  <2> QED
    BY <1>3, <2>1, <2>2 DEF Decided, all
<1> QED
  BY <1>2, <1>3

LEMMA DecidedTaken ==
  ASSUME NEW E, NEW es \in Seq(E), es # <<>>, NEW K, NEW good, NEW so,
         Decided(es, K, good, so)
  PROVE  /\ Head(es).kind \in K => Decided(Tail(es), K, good, Head(es) \in good)
         /\ Head(es).kind \notin K => Decided(Tail(es), K, good, so)
<1> DEFINE t == Tail(es)
           e == Head(es)
<1>1. /\ 1 \in DOMAIN es /\ e = es[1]
      /\ \A k \in DOMAIN t : k + 1 \in DOMAIN es /\ t[k] = es[k + 1] /\ k \in Nat
      /\ \A k \in DOMAIN es : k # 1 =>
           k - 1 \in DOMAIN t /\ t[k - 1] = es[k] /\ k = (k - 1) + 1
  BY TailIndices
<1>2. DOMAIN es \subseteq Nat /\ DOMAIN t \subseteq Nat /\ 0 \notin DOMAIN t
  OBVIOUS
<1> HIDE DEF t, e
<1>3. ASSUME NEW k \in DOMAIN t, IsLast(t, K, k) PROVE t[k] \in good
  <2>1. k + 1 \in DOMAIN es /\ t[k] = es[k + 1] /\ k \in Nat
    BY <1>1
  <2>2. ASSUME NEW j \in DOMAIN es, es[j].kind \in K PROVE j <= k + 1
    <3>1. CASE j = 1
      BY <2>1, <3>1
    <3>2. CASE j # 1
      <4>1. j - 1 \in DOMAIN t /\ t[j - 1].kind \in K /\ j = (j - 1) + 1
        BY <1>1, <2>2, <3>2
      <4>2. j - 1 <= k
        BY <1>3, <4>1 DEF IsLast
      <4> QED
        BY <1>2, <2>1, <4>1, <4>2
    <3> QED
      BY <3>1, <3>2
  <2>3. IsLast(es, K, k + 1)
    BY <1>3, <2>1, <2>2 DEF IsLast
  <2> QED
    BY <2>1, <2>3 DEF Decided
<1>4. ASSUME e.kind \in K, NoneOf(t, K) PROVE e \in good
  <2>1. \A j \in DOMAIN es : es[j].kind \in K => j = 1
    BY <1>1, <1>4 DEF NoneOf
  <2>2. IsLast(es, K, 1)
    BY <1>1, <1>4, <2>1 DEF IsLast
  <2> QED
    BY <1>1, <2>2 DEF Decided
<1>5. ASSUME e.kind \notin K, NoneOf(t, K) PROVE so
  <2>1. \A j \in DOMAIN es : es[j].kind \notin K
    BY <1>1, <1>5 DEF NoneOf
  <2> QED
    BY <2>1 DEF NoneOf, Decided
<1> QED
  BY <1>3, <1>4, <1>5 DEF Decided, t, e

LEMMA DecidedKept ==
  ASSUME NEW E, NEW es \in Seq(E), NEW places \in SUBSET DOMAIN es,
         NEW K, NEW good, NEW so
  PROVE  /\ (\A k \in places : es[k].kind \notin K) => NoneOf(Kept(es, places), K)
         /\ /\ \A k \in DOMAIN es : es[k].kind \in K => k \in places
            /\ Decided(es, K, good, so)
            => Decided(Kept(es, places), K, good, so)
<1> DEFINE kept == Kept(es, places)
           c == Cardinality(places)
<1>1. kept \in Seq(E) /\ Len(kept) = c /\ c \in Nat
  BY KeptFacts
<1>2. DOMAIN kept = 1 .. c
  BY <1>1
<1>3. PICK f : Enumerates(f, places) /\ \A i \in 1 .. c : kept[i] = es[f[i]]
  BY KeptFacts
<1>4. DOMAIN es \subseteq Nat
  OBVIOUS
<1> HIDE DEF kept, c
<1>5. /\ \A i \in DOMAIN kept : f[i] \in places /\ kept[i] = es[f[i]]
      /\ \A i, j \in DOMAIN kept : i < j => f[i] < f[j]
      /\ \A k \in places : \E i \in DOMAIN kept : f[i] = k
  BY <1>2, <1>3 DEF Enumerates, c
<1>6. (\A k \in places : es[k].kind \notin K) => NoneOf(kept, K)
  BY <1>5 DEF NoneOf
<1>7. ASSUME \A k \in DOMAIN es : es[k].kind \in K => k \in places, Decided(es, K, good, so)
      PROVE  Decided(kept, K, good, so)
  <2>1. NoneOf(kept, K) => NoneOf(es, K)
    BY <1>5, <1>7 DEF NoneOf
  <2>2. ASSUME NEW i \in DOMAIN kept, IsLast(kept, K, i) PROVE kept[i] \in good
    <3>1. ASSUME NEW j \in DOMAIN es, es[j].kind \in K PROVE j <= f[i]
      <4>1. PICK m \in DOMAIN kept : f[m] = j
        BY <1>5, <1>7, <3>1
      <4>2. m <= i
        BY <1>5, <2>2, <3>1, <4>1 DEF IsLast
      <4>3. m = i \/ m < i
        BY <1>1, <1>2, <4>2
      <4>4. f[i] \in Nat /\ j \in Nat
        BY <1>4, <1>5, <2>2
      <4> QED
        BY <1>5, <4>1, <4>3, <4>4
    <3>2. f[i] \in DOMAIN es /\ es[f[i]].kind \in K
      BY <1>5, <2>2 DEF IsLast
    <3>3. IsLast(es, K, f[i])
      BY <3>1, <3>2 DEF IsLast
    <3> QED
      BY <1>5, <1>7, <3>2, <3>3 DEF Decided
  <2> QED
    BY <1>7, <2>1, <2>2 DEF Decided
<1> QED
  BY <1>6, <1>7 DEF kept

LEMMA DecidedWeaker ==
  ASSUME NEW E, NEW es \in Seq(E), NEW K, NEW good, NEW so, NEW fine, NEW now,
         Decided(es, K, good, so), so => now, \A e \in E : e \in good => e \in fine
  PROVE  Decided(es, K, fine, now)
<1>1. \A k \in DOMAIN es : es[k] \in E
  OBVIOUS
<1> QED
  BY <1>1 DEF Decided

LEMMA DecidedNone ==
  ASSUME NEW K, NEW good, NEW so
  PROVE  Decided(<<>>, K, good, so) <=> so
<1>1. DOMAIN <<>> = {}
  OBVIOUS
<1> QED
  BY <1>1 DEF Decided, NoneOf

LEMMA DecidedAlready ==
  ASSUME NEW es, NEW K, NEW good, NEW so, NoneOf(es, K), so
  PROVE  Decided(es, K, good, so)
BY DEF NoneOf, Decided, IsLast

\* What every event that is on its way keeps is so at the end.
LEMMA LeadsStays ==
  ASSUME NEW S, NEW R, NEW E, NEW es \in Seq(E), NEW s, NEW t, NEW P,
         Leads(S, R, s, es, t), s \in P,
         \A k \in DOMAIN es : \A x \in P, y \in S : <<x, es[k], y>> \in R => y \in P
  PROVE  t \in P
<1> PICK h \in [0 .. Len(es) -> S] :
       /\ h[0] = s /\ h[Len(es)] = t
       /\ \A k \in 1 .. Len(es) : <<h[k - 1], es[k], h[k]>> \in R
  BY DEF Leads
<1> DEFINE n == Len(es)
           bad == {k \in 1 .. n : h[k] \notin P}
<1>1. n \in Nat /\ DOMAIN es = 1 .. n
  BY SeqDomain
<1>2. CASE bad # {}
  <2> DEFINE k == First(bad)
  <2>1. k \in bad /\ \A j \in bad : k <= j
    <3>1. bad \in SUBSET (1 .. n)
      OBVIOUS
    <3> HIDE DEF bad, n
    <3> QED
      BY <1>1, <1>2, <3>1, FirstFacts
  <2> HIDE DEF k
  <2>2. k \in 1 .. n /\ h[k] \notin P
    BY <2>1
  <2>3. k - 1 = 0 \/ (k - 1 \in 1 .. n /\ ~(k <= k - 1))
    BY <1>1, <2>2
  <2>4. h[k - 1] \in P
    BY <2>1, <2>3
  <2>5. h[k] \in S /\ <<h[k - 1], es[k], h[k]>> \in R
    BY <1>1, <2>2
  <2> QED
    BY <1>1, <2>2, <2>4, <2>5
<1>3. CASE bad = {}
  <2>1. n = 0 \/ n \in 1 .. n
    BY <1>1
  <2> QED
    BY <1>3, <2>1
<1> QED
  BY <1>2, <1>3

\* Events that change nothing may be dropped.
LEMMA LeadsKept ==
  ASSUME NEW S, NEW R, NEW E, NEW es \in Seq(E), NEW places \in SUBSET DOMAIN es,
         NEW s, NEW t, Leads(S, R, s, es, t),
         \A k \in DOMAIN es : k \notin places =>
           \A x, y \in S : <<x, es[k], y>> \in R => x = y
  PROVE  Leads(S, R, s, Kept(es, places), t)
<1> PICK h \in [0 .. Len(es) -> S] :
       /\ h[0] = s /\ h[Len(es)] = t
       /\ \A k \in 1 .. Len(es) : <<h[k - 1], es[k], h[k]>> \in R
  BY DEF Leads
<1> PICK f : /\ Enumerates(f, places)
             /\ \A i \in 1 .. Cardinality(places) : Kept(es, places)[i] = es[f[i]]
  BY KeptFacts
<1> DEFINE n == Len(es)
           c == Cardinality(places)
           kept == Kept(es, places)
<1>1. n \in Nat /\ DOMAIN es = 1 .. n
  BY SeqDomain
<1>2. kept \in Seq(E) /\ Len(kept) = c /\ c \in Nat
  BY KeptFacts
<1>3. Enumerates(f, places) /\ \A i \in 1 .. c : kept[i] = es[f[i]]
  OBVIOUS
<1> HIDE DEF n, c, kept
<1>4. /\ \A i \in 1 .. c : f[i] \in places /\ f[i] \in 1 .. n
      /\ \A i, j \in 1 .. c : i < j => f[i] < f[j]
      /\ \A k \in places : \E i \in 1 .. c : f[i] = k
  BY <1>1, <1>3 DEF Enumerates, c
\* Between two places that are kept nothing changes.
<1>5. ASSUME NEW a \in 0 .. n, NEW b \in 0 .. n, a <= b,
             \A k \in places : ~(a < k /\ k <= b)
      PROVE  h[b] = h[a]
  <2> DEFINE bad == {k \in 1 .. n : a < k /\ k <= b /\ h[k] # h[a]}
             k == First(bad)
  <2>1. bad \in SUBSET (1 .. n)
    OBVIOUS
  <2>2. CASE bad # {}
    <3>1. k \in bad /\ \A j \in bad : k <= j
      <4> HIDE DEF bad
      <4> QED
        BY <1>1, <2>1, <2>2, FirstFacts
    <3> HIDE DEF k
    <3>2. k \in 1 .. n /\ a < k /\ k <= b /\ h[k] # h[a]
      BY <3>1
    <3>3. k - 1 = a \/ (k - 1 \in 1 .. n /\ a < k - 1 /\ k - 1 <= b /\ ~(k <= k - 1))
      BY <1>1, <3>2
    <3>4. h[k - 1] = h[a]
      BY <3>1, <3>3
    <3>5. k \notin places
      BY <1>5, <3>2
    <3>6. /\ h[k - 1] \in S /\ h[k] \in S
          /\ <<h[k - 1], es[k], h[k]>> \in R
      <4>1. k - 1 \in 0 .. n /\ k \in 0 .. n
        BY <1>1, <3>2
      <4>2. h \in [0 .. n -> S]
        BY DEF n
      <4> QED
        BY <3>2, <4>1, <4>2 DEF n
    <3>7. h[k - 1] = h[k]
      BY <1>1, <3>2, <3>5, <3>6
    <3> QED
      BY <3>2, <3>4, <3>7
  <2>3. CASE bad = {}
    <3>1. a = b \/ (b \in 1 .. n /\ a < b /\ b <= b)
      BY <1>1, <1>5
    <3> QED
      BY <2>3, <3>1
  <2> QED
    BY <2>2, <2>3
<1> DEFINE at(i) == IF i = 0 THEN 0 ELSE f[i]
           g == [i \in 0 .. c |-> h[at(i)]]
<1>6. \A i \in 0 .. c : at(i) \in 0 .. n
  BY <1>1, <1>2, <1>4
<1>7. g \in [0 .. c -> S] /\ \A i \in 0 .. c : g[i] = h[at(i)]
  BY <1>6 DEF n
<1>8. ASSUME NEW i \in 1 .. c PROVE <<g[i - 1], kept[i], g[i]>> \in R
  <2>1. i - 1 \in 0 .. c /\ i \in 0 .. c /\ i \in Nat /\ i # 0
    BY <1>2
  <2> DEFINE a == at(i - 1)
             b == f[i] - 1
  <2>2. a \in 0 .. n /\ at(i) = f[i] /\ f[i] \in 1 .. n /\ b \in 0 .. n
    BY <1>1, <1>4, <1>6, <2>1
  <2>3. a < f[i]
    <3>1. CASE i - 1 = 0
      BY <2>2, <3>1
    <3>2. CASE i - 1 # 0
      <4>1. i - 1 \in 1 .. c /\ i - 1 < i
        BY <2>1, <3>2
      <4>2. f[i - 1] < f[i]
        BY <1>4, <4>1
      <4> QED
        BY <3>2, <4>2
    <3> QED
      BY <3>1, <3>2
  <2>4. ASSUME NEW k \in places, a < k, k <= b PROVE FALSE
    <3>1. PICK m \in 1 .. c : f[m] = k
      BY <1>4
    <3>2. k < f[i] /\ k \in Nat /\ f[i] \in Nat
      BY <1>1, <1>4, <2>2, <2>4
    <3>3. m < i
      <4>1. m = i \/ i < m \/ m < i
        BY <1>2, <2>1
      <4>2. i < m => f[i] < f[m]
        BY <1>4
      <4> HIDE DEF b
      <4> QED
        BY <3>1, <3>2, <4>1, <4>2
    <3>4. m = i - 1 \/ m < i - 1
      BY <1>2, <2>1, <3>3
    <3>5. i - 1 \in 1 .. c /\ a = f[i - 1]
      BY <1>2, <2>1, <3>3
    <3>6. m < i - 1 => f[m] < f[i - 1]
      BY <1>4, <3>5
    <3>7. f[i - 1] \in Nat
      BY <1>4, <3>5
    <3> HIDE DEF a, b
    <3> QED
      BY <2>4, <3>1, <3>2, <3>4, <3>5, <3>6, <3>7
  <2>5. a <= b
    BY <2>2, <2>3
  <2>6. h[b] = h[a]
    <3> HIDE DEF a, b
    <3> QED
      BY <1>5, <2>2, <2>4, <2>5
  <2>7. <<h[f[i] - 1], es[f[i]], h[f[i]]>> \in R
    BY <2>2 DEF n
  <2>8. g[i - 1] = h[a] /\ g[i] = h[f[i]] /\ kept[i] = es[f[i]]
    BY <1>3, <1>7, <2>1, <2>2
  <2> QED
    BY <2>6, <2>7, <2>8
<1>9. g[0] = s /\ g[c] = t
  <2>1. 0 \in 0 .. c /\ c \in 0 .. c
    BY <1>2
  <2>2. at(c) \in 0 .. n /\ n \in 0 .. n /\ at(c) <= n
    BY <1>1, <1>6, <2>1
  <2>3. ASSUME NEW k \in places, at(c) < k, k <= n PROVE FALSE
    <3>1. PICK m \in 1 .. c : f[m] = k
      BY <1>4
    <3>2. c \in 1 .. c /\ (m = c \/ m < c) /\ c # 0
      BY <1>2, <3>1
    <3>3. m < c => f[m] < f[c]
      BY <1>4, <3>2
    <3>4. f[c] \in Nat /\ k \in Nat /\ f[c] < k
      BY <1>1, <1>4, <2>3, <3>2
    <3> QED
      BY <3>1, <3>2, <3>3, <3>4
  <2>4. h[n] = h[at(c)]
    <3> HIDE DEF at
    <3> QED
      BY <1>5, <2>2, <2>3
  <2>5. g[0] = h[0] /\ g[c] = h[at(c)]
    BY <1>7, <2>1
  <2> QED
    BY <2>4, <2>5 DEF n
<1> HIDE DEF g
<1> QED
  BY <1>2, <1>7, <1>8, <1>9 DEF Leads, kept

\* Twice the same leads to the same, if each event leads to one state.
LEMMA LeadsSure ==
  ASSUME NEW S, NEW R, NEW E, NEW es \in Seq(E), NEW s \in S, NEW t,
         Leads(S, R, s, es, t),
         \A k \in DOMAIN es : \A y \in S : <<s, es[k], y>> \in R => y = s
  PROVE  t = s
<1>1. \A k \in DOMAIN es : \A x \in {s}, y \in S : <<x, es[k], y>> \in R => y \in {s}
  OBVIOUS
<1>2. t \in {s}
  <2> DEFINE P == {s}
  <2>1. s \in P /\ \A k \in DOMAIN es : \A x \in P, y \in S : <<x, es[k], y>> \in R => y \in P
    BY <1>1
  <2> HIDE DEF P
  <2>2. t \in P
    BY <2>1, LeadsStays
  <2> QED
    BY <2>2 DEF P
<1> QED
  BY <1>2

=============================================================================
