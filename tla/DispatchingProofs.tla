-------------------------- MODULE DispatchingProofs --------------------------
(***************************************************************************)
(* Proofs about Dispatching.  Inv holds of every behaviour: types, the      *)
(* calls the user's thread is about to make, and that the events of some   *)
(* proxies can be picked out of the wire in order, which says what reading *)
(* them puts into a queue.  SetupInv holds when no event comes before a    *)
(* Registry is set up: a step is one before, during or after the creation, *)
(* and afterwards the user's proxies are in its queue and are listened to  *)
(* whenever the queue is dispatched.  DeliveryInv says that what was sent  *)
(* is what was handled, what is queued and what is on the wire, in this    *)
(* order, from which each step is one of EventDelivery.                    *)
(***************************************************************************)
EXTENDS Dispatching, Replay, FiniteSetTheorems, SequenceTheorems

\* Announcements are about globals.
Told == {e \in Events : e.to = Registry => e.about \in Globals}

\* What is left of a sequence of calls.
From(s, n) == SubSeq(s, n, Len(s))
Dispatched == <<Call("dispatch", Other)>>
Bound(g) == Binding(g) \o Dispatched

-----------------------------------------------------------------------------
(* Sequences of calls.                                                     *)

LEMMA FromFacts ==
  ASSUME NEW S, NEW s \in Seq(S), NEW n \in 1 .. Len(s)
  PROVE  /\ From(s, n) \in Seq(S) /\ From(s, n) # <<>>
         /\ Head(From(s, n)) = s[n]
         /\ n < Len(s) => Tail(From(s, n)) = From(s, n + 1)
         /\ n = Len(s) => Tail(From(s, n)) = <<>>
<1> DEFINE f == SubSeq(s, n, Len(s))
<1>1. n \in Nat /\ Len(s) \in Nat /\ 1 <= n /\ n <= Len(s)
  OBVIOUS
<1>2. /\ f \in Seq(S) /\ Len(f) = Len(s) - n + 1
      /\ \A k \in 1 .. Len(s) - n + 1 : f[k] = s[n + k - 1]
  BY <1>1
<1>3. f # <<>> /\ Head(f) = s[n]
  <2> HIDE DEF f
  <2>1. 1 \in 1 .. Len(s) - n + 1
    BY <1>1
  <2>2. f[1] = s[n]
    BY <1>1, <1>2, <2>1
  <2> QED
    BY <1>1, <1>2, <2>1, <2>2
<1>4. /\ Tail(f) \in Seq(S) /\ Len(Tail(f)) = Len(s) - n
      /\ \A k \in 1 .. Len(s) - n : Tail(f)[k] = f[k + 1]
  <2> HIDE DEF f
  <2> QED
    BY <1>1, <1>2, <1>3
<1>5. \A k \in 1 .. Len(s) - n : Tail(f)[k] = s[n + k]
  <2> HIDE DEF f
  <2> TAKE k \in 1 .. Len(s) - n
  <2>1. k + 1 \in 1 .. Len(s) - n + 1 /\ n + (k + 1) - 1 = n + k
    BY <1>1
  <2> QED
    BY <1>2, <1>4, <2>1
<1>6. ASSUME n < Len(s) PROVE Tail(f) = From(s, n + 1)
  <2> DEFINE t == SubSeq(s, n + 1, Len(s))
  <2>1. /\ t \in Seq(S) /\ Len(t) = Len(s) - n
        /\ \A k \in 1 .. Len(s) - n : t[k] = s[n + k]
    BY <1>1, <1>6
  <2> DEFINE r == Tail(f)
  <2>2. /\ r \in Seq(S) /\ Len(r) = Len(s) - n
        /\ \A k \in 1 .. Len(s) - n : r[k] = s[n + k]
    BY <1>4, <1>5
  <2> HIDE DEF f, t, r
  <2>3. r = t
    BY <1>1, <2>1, <2>2
  <2> QED
    BY <2>3 DEF From, t, r
<1>7. ASSUME n = Len(s) PROVE Tail(f) = <<>>
  <2> DEFINE r == Tail(f)
  <2>1. r \in Seq(S) /\ Len(r) = 0
    BY <1>1, <1>4, <1>7
  <2> HIDE DEF f, r
  <2>2. r = <<>>
    BY <2>1
  <2> QED
    BY <2>2 DEF r
<1> HIDE DEF f
<1> QED
  BY <1>2, <1>3, <1>6, <1>7 DEF From, f

LEMMA CreationFacts ==
  /\ Creation \in Seq(Calls) /\ Len(Creation) = 6
  /\ Creation[1] = Call("request", Registry) /\ Creation[2] = Call("request", Callback)
  /\ Creation[3] = Call("addProxy", Registry) /\ Creation[4] = Call("addProxy", Callback)
  /\ Creation[5] = Call("listen", Registry) /\ Creation[6] = Call("listen", Callback)
  /\ From(Creation, 1) = Creation
<1>1. /\ Creation \in Seq(Calls) /\ Len(Creation) = 6
  BY DEF Creation, Call, Calls, Proxies
<1>2. /\ Creation[1] = Call("request", Registry) /\ Creation[2] = Call("request", Callback)
      /\ Creation[3] = Call("addProxy", Registry) /\ Creation[4] = Call("addProxy", Callback)
      /\ Creation[5] = Call("listen", Registry) /\ Creation[6] = Call("listen", Callback)
  BY DEF Creation
<1>3. From(Creation, 1) = Creation
  BY <1>1 DEF From
<1> QED
  BY <1>1, <1>2, <1>3

LEMMA DispatchedFacts ==
  /\ Dispatched \in Seq(Calls) /\ Dispatched # <<>>
  /\ Head(Dispatched) = Call("dispatch", Other) /\ Tail(Dispatched) = <<>>
BY DEF Dispatched, Call, Calls, Proxies

LEMMA BoundFacts ==
  ASSUME NEW g \in Globals
  PROVE  /\ Bound(g) \in Seq(Calls) /\ Len(Bound(g)) = 4
         /\ Bound(g)[1] = Call("request", g) /\ Bound(g)[2] = Call("addProxy", g)
         /\ Bound(g)[3] = Call("listen", g) /\ Bound(g)[4] = Call("dispatch", Other)
         /\ From(Bound(g), 1) = Bound(g) /\ From(Bound(g), 4) = Dispatched
<1>1. Bound(g) = <<Call("request", g), Call("addProxy", g), Call("listen", g),
                   Call("dispatch", Other)>>
  <2>1. /\ Binding(g) \in Seq(Calls) /\ Dispatched \in Seq(Calls)
        /\ DOMAIN Dispatched = {1} /\ Dispatched[1] = Call("dispatch", Other)
    BY DEF Binding, Dispatched, Call, Calls, Proxies
  <2>2. Bound(g) = Append(Binding(g), Call("dispatch", Other))
    BY <2>1, ConcatOne DEF Bound
  <2> DEFINE x == Append(Binding(g), Call("dispatch", Other))
             y == <<Call("request", g), Call("addProxy", g), Call("listen", g),
                    Call("dispatch", Other)>>
  <2>3. /\ x \in Seq(Calls) /\ Len(x) = 4
        /\ x[1] = Call("request", g) /\ x[2] = Call("addProxy", g)
        /\ x[3] = Call("listen", g) /\ x[4] = Call("dispatch", Other)
    BY <2>1 DEF Binding, Call, Calls, Proxies
  <2>4. /\ y \in Seq(Calls) /\ Len(y) = 4
        /\ y[1] = Call("request", g) /\ y[2] = Call("addProxy", g)
        /\ y[3] = Call("listen", g) /\ y[4] = Call("dispatch", Other)
    BY DEF Call, Calls, Proxies
  <2> HIDE DEF x, y
  <2>5. \A k \in 1 .. 4 : x[k] = y[k]
    BY <2>3, <2>4
  <2>6. x = y
    BY <2>3, <2>4, <2>5
  <2> QED
    BY <2>2, <2>6 DEF x, y
<1>2. /\ Bound(g) \in Seq(Calls) /\ Len(Bound(g)) = 4
  BY <1>1 DEF Call, Calls, Proxies
<1>3. /\ Bound(g)[1] = Call("request", g) /\ Bound(g)[2] = Call("addProxy", g)
      /\ Bound(g)[3] = Call("listen", g) /\ Bound(g)[4] = Call("dispatch", Other)
  BY <1>1
<1>4. From(Bound(g), 1) = Bound(g)
  BY <1>2 DEF From
<1>5. From(Bound(g), 4) = Dispatched
  <2> DEFINE r == From(Bound(g), 4)
             d == Call("dispatch", Other)
  <2>1. r \in Seq(Calls) /\ Len(r) = 1 /\ r[1] = d
    <3> DEFINE b == Bound(g)
    <3>1. b \in Seq(Calls) /\ Len(b) = 4 /\ b[4] = d
      BY <1>2, <1>3
    <3> HIDE DEF b, d
    <3>2. SubSeq(b, 4, 4) \in Seq(Calls) /\ Len(SubSeq(b, 4, 4)) = 1 /\ SubSeq(b, 4, 4)[1] = d
      BY <3>1
    <3> QED
      BY <3>1, <3>2 DEF From, b
  <2> HIDE DEF r, d
  <2>2. r = <<d>>
    BY <2>1
  <2> QED
    BY <2>2 DEF r, d, Dispatched
<1> QED
  BY <1>2, <1>3, <1>4, <1>5

LEMMA CallsDiffer ==
  \A op1, op2, p1, p2 : Call(op1, p1) = Call(op2, p2) <=> op1 = op2 /\ p1 = p2
BY DEF Call


-----------------------------------------------------------------------------
(* The events of some proxies among those on the wire.                     *)

\* f tells the places in w of the events for ps, which are s, in their order.
Order(f, s, w, ps) ==
  /\ f \in [1 .. Len(s) -> 1 .. Len(w)]
  /\ \A i, j \in 1 .. Len(s) : i < j => f[i] < f[j]
  /\ \A i \in 1 .. Len(s) : s[i] = w[f[i]] /\ w[f[i]].to \in ps
  /\ \A k \in 1 .. Len(w) : w[k].to \in ps => \E i \in 1 .. Len(s) : f[i] = k
Picked(s, w, ps) == \E f : Order(f, s, w, ps)

LEMMA PickedNone ==
  ASSUME NEW ps
  PROVE  Picked(<<>>, <<>>, ps)
<1> DEFINE f == [i \in 1 .. 0 |-> 1]
<1>1. Order(f, <<>>, <<>>, ps)
  BY DEF Order
<1> QED
  BY <1>1 DEF Picked

\* Events that are all for ps come behind.
LEMMA PickedBehind ==
  ASSUME NEW s \in Seq(Told), NEW w \in Seq(Told), NEW ps, Picked(s, w, ps),
         NEW es \in Seq(Told), \A k \in DOMAIN es : es[k].to \in ps
  PROVE  Picked(s \o es, w \o es, ps)
<1>1. PICK f : Order(f, s, w, ps)
  BY DEF Picked
<1> DEFINE all == s \o es
           now == w \o es
           g == [i \in 1 .. Len(s) + Len(es) |->
                   IF i <= Len(s) THEN f[i] ELSE Len(w) + (i - Len(s))]
<1>2. /\ Len(s) \in Nat /\ Len(w) \in Nat /\ Len(es) \in Nat
      /\ DOMAIN s = 1 .. Len(s) /\ DOMAIN w = 1 .. Len(w) /\ DOMAIN es = 1 .. Len(es)
      /\ Len(all) = Len(s) + Len(es) /\ Len(now) = Len(w) + Len(es)
  OBVIOUS
<1>3. /\ \A k \in 1 .. Len(s) : all[k] = s[k]
      /\ \A k \in 1 .. Len(es) : all[Len(s) + k] = es[k]
  BY <1>2, Behind
<1>4. /\ \A k \in 1 .. Len(w) : now[k] = w[k]
      /\ \A k \in 1 .. Len(es) : now[Len(w) + k] = es[k]
  BY <1>2, Behind
<1> HIDE DEF all, now
<1>5. /\ \A i \in 1 .. Len(s) : f[i] \in 1 .. Len(w) /\ g[i] = f[i]
      /\ \A i \in 1 .. Len(es) : g[Len(s) + i] = Len(w) + i
      /\ \A i \in 1 .. Len(s) + Len(es) :
           i \notin 1 .. Len(s) => i - Len(s) \in 1 .. Len(es) /\ i = Len(s) + (i - Len(s))
      /\ \A k \in 1 .. Len(w) + Len(es) :
           k \notin 1 .. Len(w) => k - Len(w) \in 1 .. Len(es) /\ k = Len(w) + (k - Len(w))
  <2>1. \A i \in 1 .. Len(s) : f[i] \in 1 .. Len(w)
    BY <1>1 DEF Order
  <2> QED
    BY <1>2, <2>1
<1>6. g \in [1 .. Len(all) -> 1 .. Len(now)]
  <2>1. \A i \in 1 .. Len(s) + Len(es) : g[i] \in 1 .. Len(w) + Len(es)
    <3> TAKE i \in 1 .. Len(s) + Len(es)
    <3>1. CASE i \in 1 .. Len(s)
      <4> HIDE DEF g
      <4> QED
        BY <1>2, <1>5, <3>1
    <3>2. CASE i \notin 1 .. Len(s)
      BY <1>2, <3>2
    <3> QED
      BY <3>1, <3>2
  <2> QED
    BY <1>2, <2>1
<1>7. \A i, j \in 1 .. Len(all) : i < j => g[i] < g[j]
  <2> SUFFICES ASSUME NEW i \in 1 .. Len(s) + Len(es), NEW j \in 1 .. Len(s) + Len(es), i < j
               PROVE  g[i] < g[j]
    BY <1>2
  <2>1. CASE j \in 1 .. Len(s)
    <3>1. i \in 1 .. Len(s)
      BY <1>2, <2>1
    <3> QED
      BY <1>1, <1>5, <2>1, <3>1 DEF Order
  <2>2. CASE j \notin 1 .. Len(s)
    <3>1. g[j] = Len(w) + (j - Len(s)) /\ j > Len(s)
      BY <1>2, <2>2
    <3>2. CASE i \in 1 .. Len(s)
      <4> HIDE DEF g
      <4>1. g[i] = f[i] /\ f[i] \in 1 .. Len(w)
        BY <1>5, <3>2
      <4> QED
        BY <1>2, <3>1, <4>1
    <3>3. CASE i \notin 1 .. Len(s)
      BY <1>2, <3>1, <3>3
    <3> QED
      BY <3>2, <3>3
  <2> QED
    BY <2>1, <2>2
<1> HIDE DEF g
<1>8. \A i \in 1 .. Len(all) : all[i] = now[g[i]] /\ now[g[i]].to \in ps
  <2> SUFFICES ASSUME NEW i \in 1 .. Len(s) + Len(es)
               PROVE  all[i] = now[g[i]] /\ now[g[i]].to \in ps
    BY <1>2
  <2>1. CASE i \in 1 .. Len(s)
    <3>1. s[i] = w[f[i]] /\ w[f[i]].to \in ps
      BY <1>1, <2>1 DEF Order
    <3> QED
      BY <1>3, <1>4, <1>5, <2>1, <3>1
  <2>2. CASE i \notin 1 .. Len(s)
    <3>1. PICK k \in 1 .. Len(es) : i = Len(s) + k
      BY <1>5, <2>2
    <3>2. all[i] = es[k] /\ g[i] = Len(w) + k /\ now[g[i]] = es[k]
      BY <1>3, <1>4, <1>5, <3>1
    <3> QED
      BY <1>2, <3>2
  <2> QED
    BY <2>1, <2>2
<1>9. \A k \in 1 .. Len(now) : now[k].to \in ps => \E i \in 1 .. Len(all) : g[i] = k
  <2> SUFFICES ASSUME NEW k \in 1 .. Len(w) + Len(es), now[k].to \in ps
               PROVE  \E i \in 1 .. Len(s) + Len(es) : g[i] = k
    BY <1>2
  <2>1. CASE k \in 1 .. Len(w)
    <3>1. PICK i \in 1 .. Len(s) : f[i] = k
      BY <1>1, <1>4, <2>1 DEF Order
    <3>2. i \in 1 .. Len(s) + Len(es)
      BY <1>2
    <3> QED
      BY <1>5, <3>1, <3>2
  <2>2. CASE k \notin 1 .. Len(w)
    <3>1. PICK n \in 1 .. Len(es) : k = Len(w) + n
      BY <1>5, <2>2
    <3>2. Len(s) + n \in 1 .. Len(s) + Len(es) /\ g[Len(s) + n] = k
      BY <1>2, <1>5, <3>1
    <3> QED
      BY <3>2
  <2> QED
    BY <2>1, <2>2
<1>10. Order(g, all, now, ps)
  BY <1>6, <1>7, <1>8, <1>9 DEF Order
<1> QED
  BY <1>10 DEF Picked, all, now

\* Events for others do not matter.
LEMMA PickedPast ==
  ASSUME NEW s \in Seq(Told), NEW w \in Seq(Told), NEW ps, Picked(s, w, ps),
         NEW es \in Seq(Told), \A k \in DOMAIN es : es[k].to \notin ps
  PROVE  Picked(s, w \o es, ps)
<1>1. PICK f : Order(f, s, w, ps)
  BY DEF Picked
<1> DEFINE now == w \o es
<1>2. /\ Len(w) \in Nat /\ Len(es) \in Nat /\ DOMAIN es = 1 .. Len(es)
      /\ Len(now) = Len(w) + Len(es)
  OBVIOUS
<1>3. /\ \A k \in 1 .. Len(w) : now[k] = w[k]
      /\ \A k \in 1 .. Len(now) : k \notin 1 .. Len(w) => now[k].to \notin ps
  <2>1. /\ \A k \in 1 .. Len(w) : now[k] = w[k]
        /\ \A k \in DOMAIN now : k \notin 1 .. Len(w) =>
             k - Len(w) \in DOMAIN es /\ now[k] = es[k - Len(w)]
    BY Behind
  <2>2. DOMAIN now = 1 .. Len(now)
    OBVIOUS
  <2> HIDE DEF now
  <2> QED
    BY <2>1, <2>2
<1> HIDE DEF now
<1>4. Order(f, s, now, ps)
  <2>1. f \in [1 .. Len(s) -> 1 .. Len(w)] /\ 1 .. Len(w) \subseteq 1 .. Len(now)
    BY <1>1, <1>2 DEF Order
  <2>2. f \in [1 .. Len(s) -> 1 .. Len(now)]
    BY <2>1
  <2>3. \A i \in 1 .. Len(s) : s[i] = now[f[i]] /\ now[f[i]].to \in ps
    BY <1>1, <1>3, <2>1 DEF Order
  <2>4. \A k \in 1 .. Len(now) : now[k].to \in ps => \E i \in 1 .. Len(s) : f[i] = k
    BY <1>1, <1>3 DEF Order
  <2> QED
    BY <1>1, <2>2, <2>3, <2>4 DEF Order
<1> QED
  BY <1>4 DEF Picked, now

\* Counting finds them.
Places(w, ps) == {k \in DOMAIN w : w[k].to \in ps}

LEMMA PickedCounts ==
  ASSUME NEW s \in Seq(Told), NEW w \in Seq(Told), NEW ps, NEW f, Order(f, s, w, ps)
  PROVE  /\ Cardinality(Places(w, ps)) = Len(s)
         /\ \A n \in 1 .. Len(s) :
              /\ f[n] \in Places(w, ps)
              /\ \A k \in Places(w, ps) : Rank(Places(w, ps), k) = n <=> k = f[n]
<1> DEFINE places == Places(w, ps)
<1>1. /\ Len(s) \in Nat /\ Len(w) \in Nat /\ DOMAIN w = 1 .. Len(w)
      /\ places = {f[i] : i \in 1 .. Len(s)}
      /\ \A i \in 1 .. Len(s) : f[i] \in 1 .. Len(w) /\ f[i] \in Nat
      /\ \A i, j \in 1 .. Len(s) : i < j => f[i] < f[j]
  <2>1. DOMAIN w = 1 .. Len(w) /\ Len(w) \in Nat /\ Len(s) \in Nat
    OBVIOUS
  <2>2. f \in [1 .. Len(s) -> 1 .. Len(w)]
    BY DEF Order
  <2>3. places \subseteq {f[i] : i \in 1 .. Len(s)}
    BY <2>1 DEF Order, Places
  <2>4. {f[i] : i \in 1 .. Len(s)} \subseteq places
    BY <2>1, <2>2 DEF Order, Places
  <2>5. \A i, j \in 1 .. Len(s) : i < j => f[i] < f[j]
    BY DEF Order
  <2>6. places = {f[i] : i \in 1 .. Len(s)}
    <3> HIDE DEF places
    <3> QED
      BY <2>3, <2>4
  <2>7. \A i \in 1 .. Len(s) : f[i] \in 1 .. Len(w) /\ f[i] \in Nat
    BY <2>1, <2>2
  <2> HIDE DEF places
  <2> QED
    BY <2>1, <2>5, <2>6, <2>7
<1> HIDE DEF places
<1>2. ASSUME NEW n \in 0 .. Len(s)
      PROVE  Cardinality({f[i] : i \in 1 .. n}) = n
  <2> DEFINE T == {f[i] : i \in 1 .. n}
             b == [i \in 1 .. n |-> f[i]]
  <2>1. n \in Nat /\ \A i \in 1 .. n : i \in 1 .. Len(s) /\ i \in Nat
    BY <1>1
  <2>2. b \in [1 .. n -> T] /\ \A t \in T : \E i \in 1 .. n : b[i] = t
    OBVIOUS
  <2>3. \A i, j \in 1 .. n : b[i] = b[j] => i = j
    <3> TAKE i, j \in 1 .. n
    <3>1. i < j \/ j < i \/ i = j
      BY <2>1
    <3>2. f[i] \in Nat /\ f[j] \in Nat /\ (i < j => f[i] < f[j]) /\ (j < i => f[j] < f[i])
      BY <1>1, <2>1
    <3> QED
      BY <3>1, <3>2
  <2>4. b \in Bijection(1 .. n, T)
    <3> HIDE DEF b, T
    <3>1. DOMAIN b = 1 .. n
      BY <2>2
    <3> QED
      BY <2>2, <2>3, <3>1 DEF Bijection, Injection, Surjection, IsInjective
  <2>5. ExistsBijection(1 .. n, T)
    <3> HIDE DEF b, T
    <3> QED
      BY <2>4 DEF ExistsBijection
  <2> HIDE DEF T
  <2>6. Cardinality(T) = n
    BY <2>1, <2>5, FS_CountingElements
  <2> QED
    BY <2>6 DEF T
<1>3. Cardinality(places) = Len(s)
  <2>1. Len(s) \in 0 .. Len(s)
    BY <1>1
  <2> QED
    BY <1>1, <1>2, <2>1
<1>4. ASSUME NEW m \in 1 .. Len(s)
      PROVE  Rank(places, f[m]) = m
  <2>1. \A i \in 1 .. Len(s) : f[i] <= f[m] <=> i \in 1 .. m
    <3> TAKE i \in 1 .. Len(s)
    <3>1. i \in Nat /\ m \in Nat /\ f[i] \in Nat /\ f[m] \in Nat
          /\ (i < m => f[i] < f[m]) /\ (m < i => f[m] < f[i]) /\ 1 <= i
      BY <1>1
    <3>2. CASE i < m
      BY <3>1, <3>2
    <3>3. CASE m < i
      BY <3>1, <3>3
    <3>4. CASE i = m
      BY <3>1, <3>4
    <3> QED
      BY <3>1, <3>2, <3>3, <3>4
  <2>2. 1 .. m \subseteq 1 .. Len(s) /\ m \in 0 .. Len(s)
    BY <1>1
  <2>3. {j \in places : j <= f[m]} = {f[i] : i \in 1 .. m}
    <3>1. ASSUME NEW j \in places, j <= f[m] PROVE j \in {f[i] : i \in 1 .. m}
      <4>1. PICK i \in 1 .. Len(s) : j = f[i]
        BY <1>1
      <4>2. i \in 1 .. m
        BY <2>1, <3>1, <4>1
      <4> QED
        BY <4>1, <4>2
    <3>2. ASSUME NEW i \in 1 .. m PROVE f[i] \in places /\ f[i] <= f[m]
      <4>1. i \in 1 .. Len(s)
        BY <2>2
      <4> QED
        BY <1>1, <2>1, <4>1
    <3> QED
      BY <3>1, <3>2
  <2> QED
    BY <1>2, <2>2, <2>3 DEF Rank
<1>5. \A n \in 1 .. Len(s) : f[n] \in places
  BY <1>1
<1>6. ASSUME NEW n \in 1 .. Len(s), NEW k \in places
      PROVE  Rank(places, k) = n <=> k = f[n]
  <2>1. PICK m \in 1 .. Len(s) : k = f[m]
    BY <1>1
  <2>2. Rank(places, k) = m
    BY <1>4, <2>1
  <2>3. k = f[n] => m = n
    <3>1. m < n \/ n < m \/ m = n
      BY <1>1
    <3>2. f[n] \in Nat /\ f[m] \in Nat /\ (n < m => f[n] < f[m]) /\ (m < n => f[m] < f[n])
      BY <1>1
    <3> QED
      BY <2>1, <3>1, <3>2
  <2> QED
    BY <2>1, <2>2, <2>3
<1> QED
  BY <1>3, <1>5, <1>6 DEF places

LEMMA PickedIsFound ==
  ASSUME NEW q, wire \in Seq(Told), NEW s \in Seq(Told),
         Picked(s, wire, {p \in Proxies : queueOf[p] = q})
  PROVE  EventsFor(q) = s
<1> DEFINE ps == {p \in Proxies : queueOf[p] = q}
           places == Places(wire, ps)
           nth(n) == CHOOSE k \in places : Rank(places, k) = n
<1>1. PICK f : Order(f, s, wire, ps)
  BY DEF Picked
<1>2. {k \in DOMAIN wire : queueOf[wire[k].to] = q} = places
  <2>1. \A k \in DOMAIN wire : wire[k].to \in Proxies
    BY DEF Told, Events
  <2> QED
    BY <2>1 DEF Places
<1>3. EventsFor(q) = [n \in 1 .. Cardinality(places) |-> wire[nth(n)]]
  <2> DEFINE P == {k \in DOMAIN wire : queueOf[wire[k].to] = q}
  <2>1. EventsFor(q) = [n \in 1 .. Cardinality(P) |->
                          wire[CHOOSE k \in P : Rank(P, k) = n]]
    BY DEF EventsFor, Kept
  <2>2. P = places
    BY <1>2
  <2> HIDE DEF P, places
  <2> QED
    BY <2>1, <2>2
<1>4. /\ Cardinality(places) = Len(s)
      /\ \A n \in 1 .. Len(s) :
              /\ f[n] \in places
              /\ \A k \in places : Rank(places, k) = n <=> k = f[n]
  <2> HIDE DEF ps
  <2> QED
    BY <1>1, PickedCounts
<1>5. ASSUME NEW n \in 1 .. Len(s) PROVE nth(n) = f[n]
  <2> HIDE DEF places
  <2> QED
    BY <1>4
<1>6. \A n \in 1 .. Len(s) : wire[nth(n)] = s[n]
  <2> HIDE DEF nth, ps
  <2> QED
    BY <1>1, <1>5 DEF Order
<1> HIDE DEF nth, places
<1>7. s = [n \in 1 .. Len(s) |-> s[n]]
  OBVIOUS
<1> QED
  BY <1>3, <1>4, <1>6, <1>7


-----------------------------------------------------------------------------
(* The invariant.                                                          *)

TypeInv ==
  /\ inbox \in Seq(Proxies) /\ out \in Seq(Proxies)
  /\ wire \in Seq(Told) /\ sent \in Seq(Told) /\ handled \in Seq(Told)
  /\ others \in 0 .. MaxOther /\ signals \in Nat
  /\ queueOf \in [Proxies -> {"none", "default", "user"}]
  /\ listened \subseteq Proxies
  /\ \A p \in listened : queueOf[p] # "none"
  /\ queue \in [{"default", "user"} -> Seq(Told)]
  /\ at \in {"idle", "prepare", "read", "dispatch"}
  /\ created \in BOOLEAN /\ astray \subseteq Events

\* The calls the user's thread is about to make, and that a proxy is there
\* when it is listened to.
Creating(n) ==
  /\ todo = From(Creation, n)
  /\ n > 1 => queueOf[Registry] # "none"
  /\ n > 2 => queueOf[Callback] # "none"
BindingOf(g, n) ==
  /\ todo = From(Bound(g), n)
  /\ queueOf[Registry] # "none"
  /\ n > 1 => queueOf[g] # "none"
TodoInv ==
  \/ todo = <<>>
  \/ todo = Dispatched
  \/ \E n \in 1 .. 6 : Creating(n)
  \/ \E g \in Globals : \E n \in 1 .. 3 : BindingOf(g, n)

\* The events of any proxies can be told from the others.
Pickable(w) == \A ps \in SUBSET Proxies : \E s \in Seq(Told) : Picked(s, w, ps)
WireInv == Pickable(wire)

Inv == TypeInv /\ TodoInv /\ WireInv

\* Without early traffic nothing is flushed, and so nothing read, before both
\* listeners are added; from then on every proxy of the user's is in its queue
\* from the start, and has a listener when the queue is dispatched.
UserProxies == {p \in Proxies : p # Other /\ queueOf[p] = "user"}
Heard == {e \in Told : e.to \in UserProxies}
Passed == {e \in Told : e.to = Other}

Silent ==
  /\ inbox = <<>> /\ wire = <<>> /\ sent = <<>> /\ handled = <<>>
  /\ queue["default"] = <<>> /\ queue["user"] = <<>>
  /\ at = "idle" /\ signals = 0
  /\ Callback \notin listened
  /\ \A g \in Globals : queueOf[g] = "none"
Unmade == Silent /\ ~created /\ todo = <<>> /\ out = <<>>
Making(n) ==
  /\ Silent /\ created /\ out \in Seq({Registry, Callback})
  /\ todo = From(Creation, n)
  /\ n > 3 => queueOf[Registry] = "user"
  /\ n > 4 => queueOf[Callback] = "user"
  /\ n > 5 => Registry \in listened
TodoMade ==
  \/ todo = <<>>
  \/ todo = Dispatched
  \/ \E g \in Globals : \E n \in 1 .. 3 : todo = From(Bound(g), n)
MadeBy ==
  /\ created
  /\ {Registry, Callback} \subseteq listened
  /\ queueOf[Registry] = "user" /\ queueOf[Callback] = "user"
  /\ \A g \in Globals : queueOf[g] \in {"none", "user"}
  /\ TodoMade
  /\ \A g \in Globals : queueOf[g] = "user" =>
       g \in listened \/ \E n \in 2 .. 3 : todo = From(Bound(g), n)
OnTheWay ==
  /\ out \in Seq(UserProxies) /\ inbox \in Seq(UserProxies)
  /\ wire \in Seq(Heard \union Passed)
  /\ queue["user"] \in Seq(Heard) /\ queue["default"] \in Seq(Passed)
Made == MadeBy /\ OnTheWay
SetupInv ==
  /\ astray = {} /\ queueOf[Other] = "default"
  /\ Unmade \/ (\E n \in 1 .. 6 : Making(n)) \/ Made

\* What was sent is handled, in the queue or on the wire.
DeliveryInv ==
  \E s \in Seq(Told) :
    /\ Picked(s, wire, Proxies \ {Other})
    /\ sent = (handled \o queue["user"]) \o s


-----------------------------------------------------------------------------
(* What the calls do to what is left of them.                              *)

LEMMA CreatingStep ==
  ASSUME NEW n \in 1 .. 6, todo = From(Creation, n)
  PROVE  /\ todo \in Seq(Calls) /\ todo # <<>> /\ Head(todo) = Creation[n]
         /\ n < 6 => Tail(todo) = From(Creation, n + 1)
         /\ n = 6 => Tail(todo) = <<>>
<1>1. Creation \in Seq(Calls) /\ Len(Creation) = 6 /\ n \in 1 .. Len(Creation)
  BY CreationFacts
<1> HIDE DEF Creation
<1>2. /\ From(Creation, n) \in Seq(Calls) /\ From(Creation, n) # <<>>
      /\ Head(From(Creation, n)) = Creation[n]
      /\ n < Len(Creation) => Tail(From(Creation, n)) = From(Creation, n + 1)
      /\ n = Len(Creation) => Tail(From(Creation, n)) = <<>>
  BY <1>1, FromFacts
<1> QED
  BY <1>1, <1>2

LEMMA BindingStep ==
  ASSUME NEW g \in Globals, NEW n \in 1 .. 3, todo = From(Bound(g), n)
  PROVE  /\ todo \in Seq(Calls) /\ todo # <<>> /\ Head(todo) = Bound(g)[n]
         /\ Tail(todo) = From(Bound(g), n + 1)
         /\ n = 3 => Tail(todo) = Dispatched
<1>1. /\ Bound(g) \in Seq(Calls) /\ Len(Bound(g)) = 4 /\ n \in 1 .. 4 /\ n < 4
      /\ From(Bound(g), 4) = Dispatched
  BY BoundFacts
<1> HIDE DEF Bound
<1>2. /\ From(Bound(g), n) \in Seq(Calls) /\ From(Bound(g), n) # <<>>
      /\ Head(From(Bound(g), n)) = Bound(g)[n]
      /\ Tail(From(Bound(g), n)) = From(Bound(g), n + 1)
  BY <1>1, FromFacts
<1> QED
  BY <1>1, <1>2

LEMMA TodoTyped ==
  ASSUME TodoInv
  PROVE  todo \in Seq(Calls)
<1>1. CASE todo = <<>>
  BY <1>1
<1>4. CASE todo = Dispatched
  BY <1>4, DispatchedFacts
<1>2. ASSUME NEW n \in 1 .. 6, Creating(n) PROVE todo \in Seq(Calls)
  BY <1>2, CreatingStep DEF Creating
<1>3. ASSUME NEW g \in Globals, NEW n \in 1 .. 3, BindingOf(g, n) PROVE todo \in Seq(Calls)
  BY <1>3, BindingStep DEF BindingOf
<1> QED
  BY <1>1, <1>2, <1>3, <1>4 DEF TodoInv

\* A proxy is requested, moved to the queue or listened to in its turn.
LEMMA Turns ==
  ASSUME TodoInv, todo # <<>>
  PROVE  /\ Head(todo).proxy \in Proxies
         /\ Head(todo).op = "listen" => queueOf[Head(todo).proxy] # "none"
         /\ Head(todo).op = "addProxy" \/ Head(todo).op = "request"
              => Head(todo).proxy # Other
         /\ Head(todo).op = "request" /\ Head(todo).proxy \in Globals
              => queueOf[Registry] # "none"
         /\ Head(todo).op = "dispatch" <=> todo = Dispatched
<1>1. CASE todo = Dispatched
  BY <1>1, DispatchedFacts, DispatchingAssumption DEF Call, Proxies
<1>2. ASSUME NEW n \in 1 .. 6, Creating(n)
      PROVE  /\ Head(todo) = Creation[n]
             /\ Head(todo).op # "dispatch" /\ Head(todo).proxy \in {Registry, Callback}
             /\ Head(todo).op = "listen" => queueOf[Head(todo).proxy] # "none"
  <2>1. Head(todo) = Creation[n]
    BY <1>2, CreatingStep DEF Creating
  <2>2. n = 1 \/ n = 2 \/ n = 3 \/ n = 4 \/ n = 5 \/ n = 6
    OBVIOUS
  <2> QED
    BY <1>2, <2>1, <2>2, CreationFacts DEF Creating, Call
<1>3. ASSUME NEW g \in Globals, NEW n \in 1 .. 3, BindingOf(g, n)
      PROVE  /\ Head(todo) = Bound(g)[n]
             /\ Head(todo).op # "dispatch" /\ Head(todo).proxy = g
             /\ Head(todo).op = "listen" => queueOf[Head(todo).proxy] # "none"
             /\ queueOf[Registry] # "none"
  <2>1. Head(todo) = Bound(g)[n]
    BY <1>3, BindingStep DEF BindingOf
  <2>2. n = 1 \/ n = 2 \/ n = 3
    OBVIOUS
  <2>3. /\ Bound(g)[1] = Call("request", g) /\ Bound(g)[2] = Call("addProxy", g)
        /\ Bound(g)[3] = Call("listen", g)
    BY BoundFacts
  <2> QED
    BY <1>3, <2>1, <2>2, <2>3 DEF BindingOf, Call
<1>4. ASSUME NEW n \in 1 .. 6, Creating(n)
      PROVE  /\ Head(todo).proxy \in Proxies /\ Head(todo).proxy # Other
             /\ Head(todo).proxy \notin Globals /\ todo # Dispatched
  BY <1>2, <1>4, DispatchedFacts, DispatchingAssumption DEF Proxies, Call
<1>5. ASSUME NEW g \in Globals, NEW n \in 1 .. 3, BindingOf(g, n)
      PROVE  /\ Head(todo).proxy \in Proxies /\ Head(todo).proxy # Other
             /\ todo # Dispatched
  BY <1>3, <1>5, DispatchedFacts, DispatchingAssumption DEF Proxies, Call
<1> QED
  BY <1>1, <1>2, <1>3, <1>4, <1>5 DEF TodoInv

\* One call fewer is to be made.
LEMMA TodoMoves ==
  ASSUME TodoInv, todo # <<>>, todo' = Tail(todo),
         \A p \in Proxies : queueOf[p] # "none" => queueOf'[p] # "none",
         Head(todo).op = "request" => queueOf'[Head(todo).proxy] # "none"
  PROVE  TodoInv'
<1>1. CASE todo = Dispatched
  BY <1>1, DispatchedFacts DEF TodoInv
<1>2. ASSUME NEW n \in 1 .. 6, Creating(n) PROVE TodoInv'
  <2>1. /\ Head(todo) = Creation[n]
        /\ n < 6 => todo' = From(Creation, n + 1)
        /\ n = 6 => todo' = <<>>
    BY <1>2, CreatingStep DEF Creating
  <2>2. /\ n + 1 > 1 => queueOf'[Registry] # "none"
        /\ n + 1 > 2 => queueOf'[Callback] # "none"
    <3>1. /\ n = 1 => Head(todo) = Call("request", Registry)
          /\ n = 2 => Head(todo) = Call("request", Callback)
      BY <2>1, CreationFacts
    <3>2. Registry \in Proxies /\ Callback \in Proxies
      BY DEF Proxies
    <3> QED
      BY <1>2, <3>1, <3>2 DEF Creating, Call
  <2>3. CASE n = 6
    BY <2>1, <2>3 DEF TodoInv
  <2>4. CASE n < 6
    <3>1. n + 1 \in 1 .. 6
      BY <2>4
    <3>2. Creating(n + 1)'
      BY <2>1, <2>2, <2>4 DEF Creating, From, Creation, Call
    <3> QED
      BY <3>1, <3>2 DEF TodoInv
  <2> QED
    BY <2>3, <2>4
<1>3. ASSUME NEW g \in Globals, NEW n \in 1 .. 3, BindingOf(g, n) PROVE TodoInv'
  <2>1. /\ Head(todo) = Bound(g)[n]
        /\ todo' = From(Bound(g), n + 1)
        /\ n = 3 => todo' = Dispatched
    BY <1>3, BindingStep DEF BindingOf
  <2>2. queueOf'[Registry] # "none" /\ (n + 1 > 1 => queueOf'[g] # "none")
    <3>1. n = 1 => Head(todo) = Call("request", g)
      BY <2>1, BoundFacts
    <3>2. Registry \in Proxies /\ g \in Proxies
      BY DEF Proxies
    <3> QED
      BY <1>3, <3>1, <3>2 DEF BindingOf, Call
  <2>3. CASE n = 3
    BY <2>1, <2>3 DEF TodoInv, Dispatched, Call
  <2>4. CASE n < 3
    <3>1. n + 1 \in 1 .. 3
      BY <2>4
    <3>2. BindingOf(g, n + 1)'
      BY <2>1, <2>2 DEF BindingOf, From, Bound, Binding, Dispatched, Call
    <3> QED
      BY <3>1, <3>2 DEF TodoInv
  <2> QED
    BY <2>3, <2>4
<1> QED
  BY <1>1, <1>2, <1>3 DEF TodoInv


-----------------------------------------------------------------------------
(* The invariant of all steps.                                             *)

LEMMA ToldStays == Told' = Told /\ Proxies' = Proxies
BY DEF Told, Events, Proxies

LEMMA AnswersFacts ==
  ASSUME NEW p \in Proxies, NEW es \in Answers(p)
  PROVE  es \in Seq(Told) /\ \A k \in DOMAIN es : es[k].to = p
<1>1. CASE p = Registry
  <2>1. PICK gs \in SetToSeqs(Globals) : es = [k \in DOMAIN gs |-> Event(Registry, gs[k])]
    BY <1>1 DEF Answers
  <2>2. /\ Cardinality(Globals) \in Nat
        /\ gs \in [1 .. Cardinality(Globals) -> Globals]
    BY <2>1, FS_CardinalityType, DispatchingAssumption DEF SetToSeqs
  <2>3. \A k \in 1 .. Cardinality(Globals) : Event(Registry, gs[k]) \in Told
    BY <2>2 DEF Event, Told, Events, Proxies
  <2>4. \A k \in 1 .. Cardinality(Globals) : Event(Registry, gs[k]).to = p
    BY <1>1 DEF Event
  <2> QED
    BY <2>1, <2>2, <2>3, <2>4
<1>2. CASE p # Registry
  <2>1. es = <<Event(p, p)>>
    BY <1>2 DEF Answers
  <2>2. Event(p, p) \in Told /\ Event(p, p).to = p
    BY <1>2 DEF Event, Told, Events
  <2> QED
    BY <2>1, <2>2
<1> QED
  BY <1>1, <1>2

LEMMA AppendIs ==
  ASSUME NEW S, NEW s \in Seq(S), NEW e \in S
  PROVE  /\ <<e>> \in Seq(S) /\ DOMAIN <<e>> = {1} /\ <<e>>[1] = e
         /\ Append(s, e) = s \o <<e>>
<1>1. <<e>> \in Seq(S) /\ DOMAIN <<e>> = {1} /\ <<e>>[1] = e
  OBVIOUS
<1> QED
  BY <1>1, ConcatOne

\* What is served or sent comes behind what is on the wire.
LEMMA WireGrows ==
  ASSUME Inv, NEW p \in Proxies, NEW es \in Seq(Told),
         \A k \in DOMAIN es : es[k].to = p, wire' = wire \o es
  PROVE  WireInv' /\ wire' \in Seq(Told)
<1>1. wire \in Seq(Told)
  BY DEF Inv, TypeInv
<1>2. ASSUME NEW ps \in SUBSET Proxies PROVE \E s \in Seq(Told) : Picked(s, wire \o es, ps)
  <2>1. PICK s \in Seq(Told) : Picked(s, wire, ps)
    BY DEF Inv, WireInv, Pickable
  <2>2. CASE p \in ps
    <3>1. Picked(s \o es, wire \o es, ps)
      BY <1>1, <2>1, <2>2, PickedBehind
    <3>2. s \o es \in Seq(Told)
      OBVIOUS
    <3> QED
      BY <3>1, <3>2
  <2>3. CASE p \notin ps
    <3>1. Picked(s, wire \o es, ps)
      BY <1>1, <2>1, <2>3, PickedPast
    <3> QED
      BY <3>1
  <2> QED
    BY <2>2, <2>3
<1>3. Pickable(wire \o es)
  BY <1>2 DEF Pickable
<1>4. wire' \in Seq(Told)
  BY <1>1
<1> QED
  BY <1>3, <1>4 DEF WireInv

\* Where neither the wire nor the calls nor the proxies change.
LEMMA OtherwiseSame ==
  /\ WireInv /\ UNCHANGED wire => WireInv'
  /\ TodoInv /\ UNCHANGED <<todo, queueOf>> => TodoInv'
<1>1. ASSUME WireInv, UNCHANGED wire PROVE WireInv'
  BY <1>1 DEF WireInv
<1>2. ASSUME TodoInv, UNCHANGED <<todo, queueOf>> PROVE TodoInv'
  <2>1. \A n \in 1 .. 6 : Creating(n) => Creating(n)'
    BY <1>2 DEF Creating, From, Creation, Call
  <2>2. \A g \in Globals : \A n \in 1 .. 3 : BindingOf(g, n) => BindingOf(g, n)'
    BY <1>2 DEF BindingOf, From, Bound, Binding, Dispatched, Call
  <2> QED
    BY <1>2, <2>1, <2>2 DEF TodoInv, Dispatched, Call
<1> QED
  BY <1>1, <1>2

LEMMA InitInv == Init => Inv
<1> SUFFICES ASSUME Init PROVE Inv
  OBVIOUS
<1>1. TypeInv
  <2>1. /\ Other \in Proxies /\ MaxOther \in Nat /\ 0 \in 0 .. MaxOther
    BY DispatchingAssumption DEF Proxies
  <2>2. /\ queueOf \in [Proxies -> {"none", "default", "user"}]
        /\ listened \subseteq Proxies /\ \A p \in listened : queueOf[p] # "none"
        /\ queue \in [{"default", "user"} -> Seq(Told)]
    BY <2>1 DEF Init
  <2>3. /\ inbox \in Seq(Proxies) /\ out \in Seq(Proxies)
        /\ wire \in Seq(Told) /\ sent \in Seq(Told) /\ handled \in Seq(Told)
    BY DEF Init
  <2>4. /\ others \in 0 .. MaxOther /\ signals \in Nat
        /\ at \in {"idle", "prepare", "read", "dispatch"}
        /\ created \in BOOLEAN /\ astray \subseteq Events
    BY <2>1 DEF Init
  <2> QED
    BY <2>2, <2>3, <2>4 DEF TypeInv
<1>2. TodoInv
  BY DEF Init, TodoInv
<1>3. WireInv
  <2>1. <<>> \in Seq(Told) /\ wire = <<>>
    BY DEF Init
  <2> QED
    BY <2>1, PickedNone DEF WireInv, Pickable
<1> QED
  BY <1>1, <1>2, <1>3 DEF Inv

LEMMA ServerInv ==
  ASSUME Inv, Server
  PROVE  Inv'
<1>1. CASE Serve
  <2>1. /\ inbox # <<>> /\ inbox \in Seq(Proxies) /\ Head(inbox) \in Proxies
        /\ inbox' = Tail(inbox) /\ inbox' \in Seq(Proxies)
    BY <1>1 DEF Serve, Inv, TypeInv
  <2>2. PICK es \in Answers(Head(inbox)) : wire' = wire \o es /\ sent' = sent \o es
    BY <1>1 DEF Serve
  <2>3. es \in Seq(Told) /\ \A k \in DOMAIN es : es[k].to = Head(inbox)
    BY <2>1, AnswersFacts
  <2>4. WireInv' /\ wire' \in Seq(Told)
    BY <2>1, <2>2, <2>3, WireGrows
  <2>5. sent' \in Seq(Told)
    BY <2>2, <2>3 DEF Inv, TypeInv
  <2>6. UNCHANGED <<others, out, queueOf, listened, queue, at, signals, todo, created, handled, astray>>
    BY <1>1 DEF Serve, proxyVars, userVars
  <2>7. TypeInv'
    BY <2>1, <2>4, <2>5, <2>6, ToldStays DEF Inv, TypeInv, Events
  <2> QED
    BY <2>4, <2>6, <2>7, OtherwiseSame DEF Inv
<1>2. CASE SendOther
  <2> DEFINE e == Event(Other, Other)
  <2>1. e \in Told /\ e.to = Other /\ Other \in Proxies
    BY DispatchingAssumption DEF Event, Told, Events, Proxies
  <2>2. wire \in Seq(Told) /\ wire' = Append(wire, e)
    BY <1>2 DEF SendOther, Inv, TypeInv
  <2>3. <<e>> \in Seq(Told) /\ (\A k \in DOMAIN <<e>> : <<e>>[k].to = Other) /\ wire' = wire \o <<e>>
    <3> HIDE DEF e
    <3>1. <<e>> \in Seq(Told) /\ DOMAIN <<e>> = {1} /\ <<e>>[1] = e /\ wire' = wire \o <<e>>
      BY <2>1, <2>2, AppendIs
    <3> QED
      BY <2>1, <3>1
  <2>4. WireInv' /\ wire' \in Seq(Told)
    BY <2>1, <2>3, WireGrows
  <2>5. /\ UNCHANGED <<inbox, sent, out, queueOf, listened, queue, at, signals, todo, created, handled, astray>>
        /\ others' \in 0 .. MaxOther
    BY <1>2, DispatchingAssumption DEF SendOther, proxyVars, userVars, Inv, TypeInv
  <2>6. TypeInv'
    BY <2>4, <2>5, ToldStays DEF Inv, TypeInv, Events
  <2> QED
    BY <2>4, <2>5, <2>6, OtherwiseSame DEF Inv
<1> QED
  BY <1>1, <1>2 DEF Server

LEMMA ReadIsTyped ==
  ASSUME Inv, NEW q
  PROVE  /\ EventsFor(q) \in Seq(Told)
         /\ \A i \in DOMAIN EventsFor(q) :
              /\ queueOf[EventsFor(q)[i].to] = q
              /\ \E k \in DOMAIN wire : EventsFor(q)[i] = wire[k]
<1> DEFINE ps == {p \in Proxies : queueOf[p] = q}
<1>1. ps \in SUBSET Proxies
  OBVIOUS
<1>2. PICK s \in Seq(Told) : Picked(s, wire, ps)
  BY <1>1 DEF Inv, WireInv, Pickable
<1>3. EventsFor(q) = s
  BY <1>2, PickedIsFound DEF Inv, TypeInv
<1>4. PICK f : Order(f, s, wire, ps)
  BY <1>2 DEF Picked
<1>5. wire \in Seq(Told)
  BY DEF Inv, TypeInv
<1>6. ASSUME NEW i \in DOMAIN s
      PROVE  queueOf[s[i].to] = q /\ \E k \in DOMAIN wire : s[i] = wire[k]
  <2>1. i \in 1 .. Len(s) /\ DOMAIN wire = 1 .. Len(wire)
    BY <1>5
  <2>2. f[i] \in DOMAIN wire /\ s[i] = wire[f[i]] /\ wire[f[i]].to \in ps
    BY <1>4, <2>1 DEF Order
  <2> QED
    BY <2>2
<1> QED
  BY <1>3, <1>6

\* The requests that were not flushed.
LEMMA FlushTyped ==
  ASSUME Inv, Flush
  PROVE  inbox' \in Seq(Proxies) /\ out' \in Seq(Proxies)
BY DEF Flush, Inv, TypeInv

LEMMA ConnectionInv ==
  ASSUME Inv, ConnectionLoop
  PROVE  Inv'
<1>1. CASE Notified
  <2>1. /\ UNCHANGED <<inbox, wire, others, sent, out, queueOf, listened, queue, signals, todo,
                       created, handled, astray>>
        /\ at' = "prepare"
    BY <1>1 DEF Notified, serverVars, proxyVars, userVars
  <2>2. TypeInv'
    BY <2>1, ToldStays DEF Inv, TypeInv, Events
  <2> QED
    BY <2>1, <2>2, OtherwiseSame DEF Inv
<1>2. CASE DispatchDefault
  <2>1. /\ UNCHANGED <<inbox, wire, others, sent, out, queueOf, listened, at, signals, todo,
                       created, handled>>
        /\ queue["default"] # <<>> /\ queue' = [queue EXCEPT !["default"] = Tail(@)]
        /\ \/ astray' = astray
           \/ astray' = astray \union {Head(queue["default"])}
    BY <1>2 DEF DispatchDefault, serverVars, proxyVars, userVars
  <2>2. queue["default"] \in Seq(Told)
    BY DEF Inv, TypeInv
  <2>3. /\ Head(queue["default"]) \in Told
        /\ Tail(queue["default"]) \in Seq(Told)
    BY <2>1, <2>2
  <2>4. queue' \in [{"default", "user"} -> Seq(Told)] /\ astray' \subseteq Events
    BY <2>1, <2>3 DEF Inv, TypeInv, Told
  <2>5. TypeInv'
    BY <2>1, <2>4, ToldStays DEF Inv, TypeInv, Events
  <2> QED
    BY <2>1, <2>5, OtherwiseSame DEF Inv
<1>3. CASE PrepareRead
  <2>1. /\ UNCHANGED <<wire, others, sent, queueOf, listened, queue, signals, todo,
                       created, handled, astray>>
        /\ at' = "read" /\ Flush
    BY <1>3 DEF PrepareRead, proxyVars, userVars
  <2>2. TypeInv'
    BY <2>1, FlushTyped, ToldStays DEF Inv, TypeInv, Events
  <2> QED
    BY <2>1, <2>2, OtherwiseSame DEF Inv
<1>4. CASE ReadEvents
  <2>1. /\ UNCHANGED <<inbox, others, sent, out, queueOf, listened, signals, todo,
                       created, handled, astray>>
        /\ at' = "dispatch" /\ wire' = <<>>
        /\ queue' = [q \in DOMAIN queue |-> queue[q] \o EventsFor(q)]
    BY <1>4 DEF ReadEvents, proxyVars, userVars
  <2>2. \A q \in {"default", "user"} : queue[q] \o EventsFor(q) \in Seq(Told)
    BY ReadIsTyped DEF Inv, TypeInv
  <2>3. queue' \in [{"default", "user"} -> Seq(Told)]
    BY <2>1, <2>2 DEF Inv, TypeInv
  <2>4. TypeInv'
    BY <2>1, <2>3, ToldStays DEF Inv, TypeInv, Events
  <2>5. WireInv'
    <3>1. \A ps : Picked(<<>>, <<>>, ps)
      BY PickedNone
    <3>2. <<>> \in Seq(Told)
      OBVIOUS
    <3>3. Pickable(<<>>)
      BY <3>1, <3>2 DEF Pickable
    <3> QED
      BY <2>1, <3>3 DEF WireInv
  <2> QED
    BY <2>1, <2>4, <2>5, OtherwiseSame DEF Inv
<1>5. CASE EmitEventsRead
  <2>1. /\ UNCHANGED <<inbox, wire, others, sent, out, queueOf, listened, queue, todo,
                       created, handled, astray>>
        /\ at' = "idle" /\ signals' = signals + 1
    BY <1>5 DEF EmitEventsRead, serverVars, proxyVars
  <2>2. TypeInv'
    BY <2>1, ToldStays DEF Inv, TypeInv, Events
  <2> QED
    BY <2>1, <2>2, OtherwiseSame DEF Inv
<1> QED
  BY <1>1, <1>2, <1>3, <1>4, <1>5 DEF ConnectionLoop


LEMMA DispatchTyped ==
  ASSUME Inv, DispatchNext
  PROVE  Inv'
<1> DEFINE e == Head(queue["user"])
           handler == IF e.to = Registry THEN Binding(e.about) ELSE <<>>
<1>1. /\ UNCHANGED <<inbox, wire, others, sent, out, queueOf, listened, at, signals, created>>
      /\ todo # <<>> /\ Head(todo).op = "dispatch"
      /\ queue["user"] # <<>> /\ queue' = [queue EXCEPT !["user"] = Tail(@)]
      /\ \/ e.to \in listened /\ handled' = Append(handled, e)
              /\ todo' = handler \o todo /\ astray' = astray
         \/ astray' = astray \union {e} /\ UNCHANGED <<handled, todo>>
  BY DEF DispatchNext, serverVars, proxyVars, Doing
<1>2. queue["user"] \in Seq(Told)
  BY DEF Inv, TypeInv
<1>3. e \in Told /\ Tail(queue["user"]) \in Seq(Told)
  BY <1>1, <1>2
<1> HIDE DEF e
<1>4. TypeInv'
  <2> HIDE DEF handler
  <2>1. queue' \in [{"default", "user"} -> Seq(Told)]
    BY <1>1, <1>3 DEF Inv, TypeInv
  <2>2. handled' \in Seq(Told)
    <3>1. handled' = Append(handled, e) \/ handled' = handled
      BY <1>1
    <3>2. handled \in Seq(Told)
      BY DEF Inv, TypeInv
    <3> QED
      BY <1>3, <3>1, <3>2
  <2>3. astray' \subseteq Events
    BY <1>1, <1>3 DEF Inv, TypeInv, Told
  <2> QED
    BY <1>1, <2>1, <2>2, <2>3, ToldStays DEF Inv, TypeInv, Events
<1>5. todo = Dispatched
  BY <1>1, Turns DEF Inv
<1>6. ASSUME e.to \in listened, todo' = handler \o todo PROVE TodoInv'
  <2>1. CASE e.to = Registry
    <3>1. e.about \in Globals /\ queueOf[Registry] # "none"
      BY <1>3, <1>6, <2>1 DEF Told, Inv, TypeInv
    <3>2. todo' = Bound(e.about)
      BY <1>5, <1>6, <2>1 DEF Bound
    <3>3. todo' = From(Bound(e.about), 1)
      BY <3>1, <3>2, BoundFacts
    <3> DEFINE g == e.about
    <3>4. PICK h \in Globals : h = g
      BY <3>1
    <3>5. BindingOf(h, 1)'
      BY <1>1, <3>1, <3>3, <3>4 DEF BindingOf, From, Bound, Binding, Dispatched, Call
    <3> QED
      BY <3>5 DEF TodoInv
  <2>2. CASE e.to # Registry
    <3>1. todo' = todo
      BY <1>5, <1>6, <2>2, DispatchedFacts
    <3> QED
      BY <1>1, <3>1, OtherwiseSame DEF Inv
  <2> QED
    BY <2>1, <2>2
<1>7. TodoInv'
  <2>1. CASE UNCHANGED todo
    BY <1>1, <2>1, OtherwiseSame DEF Inv
  <2> HIDE DEF handler
  <2> QED
    BY <1>1, <1>6, <2>1
<1> QED
  BY <1>1, <1>4, <1>7, OtherwiseSame DEF Inv

LEMMA UserInv ==
  ASSUME Inv, CreateRegistry \/ UserLoop
  PROVE  Inv'
<1>1. CASE CreateRegistry
  <2>1. /\ UNCHANGED <<inbox, wire, others, sent, out, queueOf, listened, queue, at, signals,
                       handled, astray>>
        /\ created' = TRUE /\ todo' = Creation
    BY <1>1 DEF CreateRegistry, serverVars, proxyVars
  <2>2. TypeInv'
    BY <2>1, ToldStays DEF Inv, TypeInv, Events
  <2>3. TodoInv'
    <3>1. todo' = From(Creation, 1)
      BY <2>1, CreationFacts
    <3>2. Creating(1)'
      BY <3>1 DEF Creating, From, Creation, Call
    <3> QED
      BY <3>2 DEF TodoInv
  <2> QED
    BY <2>1, <2>2, <2>3, OtherwiseSame DEF Inv
<1>2. CASE RequestProxy
  <2>1. PICK p : p = Head(todo).proxy
    OBVIOUS
  <2>2. /\ UNCHANGED <<inbox, wire, others, sent, listened, queue, at, signals, created,
                       handled, astray>>
        /\ todo # <<>> /\ Head(todo).op = "request" /\ todo' = Tail(todo)
        /\ queueOf' = [queueOf EXCEPT ![p] = InheritedQueue(p)] /\ out' = Append(out, p)
    BY <1>2, <2>1 DEF RequestProxy, serverVars, Doing
  <2>3. /\ p \in Proxies /\ (p \in Globals => queueOf[Registry] # "none")
        /\ Registry \in Proxies
    BY <2>1, <2>2, Turns DEF Inv, Proxies
  <2>4. /\ InheritedQueue(p) \in {"none", "default", "user"}
        /\ InheritedQueue(p) # "none"
    BY <2>3 DEF InheritedQueue, Inv, TypeInv
  <2>5. /\ queueOf' \in [Proxies -> {"none", "default", "user"}]
        /\ queueOf'[p] # "none"
        /\ \A r \in Proxies : queueOf[r] # "none" => queueOf'[r] # "none"
    BY <2>2, <2>3, <2>4 DEF Inv, TypeInv
  <2>6. out' \in Seq(Proxies)
    BY <2>2, <2>3 DEF Inv, TypeInv
  <2>7. TypeInv'
    BY <2>2, <2>5, <2>6, ToldStays DEF Inv, TypeInv, Events
  <2>8. TodoInv'
    BY <2>1, <2>2, <2>5, TodoMoves DEF Inv
  <2> QED
    BY <2>2, <2>7, <2>8, OtherwiseSame DEF Inv
<1>3. CASE addProxy
  <2>1. PICK p : p = Head(todo).proxy
    OBVIOUS
  <2>2. /\ UNCHANGED <<inbox, wire, others, sent, out, listened, queue, at, signals, created,
                       handled, astray>>
        /\ todo # <<>> /\ Head(todo).op = "addProxy" /\ todo' = Tail(todo)
        /\ queueOf' = [queueOf EXCEPT ![p] = "user"]
    BY <1>3, <2>1 DEF addProxy, serverVars, Doing
  <2>3. p \in Proxies
    BY <2>1, <2>2, Turns DEF Inv
  <2>4. /\ queueOf' \in [Proxies -> {"none", "default", "user"}]
        /\ \A r \in Proxies : queueOf[r] # "none" => queueOf'[r] # "none"
    BY <2>2, <2>3 DEF Inv, TypeInv
  <2>5. TypeInv'
    BY <2>2, <2>4, ToldStays DEF Inv, TypeInv, Events
  <2>6. TodoInv'
    BY <2>2, <2>4, TodoMoves DEF Inv
  <2> QED
    BY <2>2, <2>5, <2>6, OtherwiseSame DEF Inv
<1>4. CASE AddListener
  <2>1. PICK p : p = Head(todo).proxy
    OBVIOUS
  <2>2. /\ UNCHANGED <<inbox, wire, others, sent, out, queueOf, queue, at, signals, created,
                       handled, astray>>
        /\ todo # <<>> /\ Head(todo).op = "listen" /\ todo' = Tail(todo)
        /\ listened' = listened \union {p}
    BY <1>4, <2>1 DEF AddListener, serverVars, Doing
  <2>3. p \in Proxies /\ queueOf[p] # "none"
    BY <2>1, <2>2, Turns DEF Inv
  <2>4. TypeInv'
    BY <2>2, <2>3, ToldStays DEF Inv, TypeInv, Events
  <2>5. TodoInv'
    BY <2>2, TodoMoves DEF Inv
  <2> QED
    BY <2>2, <2>4, <2>5, OtherwiseSame DEF Inv
<1>5. CASE DeliverEventsRead
  <2>1. /\ UNCHANGED <<inbox, wire, others, sent, out, queueOf, listened, queue, at, created,
                       handled, astray>>
        /\ signals > 0 /\ signals' = signals - 1 /\ todo' = Dispatched
    BY <1>5 DEF DeliverEventsRead, serverVars, proxyVars, Dispatched
  <2>2. TypeInv'
    BY <2>1, ToldStays DEF Inv, TypeInv, Events
  <2>3. TodoInv'
    BY <2>1 DEF TodoInv, Dispatched, Call
  <2> QED
    BY <2>1, <2>2, <2>3, OtherwiseSame DEF Inv
<1>6. CASE EndDispatch
  <2>1. /\ UNCHANGED <<wire, others, sent, queueOf, listened, queue, at, signals, created,
                       handled, astray>>
        /\ todo # <<>> /\ todo' = Tail(todo) /\ Head(todo).op = "dispatch" /\ Flush
    BY <1>6 DEF EndDispatch, proxyVars, Doing
  <2>2. TypeInv'
    BY <2>1, FlushTyped, ToldStays DEF Inv, TypeInv, Events
  <2>3. TodoInv'
    BY <2>1, TodoMoves DEF Inv
  <2> QED
    BY <2>1, <2>2, <2>3, OtherwiseSame DEF Inv
<1>7. CASE flushFromEventLoop
  <2>1. /\ UNCHANGED <<wire, others, sent, queueOf, listened, queue, at, signals, todo, created,
                       handled, astray>>
        /\ Flush
    BY <1>7 DEF flushFromEventLoop, proxyVars, userVars
  <2>2. TypeInv'
    BY <2>1, FlushTyped, ToldStays DEF Inv, TypeInv, Events
  <2> QED
    BY <2>1, <2>2, OtherwiseSame DEF Inv
<1> QED
  BY <1>1, <1>2, <1>3, <1>4, <1>5, <1>6, <1>7, DispatchTyped DEF UserLoop

LEMMA StepInv == Inv /\ [Next]_vars => Inv'
<1> SUFFICES ASSUME Inv, [Next]_vars PROVE Inv'
  OBVIOUS
<1>1. CASE UNCHANGED vars
  <2>1. UNCHANGED <<inbox, wire, others, sent, out, queueOf, listened, queue, at, signals, todo,
                    created, handled, astray>>
    BY <1>1 DEF vars, serverVars, proxyVars, userVars
  <2>2. TypeInv'
    BY <2>1, ToldStays DEF Inv, TypeInv, Events
  <2> QED
    BY <2>1, <2>2, OtherwiseSame DEF Inv
<1> QED
  BY <1>1, ServerInv, ConnectionInv, UserInv DEF Next

\* The two threads keep the calls in their order and each queue's events in the
\* order of the wire, in every interleaving of their calls into libwayland.
THEOREM Invariance == Spec => []Inv
BY InitInv, StepInv, PTL DEF Spec

\* Types, for any number of globals and with early traffic as well: what is
\* listened to is there, and the calls to be made are those that were begun.
THEOREM TypeCorrect == Spec => []TypeOK
<1>1. Inv => TypeOK
  <2> SUFFICES ASSUME Inv PROVE TypeOK
    OBVIOUS
  <2>1. todo \in Seq(Calls)
    BY TodoTyped DEF Inv
  <2>2. Seq(Told) \subseteq Seq(Events)
    BY DEF Told
  <2> QED
    BY <2>1, <2>2 DEF Inv, TypeInv, TypeOK
<1> QED
  BY <1>1, Invariance, PTL


-----------------------------------------------------------------------------
(* Set up in time, nothing goes astray.                                    *)

\* While nothing was sent there is nothing to read and nobody to wake.
LEMMA SilentStep ==
  ASSUME Inv, Silent, ~EarlyTraffic, Next
  PROVE  \/ CreateRegistry
         \/ RequestProxy \/ addProxy \/ AddListener
         \/ DispatchNext \/ EndDispatch \/ flushFromEventLoop
BY DEF Silent, Next, Server, Serve, SendOther, ConnectionLoop, Notified, DispatchDefault,
       PrepareRead, ReadEvents, EmitEventsRead, UserLoop, DeliverEventsRead

LEMMA UnmadeStep ==
  ASSUME Inv, SetupInv, Unmade, ~EarlyTraffic, Next
  PROVE  SetupInv'
<1>1. CreateRegistry
  BY SilentStep DEF Unmade, RequestProxy, addProxy, AddListener, DispatchNext, EndDispatch,
                    flushFromEventLoop, Doing
<1>2. /\ UNCHANGED <<inbox, wire, others, sent, out, queueOf, listened, queue, at, signals,
                     handled, astray>>
      /\ created' = TRUE /\ todo' = From(Creation, 1)
  BY <1>1, CreationFacts DEF CreateRegistry, serverVars, proxyVars
<1>3. out' \in Seq({Registry, Callback})
  BY <1>2 DEF Unmade
<1>4. Making(1)'
  BY <1>2, <1>3 DEF Unmade, Making, Silent, From, Creation, Call
<1> QED
  BY <1>2, <1>4 DEF SetupInv

LEMMA SilentStays ==
  ASSUME Silent,
         UNCHANGED <<inbox, wire, sent, handled, queue, at, signals>>,
         Callback \notin listened', \A g \in Globals : queueOf'[g] = queueOf[g]
  PROVE  Silent'
BY DEF Silent

\* Both listeners are there: so far nothing was sent.
LEMMA SetUp ==
  ASSUME Silent, created', out' \in Seq({Registry, Callback}), todo' = <<>>,
         UNCHANGED <<inbox, wire, queue>>,
         Registry \in listened', Callback \in listened',
         queueOf'[Registry] = "user", queueOf'[Callback] = "user",
         \A g \in Globals : queueOf'[g] = "none"
  PROVE  Made'
<1>1. MadeBy'
  BY DEF MadeBy, TodoMade
<1>2. {Registry, Callback} \subseteq UserProxies'
  BY DispatchingAssumption DEF UserProxies, Proxies
<1>3. out' \in Seq(UserProxies')
  <2> DEFINE us == UserProxies'
  <2>1. {Registry, Callback} \subseteq us
    BY <1>2
  <2> HIDE DEF us
  <2>2. out' \in Seq(us)
    BY <2>1
  <2> QED
    BY <2>2 DEF us
<1>4. OnTheWay'
  <2>1. /\ inbox' = <<>> /\ wire' = <<>>
        /\ queue'["default"] = <<>> /\ queue'["user"] = <<>>
    BY DEF Silent
  <2> QED
    BY <1>3, <2>1 DEF OnTheWay
<1> QED
  BY <1>1, <1>4 DEF Made

LEMMA MakingStepInv ==
  ASSUME Inv, SetupInv, NEW n \in 1 .. 6, Making(n), ~EarlyTraffic, Next
  PROVE  SetupInv'
<1> DEFINE c == Creation[n]
<1>1. /\ todo # <<>> /\ Head(todo) = c
      /\ n < 6 => Tail(todo) = From(Creation, n + 1)
      /\ n = 6 => Tail(todo) = <<>>
  BY CreatingStep DEF Making
<1>2. /\ n = 1 => c = Call("request", Registry)
      /\ n = 2 => c = Call("request", Callback)
      /\ n = 3 => c = Call("addProxy", Registry)
      /\ n = 4 => c = Call("addProxy", Callback)
      /\ n = 5 => c = Call("listen", Registry)
      /\ n = 6 => c = Call("listen", Callback)
      /\ n \in {1, 2, 3, 4, 5, 6}
  BY CreationFacts
<1>3. /\ Registry \in Proxies /\ Callback \in Proxies /\ Registry # Callback
      /\ Registry # Other /\ Callback # Other
      /\ \A g \in Globals : g # Registry /\ g # Callback /\ g # Other
      /\ queueOf \in [Proxies -> {"none", "default", "user"}]
      /\ \A g \in Globals : g \in Proxies
      /\ Other \in Proxies
  BY DispatchingAssumption DEF Proxies, Inv, TypeInv
<1> HIDE DEF c
<1>4. RequestProxy \/ addProxy \/ AddListener
  <2>1. ~CreateRegistry /\ ~flushFromEventLoop
    BY <1>1 DEF Making, CreateRegistry, flushFromEventLoop
  <2>2. c.op # "dispatch"
    BY <1>2 DEF Call
  <2>3. ~DispatchNext /\ ~EndDispatch
    BY <1>1, <2>2 DEF DispatchNext, EndDispatch, Doing
  <2> QED
    BY <2>1, <2>3, SilentStep DEF Making
<1>5. /\ UNCHANGED <<inbox, wire, others, sent, handled, queue, at, signals, created, astray>>
      /\ todo' = Tail(todo)
      /\ \/ /\ c.op = "request" /\ UNCHANGED listened
            /\ queueOf' = [queueOf EXCEPT ![c.proxy] = InheritedQueue(c.proxy)]
            /\ out' = Append(out, c.proxy)
         \/ /\ c.op = "addProxy" /\ UNCHANGED <<listened, out>>
            /\ queueOf' = [queueOf EXCEPT ![c.proxy] = "user"]
         \/ /\ c.op = "listen" /\ UNCHANGED <<queueOf, out>>
            /\ listened' = listened \union {c.proxy}
  BY <1>1, <1>4 DEF RequestProxy, addProxy, AddListener, Doing, serverVars
<1>6. /\ c.proxy \in {Registry, Callback} /\ c.op \in {"request", "addProxy", "listen"}
      /\ c.op = "listen" /\ c.proxy = Callback => n = 6
      /\ n = 6 => c.op = "listen" /\ c.proxy = Callback
  BY <1>2, <1>3 DEF Call
<1>7. /\ out' \in Seq({Registry, Callback})
      /\ \A g \in Globals : queueOf'[g] = queueOf[g]
      /\ queueOf'[Other] = "default"
      /\ n # 6 => Callback \notin listened'
  <2>1. out \in Seq({Registry, Callback}) /\ Callback \notin listened /\ queueOf[Other] = "default"
    BY DEF Making, Silent, SetupInv
  <2>2. out' \in Seq({Registry, Callback})
    BY <1>5, <1>6, <2>1
  <2>3. \A g \in Globals : queueOf'[g] = queueOf[g]
    BY <1>3, <1>5, <1>6
  <2>4. queueOf'[Other] = "default"
    BY <1>3, <1>5, <1>6, <2>1
  <2>5. n # 6 => Callback \notin listened'
    BY <1>5, <1>6, <2>1
  <2> QED
    BY <2>2, <2>3, <2>4, <2>5
<1>8. CASE n = 6
  <2>1. queueOf[Registry] = "user" /\ queueOf[Callback] = "user" /\ Registry \in listened
    BY <1>8 DEF Making
  <2>2. UNCHANGED queueOf /\ listened' = listened \union {Callback} /\ todo' = <<>>
    BY <1>1, <1>5, <1>6, <1>8
  <2>3. /\ queueOf'[Registry] = "user" /\ queueOf'[Callback] = "user"
        /\ Registry \in listened' /\ Callback \in listened'
        /\ \A g \in Globals : queueOf'[g] = "none"
        /\ created'
    BY <1>5, <1>7, <2>1, <2>2 DEF Making, Silent
  <2>4. Made'
    BY <1>5, <1>7, <2>2, <2>3, SetUp DEF Making
  <2> QED
    BY <1>5, <1>7, <2>4 DEF SetupInv
<1>9. CASE n # 6
  <2>1. Silent'
    BY <1>5, <1>7, <1>9, SilentStays DEF Making
  <2>2. todo' = From(Creation, n + 1) /\ n + 1 \in 1 .. 6
    BY <1>1, <1>5, <1>9
  <2>3. /\ n + 1 > 3 => queueOf'[Registry] = "user"
        /\ n + 1 > 4 => queueOf'[Callback] = "user"
        /\ n + 1 > 5 => Registry \in listened'
    <3>1. CASE n = 1 \/ n = 2
      BY <3>1
    <3>2. CASE n = 3
      BY <1>2, <1>3, <1>5, <3>2 DEF Call
    <3>3. CASE n = 4
      BY <1>2, <1>3, <1>5, <3>3 DEF Call, Making
    <3>4. CASE n = 5
      BY <1>2, <1>3, <1>5, <3>4 DEF Call, Making
    <3> QED
      BY <1>2, <1>9, <3>1, <3>2, <3>3, <3>4
  <2>4. Making(n + 1)'
    BY <1>5, <1>7, <2>1, <2>2, <2>3 DEF Making, From, Creation, Call
  <2> QED
    BY <1>5, <1>7, <2>2, <2>4 DEF SetupInv
<1> QED
  BY <1>8, <1>9


\* What is for the user's proxies stays so.
LEMMA UserProxiesGrow ==
  ASSUME \A p \in Proxies : queueOf[p] = "user" => queueOf'[p] = "user"
  PROVE  /\ UserProxies \subseteq UserProxies'
         /\ Heard \subseteq Heard' /\ Passed' = Passed
<1>1. UserProxies \subseteq UserProxies'
  BY ToldStays DEF UserProxies
<1>2. Passed' = Passed
  BY ToldStays DEF Passed
<1>3. Heard \subseteq Heard'
  BY <1>1, ToldStays DEF Heard
<1> QED
  BY <1>1, <1>2, <1>3

LEMMA SeqGrows ==
  ASSUME NEW S, NEW T, S \subseteq T
  PROVE  Seq(S) \subseteq Seq(T)
OBVIOUS

LEMMA OnTheWayStays ==
  ASSUME OnTheWay, UNCHANGED <<out, inbox, wire, queue>>,
         \A p \in Proxies : queueOf[p] = "user" => queueOf'[p] = "user"
  PROVE  OnTheWay'
<1> DEFINE us == UserProxies'
           hs == Heard'
<1>1. UserProxies \subseteq us /\ Heard \subseteq hs /\ Passed' = Passed
  BY UserProxiesGrow
<1> HIDE DEF us, hs
<1>2. /\ Seq(UserProxies) \subseteq Seq(us)
      /\ Seq(Heard) \subseteq Seq(hs)
      /\ Seq(Heard \union Passed) \subseteq Seq(hs \union Passed)
  <2>1. Heard \union Passed \subseteq hs \union Passed
    BY <1>1
  <2> QED
    BY <1>1, <2>1, SeqGrows
<1>3. /\ out' \in Seq(us) /\ inbox' \in Seq(us)
      /\ wire' \in Seq(hs \union Passed)
      /\ queue'["user"] \in Seq(hs) /\ queue'["default"] \in Seq(Passed)
  BY <1>2 DEF OnTheWay
<1> QED
  BY <1>1, <1>3 DEF OnTheWay, us, hs

LEMMA MadeByStays ==
  ASSUME MadeBy, UNCHANGED <<queueOf, listened, created, todo>>
  PROVE  MadeBy'
<1>1. TodoMade' <=> TodoMade
  BY DEF TodoMade, From, Bound, Binding, Dispatched, Call
<1>2. \A g \in Globals : \A n \in 2 .. 3 :
        (todo = From(Bound(g), n))' <=> todo = From(Bound(g), n)
  BY DEF From, Bound, Binding, Dispatched, Call
<1> QED
  BY <1>1, <1>2 DEF MadeBy

\* The user's proxies have listeners when the queue is dispatched.
LEMMA ListenedTo ==
  ASSUME Inv, MadeBy, todo = Dispatched \/ todo = <<>>, NEW p \in UserProxies
  PROVE  p \in listened
<1>1. p \in Proxies /\ p # Other /\ queueOf[p] = "user"
  BY DEF UserProxies
<1>2. CASE p \in Globals
  <2>1. ASSUME NEW n \in 2 .. 3, todo = From(Bound(p), n) PROVE FALSE
    <3>1. n = 2 \/ n = 3
      OBVIOUS
    <3>2. /\ todo # <<>> /\ Head(todo) = Bound(p)[n]
      BY <1>2, <2>1, <3>1, BindingStep
    <3>3. Head(todo).op # "dispatch"
      <4>1. Bound(p)[2] = Call("addProxy", p) /\ Bound(p)[3] = Call("listen", p)
        BY <1>2, BoundFacts
      <4> QED
        BY <3>1, <3>2, <4>1 DEF Call
    <3> QED
      BY <3>2, <3>3, DispatchedFacts DEF Call
  <2> QED
    BY <1>1, <1>2, <2>1 DEF MadeBy
<1>3. CASE p \notin Globals
  BY <1>1, <1>3 DEF MadeBy, Proxies
<1> QED
  BY <1>2, <1>3

LEMMA MadeServerStep ==
  ASSUME Inv, SetupInv, Made, Server
  PROVE  SetupInv'
<1>1. UNCHANGED <<out, queueOf, listened, queue, at, signals, todo, created, handled, astray>>
  BY DEF Server, Serve, SendOther, proxyVars, userVars
<1>2. MadeBy'
  BY <1>1, MadeByStays DEF Made
<1> DEFINE us == UserProxies
           hs == Heard
<1>3. UserProxies' = us /\ Heard' = hs /\ Passed' = Passed
  BY <1>1, ToldStays DEF UserProxies, Heard, Passed
<1>4. /\ out \in Seq(us) /\ inbox \in Seq(us)
      /\ wire \in Seq(hs \union Passed)
      /\ queue["user"] \in Seq(hs) /\ queue["default"] \in Seq(Passed)
  BY DEF Made, OnTheWay
<1>5. wire' \in Seq(hs \union Passed) /\ inbox' \in Seq(us)
  <2>1. CASE Serve
    <3>1. /\ inbox # <<>> /\ Head(inbox) \in us /\ Head(inbox) \in Proxies
          /\ inbox' = Tail(inbox) /\ inbox' \in Seq(us)
      <4>1. inbox # <<>> /\ inbox' = Tail(inbox)
        BY <2>1 DEF Serve
      <4>2. Head(inbox) \in us /\ Tail(inbox) \in Seq(us)
        <5> HIDE DEF us
        <5> QED
          BY <1>4, <4>1
      <4> QED
        BY <4>1, <4>2 DEF UserProxies
    <3>2. PICK es \in Answers(Head(inbox)) : wire' = wire \o es
      BY <2>1 DEF Serve
    <3>3. es \in Seq(Told) /\ \A k \in DOMAIN es : es[k].to = Head(inbox)
      BY <3>1, AnswersFacts
    <3>4. \A k \in DOMAIN es : es[k] \in hs
      BY <3>1, <3>3 DEF Heard
    <3> HIDE DEF hs, us
    <3>5. es \in Seq(hs)
      BY <3>3, <3>4
    <3> QED
      BY <1>4, <3>1, <3>2, <3>5
  <2>2. CASE SendOther
    <3> DEFINE e == Event(Other, Other)
    <3>1. e \in Passed
      BY DispatchingAssumption DEF Event, Passed, Told, Events, Proxies
    <3>2. wire' = Append(wire, e) /\ inbox' = inbox
      BY <2>2 DEF SendOther
    <3> HIDE DEF e, hs, us
    <3> QED
      BY <1>4, <3>1, <3>2
  <2> QED
    BY <2>1, <2>2 DEF Server
<1>6. OnTheWay'
  BY <1>1, <1>3, <1>4, <1>5 DEF OnTheWay
<1> QED
  BY <1>1, <1>2, <1>6 DEF SetupInv, Made

LEMMA FlushOnTheWay ==
  ASSUME OnTheWay, Flush, UNCHANGED <<wire, queueOf, queue>>
  PROVE  OnTheWay'
<1> DEFINE us == UserProxies
<1>1. UserProxies' = us /\ Heard' = Heard /\ Passed' = Passed
  BY ToldStays DEF UserProxies, Heard, Passed
<1>2. out \in Seq(us) /\ inbox \in Seq(us)
  BY DEF OnTheWay
<1>3. out' \in Seq(us) /\ inbox' \in Seq(us)
  <2> HIDE DEF us
  <2> QED
    BY <1>2 DEF Flush
<1> QED
  BY <1>1, <1>3 DEF OnTheWay


LEMMA MadeConnectionStep ==
  ASSUME Inv, SetupInv, Made, ConnectionLoop
  PROVE  SetupInv'
<1>1. UNCHANGED <<others, sent, queueOf, listened, todo, created, handled>>
  BY DEF ConnectionLoop, Notified, DispatchDefault, PrepareRead, ReadEvents, EmitEventsRead,
         serverVars, proxyVars, userVars
<1>2. MadeBy'
  BY <1>1, MadeByStays DEF Made
<1> DEFINE us == UserProxies
           hs == Heard
<1>3. UserProxies' = us /\ Heard' = hs /\ Passed' = Passed
  BY <1>1, ToldStays DEF UserProxies, Heard, Passed
<1>4. /\ out \in Seq(us) /\ inbox \in Seq(us)
      /\ wire \in Seq(hs \union Passed)
      /\ queue["user"] \in Seq(hs) /\ queue["default"] \in Seq(Passed)
  BY DEF Made, OnTheWay
<1>5. CASE Notified \/ EmitEventsRead
  <2>1. UNCHANGED <<inbox, wire, out, queue, astray>>
    BY <1>5 DEF Notified, EmitEventsRead, serverVars, proxyVars, userVars
  <2> QED
    BY <1>1, <1>2, <1>3, <1>4, <2>1 DEF SetupInv, Made, OnTheWay
<1>6. CASE DispatchDefault
  <2>1. /\ UNCHANGED <<inbox, wire, out>>
        /\ queue["default"] # <<>> /\ queue' = [queue EXCEPT !["default"] = Tail(@)]
        /\ astray' = IF Head(queue["default"]).to = Other THEN astray
                     ELSE astray \union {Head(queue["default"])}
    BY <1>6 DEF DispatchDefault, serverVars
  <2>2. Head(queue["default"]) \in Passed /\ Tail(queue["default"]) \in Seq(Passed)
    BY <1>4, <2>1
  <2>3. astray' = astray
    BY <2>1, <2>2 DEF Passed
  <2>4. queue'["default"] \in Seq(Passed) /\ queue'["user"] = queue["user"]
    BY <2>1, <2>2 DEF Inv, TypeInv
  <2>5. OnTheWay'
    BY <1>3, <1>4, <2>1, <2>4 DEF OnTheWay
  <2> QED
    BY <1>1, <1>2, <2>3, <2>5 DEF SetupInv, Made
<1>7. CASE PrepareRead
  <2>1. UNCHANGED <<wire, queue, astray>> /\ Flush
    BY <1>7 DEF PrepareRead
  <2>2. OnTheWay'
    BY <1>1, <2>1, FlushOnTheWay DEF Made
  <2> QED
    BY <1>1, <1>2, <2>1, <2>2 DEF SetupInv, Made
<1>8. CASE ReadEvents
  <2>1. /\ UNCHANGED <<inbox, out, astray>> /\ wire' = <<>>
        /\ queue' = [q \in DOMAIN queue |-> queue[q] \o EventsFor(q)]
    BY <1>8 DEF ReadEvents
  <2>2. /\ queue'["user"] = queue["user"] \o EventsFor("user")
        /\ queue'["default"] = queue["default"] \o EventsFor("default")
    BY <2>1 DEF Inv, TypeInv
  <2>3. queueOf[Other] = "default"
    BY DEF SetupInv
  <2>4. EventsFor("user") \in Seq(hs)
    <3> DEFINE s == EventsFor("user")
    <3>1. /\ s \in Seq(Told)
          /\ \A i \in DOMAIN s : queueOf[s[i].to] = "user" /\ \E k \in DOMAIN wire : s[i] = wire[k]
      BY ReadIsTyped
    <3> HIDE DEF s
    <3>2. ASSUME NEW i \in DOMAIN s PROVE s[i] \in hs
      <4>1. s[i] \in hs \union Passed
        BY <1>4, <3>1, <3>2
      <4> QED
        BY <2>3, <3>1, <3>2, <4>1 DEF Passed
    <3> HIDE DEF hs
    <3>3. s \in Seq(hs)
      BY <3>1, <3>2
    <3> QED
      BY <3>3 DEF s
  <2>5. EventsFor("default") \in Seq(Passed)
    <3> DEFINE s == EventsFor("default")
    <3>1. /\ s \in Seq(Told)
          /\ \A i \in DOMAIN s : queueOf[s[i].to] = "default" /\ \E k \in DOMAIN wire : s[i] = wire[k]
      BY ReadIsTyped
    <3> HIDE DEF s
    <3>2. ASSUME NEW i \in DOMAIN s PROVE s[i] \in Passed
      <4>1. s[i] \in hs \union Passed
        BY <1>4, <3>1, <3>2
      <4> QED
        BY <3>1, <3>2, <4>1 DEF Heard, UserProxies
    <3>3. s \in Seq(Passed)
      BY <3>1, <3>2
    <3> QED
      BY <3>3 DEF s
  <2>6. queue'["user"] \in Seq(hs) /\ queue'["default"] \in Seq(Passed)
    <3> DEFINE eu == EventsFor("user")
               ed == EventsFor("default")
    <3>1. eu \in Seq(hs) /\ ed \in Seq(Passed)
      BY <2>4, <2>5
    <3> HIDE DEF eu, ed, hs
    <3>2. queue["user"] \o eu \in Seq(hs) /\ queue["default"] \o ed \in Seq(Passed)
      BY <1>4, <3>1
    <3> QED
      BY <2>2, <3>2 DEF eu, ed
  <2>7. OnTheWay'
    BY <1>3, <1>4, <2>1, <2>6 DEF OnTheWay
  <2> QED
    BY <1>1, <1>2, <2>1, <2>7 DEF SetupInv, Made
<1> QED
  BY <1>5, <1>6, <1>7, <1>8 DEF ConnectionLoop

\* One call fewer of those that create an object, or dispatch.
LEMMA MadeTodo ==
  ASSUME TodoMade, todo # <<>>
  PROVE  /\ Tail(todo) = <<>> \/ Tail(todo) = Dispatched
              \/ \E g \in Globals : \E n \in 2 .. 3 : Tail(todo) = From(Bound(g), n)
         /\ Head(todo).op # "dispatch" =>
              \E g \in Globals : \E n \in 1 .. 3 :
                /\ todo = From(Bound(g), n) /\ Head(todo) = Bound(g)[n]
                /\ Tail(todo) = From(Bound(g), n + 1)
                /\ n = 3 => Tail(todo) = Dispatched
<1>1. CASE todo = Dispatched
  BY <1>1, DispatchedFacts DEF Call
<1>2. ASSUME NEW g \in Globals, NEW n \in 1 .. 3, todo = From(Bound(g), n)
      PROVE  /\ Tail(todo) = Dispatched \/ \E m \in 2 .. 3 : Tail(todo) = From(Bound(g), m)
             /\ Head(todo) = Bound(g)[n]
             /\ Tail(todo) = From(Bound(g), n + 1)
             /\ n = 3 => Tail(todo) = Dispatched
  <2>1. /\ Head(todo) = Bound(g)[n]
        /\ Tail(todo) = From(Bound(g), n + 1)
        /\ n = 3 => Tail(todo) = Dispatched
    BY <1>2, BindingStep
  <2>2. n = 3 \/ n + 1 \in 2 .. 3
    OBVIOUS
  <2> QED
    BY <2>1, <2>2
<1> QED
  BY <1>1, <1>2 DEF TodoMade


LEMMA CallOfBinding ==
  ASSUME NEW g \in Globals, NEW n \in 1 .. 3, todo = From(Bound(g), n)
  PROVE  /\ Head(todo).proxy = g
         /\ n = 1 <=> Head(todo).op = "request"
         /\ n = 2 <=> Head(todo).op = "addProxy"
         /\ n = 3 <=> Head(todo).op = "listen"
<1>1. Head(todo) = Bound(g)[n]
  BY BindingStep
<1>2. /\ Bound(g)[1] = Call("request", g) /\ Bound(g)[2] = Call("addProxy", g)
      /\ Bound(g)[3] = Call("listen", g)
  BY BoundFacts
<1>3. n = 1 \/ n = 2 \/ n = 3
  OBVIOUS
<1> QED
  BY <1>1, <1>2, <1>3 DEF Call

\* An object is created: it is requested on the Registry's queue.
LEMMA MadeBinding ==
  ASSUME Inv, SetupInv, Made, RequestProxy \/ addProxy \/ AddListener
  PROVE  SetupInv'
<1>1. PICK p : p = Head(todo).proxy
  OBVIOUS
<1>2. /\ UNCHANGED <<inbox, wire, others, sent, handled, queue, at, signals, created, astray>>
      /\ todo # <<>> /\ todo' = Tail(todo)
      /\ \/ /\ Head(todo).op = "request" /\ UNCHANGED listened
            /\ queueOf' = [queueOf EXCEPT ![p] = InheritedQueue(p)]
            /\ out' = Append(out, p)
         \/ /\ Head(todo).op = "addProxy" /\ UNCHANGED <<listened, out>>
            /\ queueOf' = [queueOf EXCEPT ![p] = "user"]
         \/ /\ Head(todo).op = "listen" /\ UNCHANGED <<queueOf, out>>
            /\ listened' = listened \union {p}
  BY <1>1 DEF RequestProxy, addProxy, AddListener, Doing, serverVars
<1>3. PICK g \in Globals : \E n \in 1 .. 3 :
        /\ todo = From(Bound(g), n)
        /\ Tail(todo) = From(Bound(g), n + 1)
        /\ n = 3 => Tail(todo) = Dispatched
  BY <1>2, MadeTodo DEF Made, MadeBy
<1>4. PICK n \in 1 .. 3 :
        /\ todo = From(Bound(g), n)
        /\ Tail(todo) = From(Bound(g), n + 1)
        /\ n = 3 => Tail(todo) = Dispatched
  BY <1>3
<1>5. /\ p = g /\ p \in Globals /\ p \in Proxies
      /\ p # Registry /\ p # Callback /\ p # Other
      /\ Registry \in Proxies /\ Callback \in Proxies /\ Other \in Proxies
      /\ Globals \subseteq Proxies
      /\ n = 1 <=> Head(todo).op = "request"
      /\ n = 2 <=> Head(todo).op = "addProxy"
      /\ n = 3 <=> Head(todo).op = "listen"
  BY <1>1, <1>4, CallOfBinding, DispatchingAssumption DEF Proxies
<1>6. queueOf \in [Proxies -> {"none", "default", "user"}] /\ queueOf[Registry] = "user"
  BY DEF Inv, TypeInv, Made, MadeBy
<1>7. InheritedQueue(p) = "user"
  BY <1>5, <1>6 DEF InheritedQueue
<1>8. /\ n # 3 => queueOf' = [queueOf EXCEPT ![p] = "user"]
      /\ n = 3 => queueOf' = queueOf
  BY <1>2, <1>5, <1>7
<1>9. /\ \A q \in Proxies : queueOf[q] = "user" => queueOf'[q] = "user"
      /\ \A q \in Proxies : q # p => queueOf'[q] = queueOf[q]
      /\ queueOf'[p] \in {queueOf[p], "user"}
      /\ n # 3 => queueOf'[p] = "user"
  BY <1>5, <1>6, <1>8
<1>10. \A h \in Globals : h # p => ~\E m \in 2 .. 3 : todo = From(Bound(h), m)
  <2> SUFFICES ASSUME NEW h \in Globals, NEW m \in 2 .. 3, todo = From(Bound(h), m)
               PROVE  h = p
    OBVIOUS
  <2>1. m \in 1 .. 3
    OBVIOUS
  <2> QED
    BY <1>1, <2>1, CallOfBinding
<1>11. listened \subseteq listened' /\ (n = 3 => p \in listened')
  BY <1>2, <1>5
<1>12. /\ n # 3 => \E m \in 2 .. 3 : todo' = From(Bound(g), m)
       /\ n = 3 => todo' = Dispatched
  <2>1. n # 3 => n + 1 \in 2 .. 3
    OBVIOUS
  <2> QED
    BY <1>2, <1>4, <2>1
<1>13. /\ TodoMade'
       /\ \A h \in Globals : queueOf'[h] = "user" =>
            h \in listened' \/ \E m \in 2 .. 3 : todo' = From(Bound(h), m)
  <2>1. TodoMade'
    <3>1. CASE n = 3
      BY <1>12, <3>1 DEF TodoMade, Dispatched, Call
    <3>2. CASE n # 3
      <4>1. PICK m \in 2 .. 3 : todo' = From(Bound(g), m)
        BY <1>12, <3>2
      <4>2. m \in 1 .. 3
        OBVIOUS
      <4> QED
        BY <4>1, <4>2 DEF TodoMade, From, Bound, Binding, Dispatched, Call
    <3> QED
      BY <3>1, <3>2
  <2>2. ASSUME NEW h \in Globals, queueOf'[h] = "user"
        PROVE  h \in listened' \/ \E m \in 2 .. 3 : todo' = From(Bound(h), m)
    <3>1. CASE h = p
      BY <1>5, <1>11, <1>12, <3>1
    <3>2. CASE h # p
      <4>1. queueOf[h] = "user"
        BY <1>5, <1>9, <2>2, <3>2
      <4>2. h \in listened
        BY <1>10, <3>2, <4>1 DEF Made, MadeBy
      <4> QED
        BY <1>11, <4>2
    <3> QED
      BY <3>1, <3>2
  <2> QED
    BY <2>1, <2>2
<1>14. MadeBy'
  <2>1. /\ created' /\ {Registry, Callback} \subseteq listened'
        /\ queueOf'[Registry] = "user" /\ queueOf'[Callback] = "user"
    BY <1>2, <1>5, <1>9, <1>11 DEF Made, MadeBy
  <2>2. \A h \in Globals : queueOf'[h] \in {"none", "user"}
    BY <1>5, <1>9 DEF Made, MadeBy
  <2>3. \A h \in Globals : (\E m \in 2 .. 3 : todo = From(Bound(h), m))' <=>
                           \E m \in 2 .. 3 : todo' = From(Bound(h), m)
    BY DEF From, Bound, Binding, Dispatched, Call
  <2> QED
    BY <1>13, <2>1, <2>2, <2>3 DEF MadeBy
<1>15. OnTheWay'
  <2>1. CASE UNCHANGED out
    BY <1>2, <1>9, <2>1, OnTheWayStays DEF Made
  <2>2. CASE out' = Append(out, p) /\ n = 1
    <3> DEFINE us == UserProxies'
               hs == Heard'
    <3>1. UserProxies \subseteq us /\ Heard \subseteq hs /\ Passed' = Passed
      BY <1>9, UserProxiesGrow
    <3>2. p \in us
      BY <1>5, <1>9, <2>2, ToldStays DEF UserProxies
    <3> HIDE DEF us, hs
    <3>3. Heard \union Passed \subseteq hs \union Passed
      BY <3>1
    <3>4. /\ Seq(UserProxies) \subseteq Seq(us) /\ Seq(Heard) \subseteq Seq(hs)
          /\ Seq(Heard \union Passed) \subseteq Seq(hs \union Passed)
      BY <3>1, <3>3, SeqGrows
    <3>5. out \in Seq(us) /\ inbox' \in Seq(us)
      BY <1>2, <3>4 DEF Made, OnTheWay
    <3>6. out' \in Seq(us)
      BY <2>2, <3>2, <3>5
    <3>7. /\ wire' \in Seq(hs \union Passed)
          /\ queue'["user"] \in Seq(hs) /\ queue'["default"] \in Seq(Passed)
      BY <1>2, <3>4 DEF Made, OnTheWay
    <3> QED
      BY <3>1, <3>5, <3>6, <3>7 DEF OnTheWay, us, hs
  <2> QED
    BY <1>2, <1>5, <2>1, <2>2
<1>16. queueOf'[Other] = "default"
  BY <1>5, <1>9 DEF SetupInv
<1> QED
  BY <1>2, <1>14, <1>15, <1>16 DEF SetupInv, Made

LEMMA MadeDispatch ==
  ASSUME Inv, SetupInv, Made, DispatchNext
  PROVE  /\ SetupInv'
         /\ handled' = Append(handled, Head(queue["user"]))
<1> DEFINE e == Head(queue["user"])
           handler == IF e.to = Registry THEN Binding(e.about) ELSE <<>>
<1>1. /\ UNCHANGED <<inbox, wire, others, sent, out, queueOf, listened, at, signals, created>>
      /\ todo # <<>> /\ Head(todo).op = "dispatch"
      /\ queue["user"] # <<>> /\ queue' = [queue EXCEPT !["user"] = Tail(@)]
      /\ e.to \in listened =>
           handled' = Append(handled, e) /\ todo' = handler \o todo /\ astray' = astray
  BY DEF DispatchNext, serverVars, proxyVars, Doing
<1>2. todo = Dispatched
  BY <1>1, Turns DEF Inv
<1>3. e \in Heard /\ Tail(queue["user"]) \in Seq(Heard)
  <2>1. queue["user"] \in Seq(Heard)
    BY DEF Made, OnTheWay
  <2> QED
    BY <1>1, <2>1
<1> HIDE DEF e
<1>4. e.to \in listened /\ e \in Told
  BY <1>2, <1>3, ListenedTo DEF Heard, Made
<1>5. handled' = Append(handled, e) /\ todo' = handler \o todo /\ astray' = astray
  BY <1>1, <1>4
<1>6. /\ e.to = Registry => e.about \in Globals /\ todo' = From(Bound(e.about), 1)
      /\ e.to # Registry => todo' = todo
  <2>1. ASSUME e.to = Registry PROVE e.about \in Globals /\ todo' = From(Bound(e.about), 1)
    <3>1. e.about \in Globals
      BY <1>4, <2>1 DEF Told
    <3>2. todo' = Bound(e.about)
      BY <1>2, <1>5, <2>1 DEF Bound
    <3> QED
      BY <3>1, <3>2, BoundFacts
  <2>2. ASSUME e.to # Registry PROVE todo' = todo
    BY <1>2, <1>5, <2>2, DispatchedFacts
  <2> QED
    BY <2>1, <2>2
<1> HIDE DEF handler
<1>7. MadeBy'
  <2>1. CASE e.to # Registry
    BY <1>1, <1>6, <2>1, MadeByStays DEF Made
  <2>2. CASE e.to = Registry
    <3>1. PICK h \in Globals : todo' = From(Bound(h), 1)
      BY <1>6, <2>2
    <3>2. TodoMade'
      BY <3>1 DEF TodoMade, From, Bound, Binding, Dispatched, Call
    <3>3. \A g \in Globals : queueOf'[g] = "user" => g \in listened'
      <4> SUFFICES ASSUME NEW g \in Globals, queueOf[g] = "user" PROVE g \in listened
        BY <1>1
      <4>1. g \in UserProxies
        BY DispatchingAssumption DEF UserProxies, Proxies
      <4> QED
        BY <1>2, <4>1, ListenedTo DEF Made
    <3> QED
      BY <1>1, <3>2, <3>3 DEF Made, MadeBy
  <2> QED
    BY <2>1, <2>2
<1>8. OnTheWay'
  <2>1. UserProxies' = UserProxies /\ Heard' = Heard /\ Passed' = Passed
    BY <1>1, ToldStays DEF UserProxies, Heard, Passed
  <2>2. queue'["user"] \in Seq(Heard) /\ queue'["default"] = queue["default"]
    BY <1>1, <1>3 DEF Inv, TypeInv
  <2> QED
    BY <1>1, <2>1, <2>2 DEF Made, OnTheWay
<1> QED
  BY <1>1, <1>5, <1>7, <1>8 DEF SetupInv, Made, e

LEMMA MadeUserStep ==
  ASSUME Inv, SetupInv, Made, CreateRegistry \/ UserLoop
  PROVE  SetupInv'
<1>1. ~CreateRegistry
  BY DEF CreateRegistry, Made, MadeBy
<1>2. CASE DeliverEventsRead
  <2>1. /\ UNCHANGED <<inbox, wire, others, sent, out, queueOf, listened, queue, at, created,
                       handled, astray>>
        /\ todo = <<>> /\ todo' = Dispatched
    BY <1>2 DEF DeliverEventsRead, serverVars, proxyVars, Dispatched
  <2>2. OnTheWay'
    BY <2>1, OnTheWayStays DEF Made
  <2>3. \A g \in Globals : queueOf'[g] = "user" => g \in listened'
    <3> SUFFICES ASSUME NEW g \in Globals, queueOf[g] = "user" PROVE g \in listened
      BY <2>1
    <3>1. g \in UserProxies
      BY DispatchingAssumption DEF UserProxies, Proxies
    <3> QED
      BY <2>1, <3>1, ListenedTo DEF Made
  <2>4. TodoMade'
    BY <2>1 DEF TodoMade, Dispatched, Call
  <2> QED
    BY <2>1, <2>2, <2>3, <2>4 DEF SetupInv, Made, MadeBy
<1>3. CASE EndDispatch
  <2>1. /\ UNCHANGED <<wire, others, sent, queueOf, listened, queue, at, created, handled, astray>>
        /\ todo # <<>> /\ todo' = Tail(todo) /\ Head(todo).op = "dispatch" /\ Flush
    BY <1>3 DEF EndDispatch, proxyVars, Doing
  <2>2. todo = Dispatched /\ todo' = <<>>
    BY <2>1, Turns, DispatchedFacts DEF Inv
  <2>3. OnTheWay'
    BY <2>1, FlushOnTheWay DEF Made
  <2>4. \A g \in Globals : queueOf'[g] = "user" => g \in listened'
    <3> SUFFICES ASSUME NEW g \in Globals, queueOf[g] = "user" PROVE g \in listened
      BY <2>1
    <3>1. g \in UserProxies
      BY DispatchingAssumption DEF UserProxies, Proxies
    <3> QED
      BY <2>2, <3>1, ListenedTo DEF Made
  <2>5. TodoMade'
    BY <2>2 DEF TodoMade
  <2> QED
    BY <2>1, <2>3, <2>4, <2>5 DEF SetupInv, Made, MadeBy
<1>4. CASE flushFromEventLoop
  <2>1. /\ UNCHANGED <<wire, others, sent, queueOf, listened, queue, at, todo, created,
                       handled, astray>>
        /\ Flush
    BY <1>4 DEF flushFromEventLoop, proxyVars, userVars
  <2>2. OnTheWay' /\ MadeBy'
    BY <2>1, FlushOnTheWay, MadeByStays DEF Made
  <2> QED
    BY <2>1, <2>2 DEF SetupInv, Made
<1> QED
  BY <1>1, <1>2, <1>3, <1>4, MadeBinding, MadeDispatch DEF UserLoop


LEMMA SetupInit == Init => SetupInv
<1> SUFFICES ASSUME Init PROVE SetupInv
  OBVIOUS
<1>1. /\ Other \in Proxies /\ Callback # Other
      /\ \A g \in Globals : g \in Proxies /\ g # Other
  BY DispatchingAssumption DEF Proxies
<1>2. Unmade /\ queueOf[Other] = "default"
  BY <1>1 DEF Init, Unmade, Silent
<1> QED
  BY <1>2 DEF Init, SetupInv

LEMMA SetupStep ==
  ASSUME ~EarlyTraffic, Inv, SetupInv, [Next]_vars
  PROVE  SetupInv'
<1>1. CASE UNCHANGED vars
  <2>1. UNCHANGED <<inbox, wire, others, sent, out, queueOf, listened, queue, at, signals, todo,
                    created, handled, astray>>
    BY <1>1 DEF vars, serverVars, proxyVars, userVars
  <2>2. Unmade => Unmade'
    BY <2>1 DEF Unmade, Silent
  <2>3. ASSUME NEW n \in 1 .. 6, Making(n) PROVE Making(n)'
    BY <2>1, <2>3 DEF Making, Silent, From, Creation, Call
  <2>4. Made => Made'
    BY <2>1, MadeByStays, OnTheWayStays DEF Made
  <2> QED
    BY <2>1, <2>2, <2>3, <2>4 DEF SetupInv
<1>2. CASE Next
  <2>1. ASSUME NEW n \in 1 .. 6, Making(n) PROVE SetupInv'
    BY <1>2, <2>1, MakingStepInv
  <2>2. CASE Made
    BY <1>2, <2>2, MadeServerStep, MadeConnectionStep, MadeUserStep DEF Next
  <2>3. CASE Unmade
    BY <1>2, <2>3, UnmadeStep
  <2> QED
    BY <2>1, <2>2, <2>3 DEF SetupInv
<1> QED
  BY <1>1, <1>2

-----------------------------------------------------------------------------
(* Events are handled once and in order.                                   *)

LEMMA HeadMoves ==
  ASSUME NEW S, NEW a \in Seq(S), NEW b \in Seq(S), b # <<>>
  PROVE  Append(a, Head(b)) \o Tail(b) = a \o b
<1> DEFINE h == <<Head(b)>>
           t == Tail(b)
<1>1. Head(b) \in S /\ t \in Seq(S)
  OBVIOUS
<1>2. h \in Seq(S) /\ Append(a, Head(b)) = a \o h /\ DOMAIN h = {1} /\ h[1] = Head(b)
  BY <1>1, AppendIs
<1>3. h \o t = b
  <2> DEFINE x == h \o t
  <2>1. /\ x \in Seq(S) /\ Len(x) = Len(b) /\ Len(b) \in Nat
        /\ \A k \in 1 .. Len(b) : x[k] = b[k]
    OBVIOUS
  <2> HIDE DEF x
  <2>2. x = b
    BY <2>1
  <2> QED
    BY <2>2 DEF x
<1> HIDE DEF h, t
<1>4. (a \o h) \o t = a \o (h \o t)
  BY <1>1, <1>2, ConcatAssociative
<1> QED
  BY <1>2, <1>3, <1>4 DEF t

\* The events for the user are those its queue takes.
LEMMA UsersEvents ==
  ASSUME Inv, SetupInv, Made, NEW s \in Seq(Told), Picked(s, wire, Proxies \ {Other})
  PROVE  EventsFor("user") = s
<1> DEFINE ps == {p \in Proxies : queueOf[p] = "user"}
<1>1. PICK f : Order(f, s, wire, Proxies \ {Other})
  BY DEF Picked
<1>2. wire \in Seq(Heard \union Passed) /\ wire \in Seq(Told)
  BY DEF Made, OnTheWay, Inv, TypeInv
<1>3. \A k \in 1 .. Len(wire) : wire[k].to \in Proxies \ {Other} <=> wire[k].to \in ps
  <2> SUFFICES ASSUME NEW k \in 1 .. Len(wire)
               PROVE  wire[k].to \in Proxies \ {Other} <=> wire[k].to \in ps
    OBVIOUS
  <2>1. k \in DOMAIN wire
    BY <1>2
  <2>2. wire[k] \in Heard \/ wire[k] \in Passed
    <3> DEFINE both == Heard \union Passed
    <3>1. wire \in Seq(both)
      BY <1>2
    <3> HIDE DEF both
    <3>2. wire[k] \in both
      BY <2>1, <3>1
    <3> QED
      BY <3>2 DEF both
  <2>3. queueOf[Other] = "default"
    BY DEF SetupInv
  <2> QED
    BY <2>2, <2>3 DEF Heard, Passed, UserProxies
<1>4. f \in [1 .. Len(s) -> 1 .. Len(wire)]
  BY <1>1 DEF Order
<1>5. Order(f, s, wire, ps)
  <2> HIDE DEF ps
  <2> QED
    BY <1>1, <1>3, <1>4 DEF Order
<1>6. Picked(s, wire, ps)
  BY <1>5 DEF Picked
<1> QED
  BY <1>2, <1>6, PickedIsFound

\* What a step does to the events.
LEMMA EventSteps ==
  ASSUME ~EarlyTraffic, Inv, SetupInv, Next
  PROVE  \/ UNCHANGED <<sent, handled, wire>> /\ queue'["user"] = queue["user"]
         \/ Made /\ Serve
         \/ SendOther
         \/ Made /\ ReadEvents
         \/ Made /\ DispatchNext
<1>1. CASE CreateRegistry \/ RequestProxy \/ addProxy \/ AddListener \/ DeliverEventsRead
             \/ EndDispatch \/ flushFromEventLoop \/ Notified \/ PrepareRead \/ EmitEventsRead
  BY <1>1 DEF CreateRegistry, RequestProxy, addProxy, AddListener, DeliverEventsRead,
              EndDispatch, flushFromEventLoop, Notified, PrepareRead, EmitEventsRead,
              serverVars, userVars
<1>2. CASE DispatchDefault
  <2>1. UNCHANGED <<sent, handled, wire>> /\ queue' = [queue EXCEPT !["default"] = Tail(@)]
    BY <1>2 DEF DispatchDefault, serverVars, userVars
  <2> QED
    BY <2>1 DEF Inv, TypeInv
<1>3. CASE Serve \/ ReadEvents \/ DispatchNext
  <2>1. CASE Serve
    <3>1. ~Silent
      BY <2>1 DEF Silent, Serve
    <3> QED
      BY <2>1, <3>1 DEF SetupInv, Unmade, Making
  <2>2. CASE ReadEvents
    <3>1. ~Silent
      BY <2>2 DEF Silent, ReadEvents
    <3> QED
      BY <2>2, <3>1 DEF SetupInv, Unmade, Making
  <2>3. CASE DispatchNext
    <3>1. ~Silent
      BY <2>3 DEF Silent, DispatchNext
    <3> QED
      BY <2>3, <3>1 DEF SetupInv, Unmade, Making
  <2> QED
    BY <1>3, <2>1, <2>2, <2>3
<1> QED
  BY <1>1, <1>2, <1>3 DEF Next, Server, ConnectionLoop, UserLoop


LEMMA DeliveryInit == Init => DeliveryInv
<1> SUFFICES ASSUME Init PROVE DeliveryInv
  OBVIOUS
<1>1. /\ wire = <<>> /\ sent = <<>> /\ handled = <<>> /\ queue["user"] = <<>>
      /\ <<>> \in Seq(Told)
  BY DEF Init
<1>2. Picked(<<>>, wire, Proxies \ {Other})
  BY <1>1, PickedNone
<1>3. (handled \o queue["user"]) \o <<>> = <<>>
  BY <1>1
<1> QED
  BY <1>1, <1>2, <1>3 DEF DeliveryInv

\* Which events there are in a state.
Deliverable(h, q, w, all) ==
  \E s \in Seq(Told) : Picked(s, w, Proxies \ {Other}) /\ all = (h \o q) \o s

LEMMA DeliverableInv == DeliveryInv <=> Deliverable(handled, queue["user"], wire, sent)
BY DEF DeliveryInv, Deliverable

LEMMA DeliveryStep ==
  ASSUME ~EarlyTraffic, Inv, SetupInv, DeliveryInv, [Next]_vars
  PROVE  DeliveryInv'
<1> SUFFICES Deliverable(handled', queue'["user"], wire', sent')
  BY ToldStays DEF DeliveryInv, Deliverable
<1>1. PICK s \in Seq(Told) :
        /\ Picked(s, wire, Proxies \ {Other})
        /\ sent = (handled \o queue["user"]) \o s
  BY DEF DeliveryInv
<1> DEFINE q == queue["user"]
<1>2. /\ wire \in Seq(Told) /\ sent \in Seq(Told) /\ handled \in Seq(Told)
      /\ q \in Seq(Told) /\ handled \o q \in Seq(Told)
  BY DEF Inv, TypeInv
<1>3. CASE UNCHANGED <<sent, handled, wire>> /\ queue'["user"] = queue["user"]
  BY <1>1, <1>3 DEF Deliverable
<1>4. CASE Made /\ Serve
  <2>1. /\ inbox # <<>> /\ Head(inbox) \in UserProxies
        /\ UNCHANGED <<handled, queue>>
    <3> DEFINE us == UserProxies
    <3>1. inbox \in Seq(us) /\ inbox # <<>>
      BY <1>4 DEF Made, OnTheWay, Serve
    <3>2. Head(inbox) \in us
      <4> HIDE DEF us
      <4> QED
        BY <3>1
    <3> QED
      BY <1>4, <3>1, <3>2 DEF Serve, userVars
  <2>2. PICK es \in Answers(Head(inbox)) : wire' = wire \o es /\ sent' = sent \o es
    BY <1>4 DEF Serve
  <2>3. Head(inbox) \in Proxies \ {Other}
    BY <2>1 DEF UserProxies
  <2>4. es \in Seq(Told) /\ \A k \in DOMAIN es : es[k].to = Head(inbox)
    BY <2>3, AnswersFacts
  <2>5. Picked(s \o es, wire \o es, Proxies \ {Other})
    BY <1>1, <1>2, <2>3, <2>4, PickedBehind
  <2>6. sent' = (handled \o q) \o (s \o es) /\ s \o es \in Seq(Told)
    <3> HIDE DEF q
    <3>1. ((handled \o q) \o s) \o es = (handled \o q) \o (s \o es)
      <4> DEFINE hq == handled \o q
      <4>1. hq \in Seq(Told) /\ es \in Seq(Told)
        BY <1>2, <2>4
      <4> HIDE DEF hq
      <4>2. (hq \o s) \o es = hq \o (s \o es)
        BY <4>1, ConcatAssociative
      <4> QED
        BY <4>2 DEF hq
    <3> QED
      BY <1>1, <2>2, <2>4, <3>1 DEF q
  <2>7. Picked(s \o es, wire', Proxies \ {Other})
    BY <2>2, <2>5
  <2> QED
    BY <2>1, <2>6, <2>7 DEF Deliverable
<1>5. CASE SendOther
  <2> DEFINE e == Event(Other, Other)
             es == <<e>>
  <2>1. e \in Told /\ e.to = Other
    BY DispatchingAssumption DEF Event, Told, Events, Proxies
  <2>2. wire' = Append(wire, e) /\ UNCHANGED <<sent, handled, queue>>
    BY <1>5 DEF SendOther, userVars
  <2> HIDE DEF e
  <2>3. es \in Seq(Told) /\ DOMAIN es = {1} /\ es[1] = e /\ wire' = wire \o es
    BY <1>2, <2>1, <2>2, AppendIs
  <2>4. \A k \in DOMAIN es : es[k].to \notin Proxies \ {Other}
    BY <2>1, <2>3
  <2> HIDE DEF es
  <2>5. Picked(s, wire', Proxies \ {Other})
    BY <1>1, <1>2, <2>3, <2>4, PickedPast
  <2> QED
    BY <1>1, <2>2, <2>5 DEF Deliverable
<1>6. CASE Made /\ ReadEvents
  <2>1. /\ wire' = <<>> /\ UNCHANGED <<sent, handled>>
        /\ queue'["user"] = q \o EventsFor("user")
    BY <1>6 DEF ReadEvents, userVars, Inv, TypeInv
  <2>2. queue'["user"] = q \o s
    BY <1>1, <1>6, <2>1, UsersEvents
  <2>3. Picked(<<>>, wire', Proxies \ {Other}) /\ <<>> \in Seq(Told)
    BY <2>1, PickedNone
  <2>4. sent' = (handled' \o queue'["user"]) \o <<>>
    <3> HIDE DEF q
    <3>3. q \in Seq(Told) /\ handled \in Seq(Told)
      BY <1>2 DEF q
    <3>4. (handled \o q) \o s = handled \o (q \o s)
      BY <3>3, ConcatAssociative
    <3>1. (handled \o q) \o s = handled \o (q \o s) /\ handled \o (q \o s) \in Seq(Told)
      BY <3>3, <3>4
    <3>2. (handled \o (q \o s)) \o <<>> = handled \o (q \o s)
      <4> DEFINE all == handled \o (q \o s)
      <4>1. all \in Seq(Told)
        BY <3>1
      <4> HIDE DEF all
      <4>2. all \o <<>> = all
        BY <4>1
      <4> QED
        BY <4>2 DEF all
    <3> QED
      BY <1>1, <2>1, <2>2, <3>1, <3>2 DEF q
  <2> QED
    BY <2>3, <2>4 DEF Deliverable
<1>7. CASE Made /\ DispatchNext
  <2>1. /\ UNCHANGED <<wire, sent>> /\ q # <<>> /\ queue'["user"] = Tail(q)
    BY <1>7 DEF DispatchNext, serverVars, Inv, TypeInv
  <2>2. handled' = Append(handled, Head(q))
    BY <1>7, MadeDispatch
  <2>3. handled' \o queue'["user"] = handled \o q
    <3> HIDE DEF q
    <3> QED
      BY <1>2, <2>1, <2>2, HeadMoves
  <2> QED
    BY <1>1, <2>1, <2>3 DEF Deliverable
<1>8. CASE UNCHANGED vars
  BY <1>3, <1>8 DEF vars, serverVars, userVars
<1> QED
  BY <1>3, <1>4, <1>5, <1>6, <1>7, <1>8, EventSteps

LEMMA BehindIsPrefix ==
  ASSUME NEW S, NEW s \in Seq(S), NEW t \in Seq(S)
  PROVE  Delivery!IsPrefix(s, s \o t)
<1> DEFINE all == s \o t
<1>1. /\ all \in Seq(S) /\ Len(all) = Len(s) + Len(t) /\ Len(s) \in Nat /\ Len(t) \in Nat
      /\ \A k \in 1 .. Len(s) : all[k] = s[k]
  OBVIOUS
<1> HIDE DEF all
<1>2. SubSeq(all, 1, Len(s)) = SubSeq(s, 1, Len(s)) /\ Len(s) <= Len(all)
  BY <1>1
<1> QED
  BY <1>2 DEF Delivery!IsPrefix, all

\* Each step is one that EventDelivery allows.
LEMMA DeliveryNext ==
  ASSUME ~EarlyTraffic, Inv, SetupInv, DeliveryInv, [Next]_vars
  PROVE  [Delivery!Next]_(Delivery!vars)
<1>1. CASE UNCHANGED <<sent, handled>>
  BY <1>1 DEF Delivery!vars
<1>2. CASE Serve
  <2>1. inbox # <<>> /\ inbox \in Seq(Proxies) /\ Head(inbox) \in Proxies /\ UNCHANGED handled
    BY <1>2 DEF Serve, userVars, Inv, TypeInv
  <2>2. PICK es \in Answers(Head(inbox)) : sent' = sent \o es
    BY <1>2 DEF Serve
  <2>3. es \in Seq(Told) /\ sent \in Seq(Told)
    BY <2>1, AnswersFacts DEF Inv, TypeInv
  <2>4. Delivery!IsPrefix(sent, sent')
    BY <2>2, <2>3, BehindIsPrefix
  <2>5. CASE sent' = sent
    BY <1>1, <2>1, <2>5
  <2>6. CASE sent' # sent
    BY <2>1, <2>4, <2>6 DEF Delivery!Next, Delivery!Send, Delivery!IsStrictPrefix
  <2> QED
    BY <2>5, <2>6
<1>3. CASE Made /\ DispatchNext
  <2> DEFINE q == queue["user"]
  <2>1. q # <<>> /\ UNCHANGED sent /\ handled' = Append(handled, Head(q))
    BY <1>3, MadeDispatch DEF DispatchNext, serverVars
  <2>2. PICK s \in Seq(Told) : sent = (handled \o q) \o s
    BY DEF DeliveryInv
  <2>3. q \in Seq(Told) /\ handled \in Seq(Told)
    BY DEF Inv, TypeInv
  <2> HIDE DEF q
  <2> DEFINE hq == handled \o q
  <2>4. /\ hq \in Seq(Told) /\ Len(hq) = Len(handled) + Len(q) /\ Len(q) \in Nat
        /\ Len(handled) \in Nat /\ Len(q) >= 1
        /\ hq[Len(handled) + 1] = Head(q)
    BY <2>1, <2>3
  <2> HIDE DEF hq
  <2>5. /\ Len(sent) = Len(hq) + Len(s) /\ Len(s) \in Nat
        /\ sent[Len(handled) + 1] = hq[Len(handled) + 1]
    BY <2>2, <2>4 DEF hq
  <2>6. Len(handled) < Len(sent) /\ sent[Len(handled) + 1] = Head(q)
    BY <2>4, <2>5
  <2> QED
    BY <2>1, <2>6 DEF Delivery!Next, Delivery!Handle
<1>4. CASE SendOther \/ (Made /\ ReadEvents) \/ UNCHANGED vars
  BY <1>1, <1>4 DEF SendOther, ReadEvents, userVars, vars, serverVars
<1> QED
  BY <1>1, <1>2, <1>3, <1>4, EventSteps

LEMMA SetupInvariance ==
  ASSUME ~EarlyTraffic
  PROVE  Spec => [](Inv /\ SetupInv /\ DeliveryInv)
<1>1. Init => Inv /\ SetupInv /\ DeliveryInv
  BY InitInv, SetupInit, DeliveryInit
<1>2. Inv /\ SetupInv /\ DeliveryInv /\ [Next]_vars => (Inv /\ SetupInv /\ DeliveryInv)'
  BY StepInv, SetupStep, DeliveryStep
<1> QED
  BY <1>1, <1>2, PTL DEF Spec

\* When the connection's thread has nothing to read before a Registry is set up,
\* no event of the user's proxies is dispatched in that thread or dropped,
\* however many globals are announced and bound in whatever interleaving.
THEOREM NothingGoesAstray ==
  ASSUME ~EarlyTraffic
  PROVE  Spec => []NothingAstray
<1>1. SetupInv => NothingAstray
  BY DEF SetupInv, NothingAstray
<1> QED
  BY <1>1, SetupInvariance, PTL

\* The same two threads handle the events once and in order: the safety part of
\* DeliversEvents, the fairness of which is checked by TLC.
THEOREM DeliversInOrder ==
  ASSUME ~EarlyTraffic
  PROVE  Spec => Delivery!Init /\ [][Delivery!Next]_(Delivery!vars)
<1>1. Init => Delivery!Init
  BY DEF Init, Delivery!Init
<1>2. Inv /\ SetupInv /\ DeliveryInv /\ [Next]_vars => [Delivery!Next]_(Delivery!vars)
  BY DeliveryNext
<1> QED
  BY <1>1, <1>2, SetupInvariance, PTL DEF Spec
=============================================================================
