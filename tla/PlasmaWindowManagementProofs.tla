-------------------- MODULE PlasmaWindowManagementProofs --------------------
(***************************************************************************)
(* Theorems about PlasmaWindowManagement: the list of windows, the active  *)
(* window and the parents stay consistent, the model's rows follow the     *)
(* list, and what is left when the wire is empty is what the compositor    *)
(* has, for every set of windows and every bound.                          *)
(***************************************************************************)
EXTENDS PlasmaWindowManagement, Replay, FiniteSetTheorems, WellFoundedInduction, TLAPS

\* What may be on its way to the client: events about objects in ids, and no
\* window is announced as its own parent.
EventsAbout(ids) ==
  UNION {[type : {"window"}, win : Windows, epoch : Nat],
         [type : {"state"}, id : ids, set : BOOLEAN],
         {e \in [type : {"parent"}, id : ids, parent : ids \union {0}] : e.parent # e.id},
         [type : {"initial", "unmapped"}, id : ids]}

WireInv ==
  /\ events \in Seq(EventsAbout(Ids))
  /\ requests \in Seq([id : Ids, win : Windows])

\* An object is created only after setup(), and is not its own parent.
ObjectsInv ==
  /\ wm = "bound" => setups > 0
  /\ \A id \in Ids : obj[id].parent # id

TypeInv == TypeOK /\ WireInv /\ ObjectsInv
Inv == TypeInv /\ WindowsConsistent
-----------------------------------------------------------------------------
(* Sequences.                                                              *)

\* What RemoveAt leaves.
LEMMA RemoveAtFacts ==
  ASSUME NEW S, NEW s \in Seq(S), NEW k \in DOMAIN s
  PROVE  /\ RemoveAt(s, k) \in Seq(S)
         /\ Len(RemoveAt(s, k)) = Len(s) - 1 /\ DOMAIN RemoveAt(s, k) = 1 .. Len(s) - 1
         /\ \A n \in 1 .. Len(s) - 1 : RemoveAt(s, k)[n] = IF n < k THEN s[n] ELSE s[n + 1]
BY WithoutOne DEF RemoveAt

LEMMA ConcatType ==
  ASSUME NEW S, NEW s \in Seq(S), NEW t \in Seq(S)
  PROVE  s \o t \in Seq(S)
OBVIOUS

LEMMA AppendFacts ==
  ASSUME NEW S, NEW s \in Seq(S), NEW e \in S
  PROVE  /\ Append(s, e) \in Seq(S)
         /\ Len(Append(s, e)) = Len(s) + 1
         /\ Append(s, e)[Len(s) + 1] = e
         /\ \A n \in 1 .. Len(s) : Append(s, e)[n] = s[n]
OBVIOUS

LEMMA TailFacts ==
  ASSUME NEW S, NEW s \in Seq(S), s # <<>>
  PROVE  Head(s) \in S /\ Tail(s) \in Seq(S)
OBVIOUS

LEMMA SeqGrows ==
  ASSUME NEW S, NEW T, S \subseteq T, NEW s \in Seq(S)
  PROVE  s \in Seq(T)
OBVIOUS

\* The enumerations of a finite set are sequences of its elements.
LEMMA Enumerations ==
  ASSUME NEW S, IsFiniteSet(S), NEW s \in SetToSeqs(S)
  PROVE  s \in Seq(S)
<1>1. Cardinality(S) \in Nat
  BY FS_CardinalityType
<1>2. s \in [1 .. Cardinality(S) -> S]
  BY DEF SetToSeqs
<1> QED
  BY <1>1, <1>2

LEMMA WithoutType ==
  ASSUME NEW S, NEW s \in Seq(S), NEW id
  PROVE  Without(s, id) \in Seq(S)
<1>1. CASE id \in ToSet(s)
  <2>1. (CHOOSE n \in DOMAIN s : s[n] = id) \in DOMAIN s
    BY <1>1 DEF ToSet
  <2> QED
    BY <1>1, <2>1, RemoveAtFacts DEF Without
<1> QED
  BY <1>1 DEF Without

\* A list without repetition loses exactly the element that is taken out.
LEMMA WithoutFacts ==
  ASSUME NEW S, NEW s \in Seq(S), IsInjective(s), NEW id
  PROVE  /\ ToSet(Without(s, id)) = ToSet(s) \ {id}
         /\ IsInjective(Without(s, id))
<1>1. CASE id \in ToSet(s)
  <2> DEFINE k == CHOOSE n \in DOMAIN s : s[n] = id
             t == RemoveAt(s, k)
  <2>1. k \in 1 .. Len(s) /\ s[k] = id
    BY <1>1 DEF ToSet
  <2>2. Without(s, id) = t
    BY <1>1 DEF Without
  <2> HIDE DEF k
  <2>3. /\ t \in Seq(S) /\ Len(t) = Len(s) - 1
        /\ \A n \in 1 .. Len(s) - 1 : t[n] = IF n < k THEN s[n] ELSE s[n + 1]
    BY <2>1, RemoveAtFacts
  <2> HIDE DEF t
  <2>4. DOMAIN t = 1 .. Len(s) - 1 /\ DOMAIN s = 1 .. Len(s) /\ Len(s) \in Nat
    BY <2>3
  <2>5. \A m, n \in 1 .. Len(s) : s[m] = s[n] => m = n
    BY <2>4 DEF IsInjective
  <2>6. ASSUME NEW n \in DOMAIN t
        PROVE  t[n] \in ToSet(s) \ {id}
    <3>1. CASE n < k
      BY <2>1, <2>3, <2>4, <2>5, <3>1 DEF ToSet
    <3>2. CASE ~(n < k)
      <4>1. n + 1 \in 1 .. Len(s) /\ n + 1 # k
        BY <2>1, <2>4, <3>2
      <4> QED
        BY <2>1, <2>3, <2>4, <2>5, <3>2, <4>1 DEF ToSet
    <3> QED
      BY <3>1, <3>2
  <2>7. ASSUME NEW m \in 1 .. Len(s), s[m] # id
        PROVE  \E n \in DOMAIN t : t[n] = s[m]
    <3>1. CASE m < k
      <4>1. m \in DOMAIN t /\ t[m] = s[m]
        BY <2>1, <2>3, <2>4, <3>1
      <4> QED
        BY <4>1
    <3>2. CASE m > k
      <4>1. m - 1 \in DOMAIN t /\ t[m - 1] = s[m]
        BY <2>1, <2>3, <2>4, <3>2
      <4> QED
        BY <4>1
    <3> QED
      BY <2>1, <2>7, <3>1, <3>2
  <2>8. ToSet(t) = ToSet(s) \ {id}
    BY <2>4, <2>6, <2>7 DEF ToSet
  <2>9. ASSUME NEW m \in DOMAIN t, NEW n \in DOMAIN t, t[m] = t[n]
        PROVE  m = n
    <3> DEFINE old(j) == IF j < k THEN j ELSE j + 1
    <3>1. old(m) \in 1 .. Len(s) /\ old(n) \in 1 .. Len(s)
      BY <2>1, <2>4
    <3>2. s[old(m)] = s[old(n)]
      BY <2>3, <2>4, <2>9
    <3>3. old(m) = old(n)
      BY <2>5, <3>1, <3>2
    <3> QED
      BY <2>1, <2>4, <3>3
  <2> QED
    BY <2>2, <2>8, <2>9 DEF IsInjective
<1> QED
  BY <1>1 DEF Without
-----------------------------------------------------------------------------
(* The wire.                                                               *)

LEMMA EventsGrow ==
  ASSUME NEW ids, NEW more, ids \subseteq more
  PROVE  EventsAbout(ids) \subseteq EventsAbout(more)
BY DEF EventsAbout

LEMMA EventTypes ==
  ASSUME NEW ids
  PROVE  /\ \A w \in Windows, n \in Nat : Announce(w, n) \in EventsAbout(ids)
         /\ \A id \in ids : /\ Initial(id) \in EventsAbout(ids)
                            /\ Unmapped(id) \in EventsAbout(ids)
                            /\ \A set \in BOOLEAN : StateEvent(id, set) \in EventsAbout(ids)
                            /\ \A p \in ids \union {0} :
                                 p # id => Parent(id, p) \in EventsAbout(ids)
BY DEF EventsAbout, Announce, Initial, Unmapped, StateEvent, Parent

\* The next event, by its type.
LEMMA NextEvent ==
  ASSUME WireInv, NEW t, Takes(t)
  PROVE  /\ Head(events) \in EventsAbout(Ids) /\ Head(events).type = t
         /\ t = "window" => Head(events).win \in Windows
         /\ t # "window" => Head(events).id \in Ids
         /\ t = "state" => Head(events).set \in BOOLEAN
         /\ t = "parent" => /\ Head(events).parent \in Ids \union {0}
                            /\ Head(events).parent # Head(events).id
         /\ events' \in Seq(EventsAbout(Ids))
<1>1. /\ events \in Seq(EventsAbout(Ids)) /\ events # <<>>
      /\ Head(events).type = t /\ events' = Tail(events)
  BY DEF WireInv, Takes
<1>2. Head(events) \in EventsAbout(Ids) /\ Tail(events) \in Seq(EventsAbout(Ids))
  BY <1>1, TailFacts
<1> QED
  BY <1>1, <1>2 DEF EventsAbout

\* The objects the compositor tells about a window.
LEMMA WatchingFacts ==
  ASSUME TypeOK, NEW w, NEW ids \in SetToSeqs(Watching(w))
  PROVE  ids \in Seq(Ids)
<1>1. Len(obj) \in Nat
  BY DEF TypeOK
<1>2. IsFiniteSet(Ids)
  BY <1>1, FS_Interval DEF Ids
<1>3. Watching(w) \subseteq Ids
  BY DEF Watching, TypeOK
<1>4. IsFiniteSet(Watching(w))
  BY <1>2, <1>3, FS_Subset
<1>5. ids \in Seq(Watching(w))
  BY <1>4, Enumerations
<1> QED
  BY <1>3, <1>5, SeqGrows

LEMMA NewsTypes ==
  ASSUME TypeOK, NEW w
  PROVE  /\ Unmappings(w) \subseteq Seq(EventsAbout(Ids))
         /\ \A set \in BOOLEAN : States(w, set) \subseteq Seq(EventsAbout(Ids))
<1>1. ASSUME NEW ids \in SetToSeqs(Watching(w))
      PROVE  [n \in DOMAIN ids |-> Unmapped(ids[n])] \in Seq(EventsAbout(Ids))
  <2>1. ids \in Seq(Ids)
    BY WatchingFacts
  <2>2. \A n \in DOMAIN ids : Unmapped(ids[n]) \in EventsAbout(Ids)
    BY <2>1, EventTypes
  <2> QED
    BY <2>1, <2>2
<1>2. ASSUME NEW ids \in SetToSeqs(Watching(w)), NEW set \in BOOLEAN
      PROVE  [n \in DOMAIN ids |-> StateEvent(ids[n], set)] \in Seq(EventsAbout(Ids))
  <2>1. ids \in Seq(Ids)
    BY WatchingFacts
  <2>2. \A n \in DOMAIN ids : StateEvent(ids[n], set) \in EventsAbout(Ids)
    BY <2>1, EventTypes
  <2> QED
    BY <2>1, <2>2
<1> QED
  BY <1>1, <1>2 DEF Unmappings, States
-----------------------------------------------------------------------------
LEMMA Initially ==
  ASSUME Init
  PROVE  Inv
<1>1. obj = <<>> /\ Ids = {} /\ Len(obj) = 0
  BY DEF Init, Ids
<1>2. TypeOK
  BY <1>1, WindowsAssumption DEF Init, TypeOK
<1>3. WireInv /\ ObjectsInv
  BY <1>1 DEF Init, WireInv, ObjectsInv
<1>4. WindowsConsistent
  BY <1>1 DEF Init, WindowsConsistent, WindowsAreMapped, ActiveWindowIsActive, ParentIsMapped,
              ToSet, IsInjective
<1> QED
  BY <1>2, <1>3, <1>4 DEF Inv, TypeInv

\* A step that leaves the objects and the list alone keeps them consistent.
LEMMA ObjectsAlone ==
  ASSUME WindowsConsistent, ObjectsInv, UNCHANGED <<wm, setups, obj, windows, activeWindow>>
  PROVE  WindowsConsistent' /\ ObjectsInv' /\ Ids' = Ids
BY DEF WindowsConsistent, WindowsAreMapped, ActiveWindowIsActive, ParentIsMapped, ObjectsInv, Ids

LEMMA CompositorSteps ==
  ASSUME Inv, CompositorNext
  PROVE  Inv'
<1> USE DEF Inv, TypeInv
<1>1. UNCHANGED clientVars
  BY DEF CompositorNext, MapWindow, UnmapWindow, Activate, Reparent, ServeGetWindow
<1>2. WindowsConsistent' /\ ObjectsInv' /\ Ids' = Ids
  BY <1>1, ObjectsAlone DEF clientVars
<1>3. ASSUME NEW w \in Windows, MapWindow(w)
      PROVE  TypeOK' /\ WireInv'
  <2>1. setups \in Nat
    BY WindowsAssumption DEF TypeOK
  <2>2. Announce(w, setups) \in EventsAbout(Ids)
    BY <2>1, EventTypes
  <2>3. WireInv'
    BY <1>2, <1>3, <2>2, AppendFacts DEF MapWindow, WireInv
  <2>4. TypeOK'
    BY <1>1, <1>2, <1>3 DEF MapWindow, TypeOK, clientVars
  <2> QED
    BY <2>3, <2>4
<1>4. ASSUME NEW w \in Windows, UnmapWindow(w)
      PROVE  TypeOK' /\ WireInv'
  <2>1. PICK news \in Unmappings(w) : events' = events \o news
    BY <1>4 DEF UnmapWindow
  <2>2. news \in Seq(EventsAbout(Ids))
    BY NewsTypes
  <2>3. WireInv'
    BY <1>2, <1>4, <2>1, <2>2, ConcatType DEF UnmapWindow, WireInv
  <2>4. TypeOK'
    BY <1>1, <1>2, <1>4 DEF UnmapWindow, TypeOK, clientVars
  <2> QED
    BY <2>3, <2>4
<1>5. ASSUME NEW w \in mapped \union {NoWindow}, Activate(w)
      PROVE  TypeOK' /\ WireInv'
  <2>1. PICK lost \in States(focus, FALSE), won \in States(w, TRUE) :
             events' = events \o lost \o won \/ events' = events \o won \o lost
    BY <1>5 DEF Activate
  <2>2. lost \in Seq(EventsAbout(Ids)) /\ won \in Seq(EventsAbout(Ids))
    BY NewsTypes
  <2>3. events \in Seq(EventsAbout(Ids))
    BY DEF WireInv
  <2>4. events \o lost \in Seq(EventsAbout(Ids)) /\ events \o won \in Seq(EventsAbout(Ids))
    BY <2>2, <2>3, ConcatType
  <2>5. events' \in Seq(EventsAbout(Ids))
    BY <2>1, <2>2, <2>4, ConcatType
  <2>6. WireInv'
    BY <1>2, <1>5, <2>5 DEF Activate, WireInv
  <2>7. TypeOK'
    BY <1>1, <1>2, <1>5 DEF Activate, TypeOK, clientVars
  <2> QED
    BY <2>6, <2>7
<1>6. ASSUME NEW id \in Ids, NEW p \in 0 .. Len(obj), Reparent(id, p)
      PROVE  TypeOK' /\ WireInv'
  <2>1. p \in Ids \union {0} /\ p # id
    BY <1>6 DEF Reparent, TypeOK
  <2>2. Parent(id, p) \in EventsAbout(Ids)
    BY <2>1, EventTypes
  <2>3. WireInv'
    BY <1>2, <1>6, <2>2, AppendFacts DEF Reparent, WireInv
  <2>4. TypeOK'
    BY <1>1, <1>2, <1>6 DEF Reparent, TypeOK, clientVars
  <2> QED
    BY <2>3, <2>4
<1>7. ASSUME ServeGetWindow
      PROVE  TypeOK' /\ WireInv'
  <2> DEFINE r == Head(requests)
             answer == IF r.win \in mapped
                         THEN <<StateEvent(r.id, r.win = focus), Initial(r.id)>>
                         ELSE <<Unmapped(r.id)>>
  <2>1. /\ r \in [id : Ids, win : Windows]
        /\ Tail(requests) \in Seq([id : Ids, win : Windows])
    BY <1>7, TailFacts DEF ServeGetWindow, WireInv
  <2>2. r.id \in Ids
    BY <2>1
  <2>3. (r.win = focus) \in BOOLEAN
    OBVIOUS
  <2>4. /\ StateEvent(r.id, r.win = focus) \in EventsAbout(Ids)
        /\ Initial(r.id) \in EventsAbout(Ids) /\ Unmapped(r.id) \in EventsAbout(Ids)
    BY <2>2, <2>3, EventTypes
  <2>5. answer \in Seq(EventsAbout(Ids))
    BY <2>4
  <2>6. events' = events \o answer /\ requests' = Tail(requests) /\ bound' = bound \union {r.id}
    BY <1>7 DEF ServeGetWindow
  <2> HIDE DEF r, answer
  <2>7. WireInv'
    BY <1>2, <2>1, <2>5, <2>6, ConcatType DEF WireInv
  <2>8. TypeOK'
    BY <1>1, <1>2, <1>7, <2>2, <2>6 DEF ServeGetWindow, TypeOK, clientVars
  <2> QED
    BY <2>7, <2>8
<1> QED
  BY <1>2, <1>3, <1>4, <1>5, <1>6, <1>7 DEF CompositorNext
-----------------------------------------------------------------------------
\* The steps that touch neither the objects nor the list of windows.
LEMMA QuietSteps ==
  ASSUME Inv,
         \/ Dropped \/ windowCallback \/ initialStateCallback \/ TimerFiresOnNullProxy
         \/ CreateModel \/ UNCHANGED vars
  PROVE  Inv'
<1> USE DEF Inv, TypeInv
<1>1. UNCHANGED <<wm, setups, obj, windows, activeWindow>>
  BY DEF Dropped, windowCallback, initialStateCallback, TimerFiresOnNullProxy, CreateModel,
         vars, clientVars
<1>2. WindowsConsistent' /\ ObjectsInv' /\ Ids' = Ids
  BY <1>1, ObjectsAlone
<1>3. UNCHANGED serverVars
  BY DEF Dropped, windowCallback, initialStateCallback, TimerFiresOnNullProxy, CreateModel, vars
<1>4. CASE Dropped
  <2>1. events' = Tail(events) /\ events # <<>> /\ UNCHANGED <<requests, clientVars>>
    BY <1>4 DEF Dropped
  <2>2. WireInv'
    BY <1>2, <2>1, TailFacts DEF WireInv
  <2> QED
    BY <1>2, <1>3, <2>1, <2>2 DEF TypeOK, serverVars, clientVars
<1>5. CASE windowCallback
  <2>1. Takes("window") /\ timers' = Append(timers, Head(events).win) /\ UNCHANGED <<requests, model>>
    BY <1>5 DEF windowCallback
  <2>2. Head(events).win \in Windows /\ events' \in Seq(EventsAbout(Ids))
    BY <2>1, NextEvent
  <2>3. timers' \in Seq(Windows)
    BY <2>1, <2>2, AppendFacts DEF TypeOK
  <2>4. WireInv'
    BY <1>2, <2>1, <2>2 DEF WireInv
  <2> QED
    BY <1>1, <1>2, <1>3, <2>1, <2>3, <2>4 DEF TypeOK, serverVars
<1>6. CASE initialStateCallback
  <2>1. Takes("initial") /\ UNCHANGED <<requests, timers>>
    BY <1>6 DEF initialStateCallback, Dispatch
  <2>2. Head(events).id \in Ids /\ events' \in Seq(EventsAbout(Ids))
    BY <2>1, NextEvent
  <2>3. model' = Append(model, Head(events).id) \/ model' = model
    BY <1>6 DEF initialStateCallback
  <2>4. model' \in Seq(Ids)
    <3>1. model \in Seq(Ids)
      BY DEF TypeOK
    <3>2. Append(model, Head(events).id) \in Seq(Ids)
      BY <2>2, <3>1, AppendFacts
    <3> QED
      BY <2>3, <3>1, <3>2
  <2>5. WireInv'
    BY <1>2, <2>1, <2>2 DEF WireInv
  <2> QED
    BY <1>1, <1>2, <1>3, <2>1, <2>4, <2>5 DEF TypeOK, serverVars
<1>7. CASE TimerFiresOnNullProxy
  <2>1. timers' = Tail(timers) /\ timers # <<>> /\ UNCHANGED <<events, requests, model>>
    BY <1>7 DEF TimerFiresOnNullProxy
  <2>2. timers' \in Seq(Windows)
    BY <2>1, TailFacts DEF TypeOK
  <2> QED
    BY <1>1, <1>2, <1>3, <2>1, <2>2 DEF TypeOK, WireInv, serverVars
<1>8. CASE CreateModel
  BY <1>1, <1>2, <1>3, <1>8 DEF CreateModel, TypeOK, WireInv, serverVars
<1>9. CASE UNCHANGED vars
  BY <1>2, <1>3, <1>9 DEF TypeOK, WireInv, serverVars, clientVars, vars
<1> QED
  BY <1>4, <1>5, <1>6, <1>7, <1>8, <1>9

\* Announcements of a set up: the compositor's windows in any order.
LEMMA SetupStep ==
  ASSUME Inv, Setup
  PROVE  Inv'
<1> USE DEF Inv, TypeInv
<1>1. /\ UNCHANGED <<serverVars, requests, timers, obj, windows, activeWindow, model>>
      /\ wm' = "bound" /\ setups' = setups + 1 /\ setups < MaxSetups
  BY DEF Setup
<1>2. setups \in Nat /\ MaxSetups \in Nat
  BY WindowsAssumption DEF TypeOK
<1>3. PICK order \in SetToSeqs(mapped) :
             events' = events \o [n \in DOMAIN order |-> Announce(order[n], setups + 1)]
  BY DEF Setup
<1>4. order \in Seq(mapped)
  <2>1. mapped \subseteq Windows
    BY DEF TypeOK
  <2>2. IsFiniteSet(mapped)
    BY <2>1, WindowsAssumption, FS_Subset
  <2> QED
    BY <2>2, Enumerations
<1>5. [n \in DOMAIN order |-> Announce(order[n], setups + 1)] \in Seq(EventsAbout(Ids))
  <2>1. \A n \in DOMAIN order : order[n] \in Windows
    BY <1>4 DEF TypeOK
  <2>2. \A n \in DOMAIN order : Announce(order[n], setups + 1) \in EventsAbout(Ids)
    BY <1>2, <2>1, EventTypes
  <2> QED
    BY <1>4, <2>2
<1>6. Ids' = Ids
  BY <1>1 DEF Ids
<1>7. WireInv'
  BY <1>1, <1>3, <1>5, <1>6, ConcatType DEF WireInv
<1>8. TypeOK'
  BY <1>1, <1>2, <1>6 DEF TypeOK, serverVars
<1>9. WindowsConsistent' /\ ObjectsInv'
  BY <1>1, <1>2, <1>6 DEF WindowsConsistent, WindowsAreMapped, ActiveWindowIsActive,
                          ParentIsMapped, ObjectsInv
<1> QED
  BY <1>7, <1>8, <1>9

LEMMA EndSteps ==
  ASSUME Inv, Release \/ Destroy
  PROVE  Inv'
<1> USE DEF Inv, TypeInv
<1>1. /\ UNCHANGED <<unborn, mapped, focus, changes, setups, timers, obj, windows, activeWindow>>
      /\ wm' = "unset" /\ bound' \in {bound, {}} /\ model' \in {model, <<>>}
      /\ events' \in {events, <<>>} /\ requests' \in {requests, <<>>}
  BY DEF Release, Destroy, serverVars
<1>2. Ids' = Ids
  BY <1>1 DEF Ids
<1>3. WireInv'
  <2>1. events' \in Seq(EventsAbout(Ids))
    <3>1. <<>> \in Seq(EventsAbout(Ids))
      OBVIOUS
    <3> QED
      BY <1>1, <3>1 DEF WireInv
  <2>2. requests' \in Seq([id : Ids, win : Windows])
    <3>1. <<>> \in Seq([id : Ids, win : Windows])
      OBVIOUS
    <3> QED
      BY <1>1, <3>1 DEF WireInv
  <2> QED
    BY <1>2, <2>1, <2>2 DEF WireInv
<1>4. TypeOK'
  <2>1. model' \in Seq(Ids)
    <3>1. <<>> \in Seq(Ids)
      OBVIOUS
    <3> QED
      BY <1>1, <3>1 DEF TypeOK
  <2> QED
    BY <1>1, <1>2, <2>1 DEF TypeOK
<1>5. WindowsConsistent' /\ ObjectsInv'
  BY <1>1, <1>2 DEF WindowsConsistent, WindowsAreMapped, ActiveWindowIsActive,
                    ParentIsMapped, ObjectsInv
<1> QED
  BY <1>3, <1>4, <1>5
-----------------------------------------------------------------------------
\* A new object: of a window, mapped, nobody's parent yet, at the end of the list.
LEMMA TimerStep ==
  ASSUME Inv, TimerFires
  PROVE  Inv'
<1> USE DEF Inv, TypeInv
<1> DEFINE new == [win |-> Head(timers), epoch |-> setups, phase |-> "mapped",
                   active |-> FALSE, parent |-> 0]
           id == Len(obj) + 1
<1>1. /\ timers # <<>> /\ timers' = Tail(timers) /\ wm = "bound"
      /\ requests' = Append(requests, [id |-> id, win |-> Head(timers)])
      /\ obj' = Append(obj, new) /\ windows' = Append(windows, id)
      /\ UNCHANGED <<serverVars, events, wm, setups, activeWindow, model>>
  BY DEF TimerFires, windowCreated
<1>2. Head(timers) \in Windows /\ timers' \in Seq(Windows)
  BY <1>1, TailFacts DEF TypeOK
<1>3. Len(obj) \in Nat /\ obj \in Seq(Object)
  BY DEF TypeOK
<1>4. setups \in 1 .. MaxSetups
  BY <1>1, WindowsAssumption DEF TypeOK, ObjectsInv
<1>5. new \in Object /\ new.parent = 0 /\ new.phase = "mapped"
  BY <1>2, <1>4 DEF Object
<1> HIDE DEF new
<1>6. /\ obj' \in Seq(Object) /\ Len(obj') = id
      /\ obj'[id] = new /\ \A n \in 1 .. Len(obj) : obj'[n] = obj[n]
  BY <1>1, <1>3, <1>5, AppendFacts
<1>7. Ids' = Ids \union {id} /\ id \notin Ids /\ id \in Nat /\ 0 \notin Ids'
  BY <1>3, <1>6 DEF Ids
<1>8. \A n \in Ids : obj'[n] = obj[n]
  BY <1>6 DEF Ids
<1>9. Ids \subseteq Ids' /\ id \in Ids'
  BY <1>7
<1>10. windows \in Seq(Ids') /\ model \in Seq(Ids')
  <2>1. windows \in Seq(Ids) /\ model \in Seq(Ids)
    BY DEF TypeOK
  <2> QED
    BY <1>9, <2>1, SeqGrows
<1>11. /\ windows' \in Seq(Ids') /\ Len(windows') = Len(windows) + 1
       /\ windows'[Len(windows) + 1] = id
       /\ \A n \in 1 .. Len(windows) : windows'[n] = windows[n]
  BY <1>1, <1>9, <1>10, AppendFacts
<1>12. WireInv'
  <2>1. events \in Seq(EventsAbout(Ids'))
    BY <1>9, EventsGrow, SeqGrows DEF WireInv
  <2>2. [id : Ids, win : Windows] \subseteq [id : Ids', win : Windows]
    BY <1>9
  <2>3. requests \in Seq([id : Ids', win : Windows])
    BY <2>2, SeqGrows DEF WireInv
  <2>4. [id |-> id, win |-> Head(timers)] \in [id : Ids', win : Windows]
    BY <1>2, <1>9
  <2>5. requests' \in Seq([id : Ids', win : Windows])
    BY <1>1, <2>3, <2>4, AppendFacts
  <2> QED
    BY <1>1, <2>1, <2>5 DEF WireInv
<1>13. \A n \in Ids' : obj'[n].parent \in 0 .. Len(obj')
  <2>1. \A n \in Ids : obj'[n].parent \in 0 .. Len(obj)
    BY <1>8 DEF TypeOK
  <2> QED
    BY <1>3, <1>5, <1>6, <1>7, <2>1
<1>14. TypeOK'
  <2>1. bound' \subseteq Ids' /\ activeWindow' \in 0 .. Len(obj')
    BY <1>1, <1>3, <1>6, <1>9 DEF TypeOK, serverVars
  <2>2. model' \in Seq(Ids')
    BY <1>1, <1>10
  <2> QED
    BY <1>1, <1>2, <1>6, <1>11, <1>13, <2>1, <2>2 DEF TypeOK, serverVars
<1>15. ObjectsInv'
  BY <1>1, <1>5, <1>6, <1>7, <1>8 DEF ObjectsInv
<1>16. WindowsAreMapped'
  <2>1. DOMAIN windows = 1 .. Len(windows) /\ DOMAIN windows' = 1 .. Len(windows) + 1
         /\ Len(windows) \in Nat
    BY <1>10, <1>11
  <2>2. ToSet(windows') = ToSet(windows) \union {id}
    BY <1>11, <2>1 DEF ToSet
  <2>3. ToSet(windows) = {n \in Ids : obj[n].phase = "mapped"}
    BY DEF WindowsConsistent, WindowsAreMapped
  <2>4. {n \in Ids' : obj'[n].phase = "mapped"} = ToSet(windows) \union {id}
    BY <1>5, <1>6, <1>7, <1>8, <2>3
  <2>5. IsInjective(windows')
    <3>1. \A m \in 1 .. Len(windows) : windows[m] # id
      BY <1>7, <2>1, <2>3 DEF ToSet
    <3>2. \A m, n \in 1 .. Len(windows) : windows[m] = windows[n] => m = n
      BY <2>1 DEF WindowsConsistent, WindowsAreMapped, IsInjective
    <3>3. ASSUME NEW m \in 1 .. Len(windows) + 1, NEW n \in 1 .. Len(windows) + 1,
                 windows'[m] = windows'[n]
          PROVE  m = n
      BY <1>11, <2>1, <3>1, <3>2, <3>3
    <3> QED
      BY <2>1, <3>3 DEF IsInjective
  <2> QED
    BY <2>2, <2>4, <2>5 DEF WindowsAreMapped
<1>17. ActiveWindowIsActive'
  <2>1. CASE activeWindow = 0
    BY <1>1, <2>1 DEF ActiveWindowIsActive
  <2>2. CASE activeWindow # 0
    <3>1. activeWindow \in Ids /\ obj[activeWindow].active /\ obj[activeWindow].phase = "mapped"
      BY <2>2 DEF WindowsConsistent, WindowsAreMapped, ActiveWindowIsActive
    <3>2. obj'[activeWindow].active /\ activeWindow \in ToSet(windows')
      BY <1>8, <1>9, <1>16, <3>1 DEF WindowsAreMapped
    <3> QED
      BY <1>1, <3>2 DEF ActiveWindowIsActive
  <2> QED
    BY <2>1, <2>2
<1>18. ParentIsMapped'
  <2>1. ASSUME NEW n \in Ids, obj'[n].parent # 0
        PROVE  obj'[obj'[n].parent].phase = "mapped"
    <3>1. obj'[n].parent = obj[n].parent /\ obj[n].parent \in Ids
      BY <1>3, <1>8, <2>1 DEF TypeOK, Ids
    <3> QED
      BY <1>8, <2>1, <3>1 DEF WindowsConsistent, ParentIsMapped
  <2> QED
    BY <1>5, <1>6, <1>7, <2>1 DEF ParentIsMapped
<1> QED
  BY <1>12, <1>14, <1>15, <1>16, <1>17, <1>18 DEF WindowsConsistent
-----------------------------------------------------------------------------
\* The type of the objects after a handler that changed some of them in place.
LEMMA ObjectsChanged ==
  ASSUME Inv, DOMAIN obj' = DOMAIN obj,
         \A n \in Ids : obj'[n] \in Object /\ obj'[n].parent \in 0 .. Len(obj)
                                           /\ obj'[n].parent # n,
         obj' \in [Ids -> Object],
         UNCHANGED <<unborn, mapped, focus, bound, wm, setups, timers>>,
         events' \in Seq(EventsAbout(Ids)), UNCHANGED requests,
         windows' \in Seq(Ids), model' \in Seq(Ids), activeWindow' \in 0 .. Len(obj)
  PROVE  TypeInv' /\ Ids' = Ids
<1>1. Len(obj) \in Nat
  BY DEF Inv, TypeInv, TypeOK
<1>2. obj' \in Seq(Object) /\ Len(obj') = Len(obj)
  BY <1>1 DEF Ids
<1>3. Ids' = Ids
  BY <1>2 DEF Ids
<1>4. TypeOK'
  BY <1>2, <1>3 DEF Inv, TypeInv, TypeOK
<1>5. WireInv'
  BY <1>3 DEF Inv, TypeInv, WireInv
<1>6. ObjectsInv'
  BY <1>3 DEF Inv, TypeInv, ObjectsInv
<1> QED
  BY <1>3, <1>4, <1>5, <1>6 DEF TypeInv

LEMMA ObjectTypes ==
  ASSUME Inv
  PROVE  /\ Len(obj) \in Nat /\ DOMAIN obj = Ids /\ 0 \notin Ids
         /\ obj \in [Ids -> Object]
         /\ \A n \in Ids : /\ obj[n] \in Object /\ obj[n].parent \in Ids \union {0}
                           /\ obj[n].parent \in 0 .. Len(obj) /\ obj[n].parent # n
<1>1. obj \in Seq(Object) /\ \A n \in Ids : obj[n].parent \in 0 .. Len(obj) /\ obj[n].parent # n
  BY DEF Inv, TypeInv, TypeOK, ObjectsInv
<1>2. Len(obj) \in Nat /\ DOMAIN obj = Ids /\ 0 \notin Ids
  BY <1>1 DEF Ids
<1>3. \A n \in Ids : obj[n].parent \in Ids \union {0}
  BY <1>1, <1>2 DEF Ids
<1>4. \A n \in Ids : obj[n] \in Object
  BY <1>1 DEF Ids
<1> QED
  BY <1>1, <1>2, <1>3, <1>4

\* One field of an object at a time.
LEMMA WithActive ==
  ASSUME NEW o \in Object, NEW b \in BOOLEAN, NEW q, q = [o EXCEPT !.active = b]
  PROVE  q \in Object /\ q.phase = o.phase /\ q.parent = o.parent /\ q.active = b
BY DEF Object

LEMMA WithParent ==
  ASSUME NEW o \in Object, NEW p \in Nat, NEW q, q = [o EXCEPT !.parent = p]
  PROVE  q \in Object /\ q.phase = o.phase /\ q.parent = p /\ q.active = o.active
BY DEF Object

LEMMA WithPhase ==
  ASSUME NEW o \in Object, NEW ph \in {"unmapped", "deleted"}, NEW q, q = [o EXCEPT !.phase = ph]
  PROVE  q \in Object /\ q.phase = ph /\ q.parent = o.parent /\ q.active = o.active
BY DEF Object

LEMMA StateChangedStep ==
  ASSUME Inv, stateChangedCallback
  PROVE  Inv'
<1> DEFINE e == Head(events)
<1>1. /\ Takes("state")
      /\ obj' = [obj EXCEPT ![e.id].active = e.set]
      /\ activeWindow' = IF obj[e.id].active = e.set THEN activeWindow
                                                     ELSE ActiveAfter(e.id, e.set)
      /\ UNCHANGED <<serverVars, requests, wm, setups, timers, windows, model>>
      /\ obj[e.id].phase # "deleted"
  BY DEF stateChangedCallback, Dispatch, Alive
<1>2. e.id \in Ids /\ e.set \in BOOLEAN /\ events' \in Seq(EventsAbout(Ids))
  BY <1>1, NextEvent DEF Inv, TypeInv
<1> HIDE DEF e
<1>3. /\ DOMAIN obj' = DOMAIN obj
      /\ \A n \in Ids : n # e.id => obj'[n] = obj[n]
      /\ obj'[e.id] = [obj[e.id] EXCEPT !.active = e.set]
  BY <1>1, <1>2, ObjectTypes
<1>4. /\ obj'[e.id] \in Object /\ obj'[e.id].phase = obj[e.id].phase
      /\ obj'[e.id].parent = obj[e.id].parent
      /\ obj'[e.id].active = e.set
  BY <1>2, <1>3, ObjectTypes, WithActive
<1>5. \A n \in Ids : /\ obj'[n] \in Object /\ obj'[n].phase = obj[n].phase
                     /\ obj'[n].parent = obj[n].parent
  BY <1>3, <1>4, ObjectTypes
<1>6. obj' \in [Ids -> Object]
  BY <1>1, <1>5, ObjectTypes
<1>7. activeWindow' \in {activeWindow, e.id, 0}
  BY <1>1 DEF ActiveAfter
<1>8. activeWindow' \in 0 .. Len(obj)
  BY <1>2, <1>7 DEF Inv, TypeInv, TypeOK, Ids
<1>9. TypeInv' /\ Ids' = Ids
  <2>1. windows' \in Seq(Ids) /\ model' \in Seq(Ids)
    BY <1>1 DEF Inv, TypeInv, TypeOK
  <2>2. UNCHANGED <<unborn, mapped, focus, bound, wm, setups, timers>> /\ UNCHANGED requests
    BY <1>1 DEF serverVars
  <2>3. \A n \in Ids : obj'[n] \in Object /\ obj'[n].parent \in 0 .. Len(obj)
                                          /\ obj'[n].parent # n
    BY <1>5, ObjectTypes
  <2> QED
    BY <1>2, <1>3, <1>6, <1>8, <2>1, <2>2, <2>3, ObjectsChanged
<1>10. WindowsAreMapped'
  BY <1>1, <1>5, <1>9 DEF Inv, WindowsConsistent, WindowsAreMapped
<1>11. ParentIsMapped'
  BY <1>5, <1>9, ObjectTypes DEF Inv, WindowsConsistent, ParentIsMapped
<1>12. ActiveWindowIsActive'
  <2>1. ToSet(windows) = {n \in Ids : obj[n].phase = "mapped"}
    BY DEF Inv, WindowsConsistent, WindowsAreMapped
  <2>2. activeWindow # 0 => activeWindow \in ToSet(windows) /\ obj[activeWindow].active
    BY DEF Inv, WindowsConsistent, ActiveWindowIsActive
  <2>3. CASE obj[e.id].active = e.set
    <3>1. activeWindow' = activeWindow
      BY <1>1, <2>3
    <3>2. \A n \in Ids : obj'[n].active = obj[n].active
      BY <1>3, <1>4, <2>3
    <3> QED
      BY <1>1, <2>1, <2>2, <3>1, <3>2 DEF ActiveWindowIsActive
  <2>4. CASE obj[e.id].active # e.set /\ obj[e.id].phase = "unmapped"
    <3>1. activeWindow' = activeWindow
      BY <1>1, <2>4 DEF ActiveAfter
    <3>2. activeWindow # 0 => activeWindow # e.id
      BY <2>1, <2>2, <2>4
    <3> QED
      BY <1>1, <1>3, <2>1, <2>2, <3>1, <3>2 DEF ActiveWindowIsActive
  <2>5. CASE obj[e.id].active # e.set /\ obj[e.id].phase # "unmapped" /\ e.set
    <3>1. activeWindow' = e.id
      BY <1>1, <2>5 DEF ActiveAfter
    <3>2. obj[e.id].phase = "mapped"
      BY <1>1, <1>2, <2>5, ObjectTypes DEF Object
    <3> QED
      BY <1>1, <1>2, <1>4, <2>1, <2>5, <3>1, <3>2 DEF ActiveWindowIsActive
  <2>6. CASE obj[e.id].active # e.set /\ obj[e.id].phase # "unmapped" /\ ~e.set
    <3>1. activeWindow' = IF activeWindow = e.id THEN 0 ELSE activeWindow
      BY <1>1, <2>6 DEF ActiveAfter
    <3> QED
      BY <1>1, <1>3, <2>1, <2>2, <3>1 DEF ActiveWindowIsActive
  <2> QED
    BY <2>3, <2>4, <2>5, <2>6
<1> QED
  BY <1>9, <1>10, <1>11, <1>12 DEF Inv, WindowsConsistent

LEMMA ParentWindowStep ==
  ASSUME Inv, parentWindowCallback
  PROVE  Inv'
<1> DEFINE e == Head(events)
           p == IF e.parent \in ToSet(windows) /\ obj[e.parent].phase = "mapped"
                  THEN e.parent ELSE 0
<1>1. /\ Takes("parent")
      /\ obj' = [obj EXCEPT ![e.id].parent = p]
      /\ UNCHANGED <<serverVars, requests, wm, setups, timers, windows, activeWindow, model>>
  BY DEF parentWindowCallback, Dispatch
<1>2. /\ e.id \in Ids /\ events' \in Seq(EventsAbout(Ids))
      /\ e.parent \in Ids \union {0} /\ e.parent # e.id
  BY <1>1, NextEvent DEF Inv, TypeInv
<1>3. p \in Ids \union {0} /\ p # e.id /\ (p # 0 => obj[p].phase = "mapped")
  BY <1>2, ObjectTypes
<1> HIDE DEF e, p
<1>4. /\ DOMAIN obj' = DOMAIN obj
      /\ \A n \in Ids : n # e.id => obj'[n] = obj[n]
      /\ obj'[e.id] = [obj[e.id] EXCEPT !.parent = p]
  BY <1>1, <1>2, ObjectTypes
<1>5. p \in 0 .. Len(obj)
  BY <1>3, ObjectTypes DEF Ids
<1>6. /\ obj'[e.id] \in Object /\ obj'[e.id].phase = obj[e.id].phase
      /\ obj'[e.id].parent = p /\ obj'[e.id].active = obj[e.id].active
  <2>1. p \in Nat /\ obj[e.id] \in Object
    BY <1>2, <1>5, ObjectTypes
  <2> QED
    BY <1>4, <2>1, WithParent
<1>7. \A n \in Ids : /\ obj'[n] \in Object /\ obj'[n].phase = obj[n].phase
                     /\ obj'[n].active = obj[n].active
                     /\ obj'[n].parent \in 0 .. Len(obj) /\ obj'[n].parent # n
                     /\ obj'[n].parent \in {p, obj[n].parent}
  BY <1>3, <1>4, <1>5, <1>6, ObjectTypes
<1>8. obj' \in [Ids -> Object]
  BY <1>1, <1>7, ObjectTypes
<1>9. TypeInv' /\ Ids' = Ids
  <2>1. windows' \in Seq(Ids) /\ model' \in Seq(Ids) /\ activeWindow' \in 0 .. Len(obj)
    BY <1>1 DEF Inv, TypeInv, TypeOK
  <2>2. UNCHANGED <<unborn, mapped, focus, bound, wm, setups, timers>> /\ UNCHANGED requests
    BY <1>1 DEF serverVars
  <2> QED
    BY <1>2, <1>4, <1>7, <1>8, <2>1, <2>2, ObjectsChanged
<1>10. WindowsAreMapped'
  BY <1>1, <1>7, <1>9 DEF Inv, WindowsConsistent, WindowsAreMapped
<1>11. ParentIsMapped'
  BY <1>3, <1>7, <1>9, ObjectTypes DEF Inv, WindowsConsistent, ParentIsMapped
<1>12. ActiveWindowIsActive'
  BY <1>1, <1>7 DEF Inv, WindowsConsistent, ActiveWindowIsActive, WindowsAreMapped
<1> QED
  BY <1>9, <1>10, <1>11, <1>12 DEF Inv, WindowsConsistent

\* unmapped: the window leaves the list, the models and its children.
LEMMA UnmappedStep ==
  ASSUME Inv, unmappedCallback
  PROVE  Inv'
<1> DEFINE id == Head(events).id
<1>1. /\ Takes("unmapped")
      /\ obj' = [n \in Ids |-> IF n = id THEN [obj[n] EXCEPT !.phase = "unmapped"]
                                         ELSE [obj[n] EXCEPT !.parent = ParentWithout(n, id)]]
      /\ windows' = Without(windows, id)
      /\ activeWindow' = IF activeWindow = id THEN 0 ELSE activeWindow
      /\ model' = Without(model, id)
      /\ UNCHANGED <<serverVars, requests, wm, setups, timers>>
  BY DEF unmappedCallback, Dispatch, LeavesList, RowsWithout
<1>2. id \in Ids /\ events' \in Seq(EventsAbout(Ids))
  BY <1>1, NextEvent DEF Inv, TypeInv
<1> HIDE DEF id
<1>3. DOMAIN obj' = DOMAIN obj
  BY <1>1, ObjectTypes
<1>4. /\ obj'[id] \in Object /\ obj'[id].phase = "unmapped"
      /\ obj'[id].parent = obj[id].parent /\ obj'[id].active = obj[id].active
  <2>1. obj'[id] = [obj[id] EXCEPT !.phase = "unmapped"] /\ obj[id] \in Object
    BY <1>1, <1>2, ObjectTypes
  <2> QED
    BY <2>1, WithPhase
<1>5. ASSUME NEW n \in Ids, n # id
      PROVE  /\ obj'[n] \in Object /\ obj'[n].phase = obj[n].phase
             /\ obj'[n].parent = IF obj[n].parent = id THEN 0 ELSE obj[n].parent
             /\ obj'[n].active = obj[n].active
  <2> DEFINE p == IF obj[n].parent = id THEN 0 ELSE obj[n].parent
  <2>1. obj'[n] = [obj[n] EXCEPT !.parent = p] /\ obj[n] \in Object
    BY <1>1, <1>5, ObjectTypes DEF ParentWithout
  <2>2. p \in Nat
    BY ObjectTypes
  <2> QED
    BY <2>1, <2>2, WithParent
<1>6. \A n \in Ids : /\ obj'[n] \in Object
                     /\ obj'[n].parent \in 0 .. Len(obj) /\ obj'[n].parent # n
  <2>1. ASSUME NEW n \in Ids
        PROVE  obj'[n].parent \in {0, obj[n].parent} /\ obj'[n] \in Object
    BY <1>4, <1>5
  <2> QED
    BY <2>1, ObjectTypes
<1>7. obj' \in [Ids -> Object]
  BY <1>1, <1>3, <1>6, ObjectTypes
<1>8. windows \in Seq(Ids) /\ model \in Seq(Ids) /\ activeWindow \in 0 .. Len(obj)
  BY DEF Inv, TypeInv, TypeOK
<1>9. TypeInv' /\ Ids' = Ids
  <2>1. windows' \in Seq(Ids) /\ model' \in Seq(Ids)
    BY <1>1, <1>8, WithoutType
  <2>2. activeWindow' \in 0 .. Len(obj)
    BY <1>1, <1>8, ObjectTypes
  <2>3. UNCHANGED <<unborn, mapped, focus, bound, wm, setups, timers>> /\ UNCHANGED requests
    BY <1>1 DEF serverVars
  <2> QED
    BY <1>2, <1>3, <1>6, <1>7, <2>1, <2>2, <2>3, ObjectsChanged
<1>10. WindowsAreMapped'
  <2>1. ToSet(windows) = {n \in Ids : obj[n].phase = "mapped"} /\ IsInjective(windows)
    BY DEF Inv, WindowsConsistent, WindowsAreMapped
  <2>2. ToSet(windows') = ToSet(windows) \ {id} /\ IsInjective(windows')
    BY <1>1, <1>8, <2>1, WithoutFacts
  <2>3. \A n \in Ids : obj'[n].phase = "mapped" <=> n # id /\ obj[n].phase = "mapped"
    BY <1>4, <1>5
  <2> QED
    BY <1>9, <2>1, <2>2, <2>3 DEF WindowsAreMapped
<1>11. ParentIsMapped'
  <2>1. ASSUME NEW n \in Ids, obj'[n].parent # 0
        PROVE  obj'[obj'[n].parent].phase = "mapped"
    <3>1. obj'[n].parent = obj[n].parent /\ obj[n].parent # id
      BY <1>4, <1>5, <2>1, ObjectTypes
    <3>2. obj[n].parent \in Ids /\ obj[obj[n].parent].phase = "mapped"
      BY <2>1, <3>1, ObjectTypes DEF Inv, WindowsConsistent, ParentIsMapped
    <3> QED
      BY <1>5, <3>1, <3>2
  <2> QED
    BY <1>9, <2>1 DEF ParentIsMapped
<1>12. ActiveWindowIsActive'
  <2>1. CASE activeWindow' = 0
    BY <2>1 DEF ActiveWindowIsActive
  <2>2. CASE activeWindow' # 0
    <3>1. activeWindow' = activeWindow /\ activeWindow # id
      BY <1>1, <2>2
    <3>2. /\ activeWindow \in Ids /\ obj[activeWindow].phase = "mapped"
          /\ obj[activeWindow].active
      BY <2>2, <3>1 DEF Inv, WindowsConsistent, WindowsAreMapped, ActiveWindowIsActive
    <3>3. obj'[activeWindow].phase = "mapped" /\ obj'[activeWindow].active
      BY <1>5, <3>1, <3>2
    <3> QED
      BY <1>9, <1>10, <3>1, <3>2, <3>3 DEF ActiveWindowIsActive, WindowsAreMapped
  <2> QED
    BY <2>1, <2>2
<1> QED
  BY <1>9, <1>10, <1>11, <1>12 DEF Inv, WindowsConsistent

\* The deferred deletion: nobody has an unmapped window as its parent any more.
LEMMA DeletionStep ==
  ASSUME Inv, NEW id \in Ids, DeleteLater(id)
  PROVE  Inv'
<1>1. /\ obj[id].phase = "unmapped"
      /\ obj' = [obj EXCEPT ![id].phase = "deleted", ![id].parent = 0]
      /\ UNCHANGED <<serverVars, events, requests, wm, setups, timers, windows, activeWindow,
                     modelUp, model, crashed>>
  BY DEF DeleteLater
<1>2. DOMAIN obj' = DOMAIN obj /\ \A n \in Ids : n # id => obj'[n] = obj[n]
  BY <1>1, ObjectTypes
<1>3. obj'[id] \in Object /\ obj'[id].phase = "deleted" /\ obj'[id].parent = 0
  <2> DEFINE o == [obj[id] EXCEPT !.phase = "deleted"]
  <2>1. o \in Object /\ o.phase = "deleted"
    BY ObjectTypes, WithPhase
  <2>2. obj'[id] = [o EXCEPT !.parent = 0]
    BY <1>1, ObjectTypes
  <2> HIDE DEF o
  <2> QED
    BY <2>1, <2>2, WithParent
<1>4. \A n \in Ids : /\ obj'[n] \in Object
                     /\ obj'[n].parent \in 0 .. Len(obj) /\ obj'[n].parent # n
  <2>1. ASSUME NEW n \in Ids
        PROVE  obj'[n].parent \in {0, obj[n].parent} /\ obj'[n] \in Object
    BY <1>2, <1>3, ObjectTypes
  <2> QED
    BY <2>1, ObjectTypes
<1>5. obj' \in [Ids -> Object]
  BY <1>1, <1>4, ObjectTypes
<1>6. TypeInv' /\ Ids' = Ids
  <2>1. windows' \in Seq(Ids) /\ model' \in Seq(Ids) /\ activeWindow' \in 0 .. Len(obj)
    BY <1>1 DEF Inv, TypeInv, TypeOK
  <2>2. UNCHANGED <<unborn, mapped, focus, bound, wm, setups, timers>> /\ UNCHANGED requests
    BY <1>1 DEF serverVars
  <2>3. events' \in Seq(EventsAbout(Ids))
    BY <1>1 DEF Inv, TypeInv, WireInv
  <2> QED
    BY <1>2, <1>4, <1>5, <2>1, <2>2, <2>3, ObjectsChanged
<1>7. \A n \in Ids : obj'[n].phase = "mapped" <=> obj[n].phase = "mapped"
  BY <1>1, <1>2, <1>3
<1>8. WindowsAreMapped'
  BY <1>1, <1>6, <1>7 DEF Inv, WindowsConsistent, WindowsAreMapped
<1>9. ParentIsMapped'
  <2>1. ASSUME NEW n \in Ids, obj'[n].parent # 0
        PROVE  obj'[obj'[n].parent].phase = "mapped"
    <3>1. obj'[n].parent = obj[n].parent
      BY <1>2, <1>3, <2>1
    <3>2. obj[n].parent \in Ids /\ obj[obj[n].parent].phase = "mapped"
      BY <2>1, <3>1, ObjectTypes DEF Inv, WindowsConsistent, ParentIsMapped
    <3> QED
      BY <1>7, <3>1, <3>2
  <2> QED
    BY <1>6, <2>1 DEF ParentIsMapped
<1>10. ActiveWindowIsActive'
  <2>1. activeWindow # 0 => /\ activeWindow \in Ids /\ activeWindow # id
                            /\ activeWindow \in ToSet(windows) /\ obj[activeWindow].active
    BY <1>1 DEF Inv, WindowsConsistent, WindowsAreMapped, ActiveWindowIsActive
  <2> QED
    BY <1>1, <1>2, <2>1 DEF ActiveWindowIsActive
<1> QED
  BY <1>6, <1>8, <1>9, <1>10 DEF Inv, WindowsConsistent
-----------------------------------------------------------------------------
\* The inductive invariant: types of everything, also of what is on the wire,
\* and the consistency of the list, the active window and the parents.
THEOREM Invariance == Spec => []Inv
<1>1. Init => Inv
  BY Initially
<1>2. Inv /\ [Next]_vars => Inv'
  <2> SUFFICES ASSUME Inv, [Next]_vars PROVE Inv'
    OBVIOUS
  <2>1. CASE CompositorNext
    BY <2>1, CompositorSteps
  <2>2. CASE DispatchEvent
    BY <2>2, QuietSteps, StateChangedStep, ParentWindowStep, UnmappedStep DEF DispatchEvent
  <2>3. CASE TimerFires
    BY <2>3, TimerStep
  <2>4. CASE TimerFiresOnNullProxy
    BY <2>4, QuietSteps
  <2>5. CASE \E id \in Ids : DeleteLater(id)
    BY <2>5, DeletionStep
  <2>6. CASE UserNext
    BY <2>6, SetupStep, QuietSteps, EndSteps DEF UserNext
  <2>7. CASE UNCHANGED vars
    BY <2>7, QuietSteps
  <2> QED
    BY <2>1, <2>2, <2>3, <2>4, <2>5, <2>6, <2>7 DEF Next
<1> QED
  BY <1>1, <1>2, PTL DEF Spec

\* Every pointer of the client is to an object that was created
\* (windowCreated, stateChangedCallback, parentWindowCallback, addWindow).
THEOREM TypeCorrect == Spec => []TypeOK
<1>1. Inv => TypeOK
  BY DEF Inv, TypeInv
<1> QED
  BY <1>1, Invariance, PTL

\* The list of windows is what is mapped, each once; the active window is in
\* it and says so itself; no window keeps a parent that is unmapped or deleted
\* (windowCreated, setActive, setParentWindow, unmappedCallback): for any
\* number of windows, set ups, activations and changes of parents.
THEOREM Consistency == Spec => []WindowsConsistent
<1>1. Inv => WindowsConsistent
  BY DEF Inv
<1> QED
  BY <1>1, Invariance, PTL

-----------------------------------------------------------------------------
(* The rows of the model.                                                  *)

Ascending(s) == \A i, j \in DOMAIN s : i < j => s[i] < s[j]

IsPending(t, id) == \E k \in DOMAIN events : events[k].type = t /\ events[k].id = id
IsRequested(id) == \E k \in DOMAIN requests : requests[k].id = id
IsAwaited(id) == IsPending("initial", id) \/ IsRequested(id)

\* Windows are asked for and answered in the order in which their objects were
\* created.
AskedInv ==
  /\ \A j, k \in DOMAIN requests : j < k => requests[j].id < requests[k].id
  /\ \A j, k \in DOMAIN events :
       j < k /\ events[j].type = "initial" /\ events[k].type = "initial" =>
         events[j].id < events[k].id
  /\ \A j \in DOMAIN events, k \in DOMAIN requests :
       events[j].type = "initial" => events[j].id < requests[k].id

\* They are listed in this order, and a window that is not in the model will come
\* behind those that are.
RowsInv ==
  /\ Ascending(windows) /\ Ascending(model)
  /\ ToSet(model) \subseteq ToSet(windows)
  /\ ~modelUp => model = <<>>
  /\ \A id \in Ids :
       obj[id].phase = "mapped" /\ id \notin ToSet(model) /\ IsAwaited(id) =>
         \A n \in ToSet(model) : n < id

ModelInv == Inv /\ AskedInv /\ RowsInv
-----------------------------------------------------------------------------
LEMMA AscendingInjective ==
  ASSUME NEW S \in SUBSET Nat, NEW s \in Seq(S), Ascending(s)
  PROVE  IsInjective(s)
<1> SUFFICES ASSUME NEW i \in DOMAIN s, NEW j \in DOMAIN s, s[i] = s[j]
             PROVE  i = j
  BY DEF IsInjective
<1>1. i \in Nat /\ j \in Nat /\ s[i] \in Nat
  <2>1. DOMAIN s = 1 .. Len(s) /\ Len(s) \in Nat
    OBVIOUS
  <2>2. s[i] \in S
    OBVIOUS
  <2>3. \A x \in S : x \in Nat
    OBVIOUS
  <2>4. i \in Nat /\ j \in Nat
    BY <2>1
  <2> QED
    BY <2>2, <2>3, <2>4
<1>2. ~(i < j) /\ ~(j < i)
  BY <1>1 DEF Ascending
<1> QED
  BY <1>1, <1>2

LEMMA AscendingAppend ==
  ASSUME NEW S, NEW s \in Seq(S), NEW id \in S, Ascending(s), \A n \in ToSet(s) : n < id
  PROVE  Ascending(Append(s, id)) /\ ToSet(Append(s, id)) = ToSet(s) \union {id}
<1> DEFINE t == Append(s, id)
<1>1. /\ DOMAIN t = 1 .. Len(s) + 1 /\ DOMAIN s = 1 .. Len(s) /\ Len(s) \in Nat
      /\ t[Len(s) + 1] = id
      /\ \A n \in DOMAIN s : t[n] = s[n]
  OBVIOUS
<1> HIDE DEF t
<1>2. ToSet(t) = ToSet(s) \union {id}
  BY <1>1 DEF ToSet
<1>3. \A n \in DOMAIN s : s[n] < id
  BY DEF ToSet
<1>4. Ascending(t)
  <2> SUFFICES ASSUME NEW i \in DOMAIN t, NEW j \in DOMAIN t, i < j PROVE t[i] < t[j]
    BY DEF Ascending
  <2>1. i \in DOMAIN s
    BY <1>1
  <2>2. j \in DOMAIN s \/ j = Len(s) + 1
    BY <1>1
  <2> QED
    BY <1>1, <1>3, <2>1, <2>2 DEF Ascending
<1> QED
  BY <1>2, <1>4 DEF t

LEMMA AscendingWithout ==
  ASSUME NEW S \in SUBSET Nat, NEW s \in Seq(S), Ascending(s), NEW id
  PROVE  Ascending(Without(s, id)) /\ ToSet(Without(s, id)) = ToSet(s) \ {id}
<1>1. ToSet(Without(s, id)) = ToSet(s) \ {id}
  BY AscendingInjective, WithoutFacts
<1>2. CASE id \in ToSet(s)
  <2> DEFINE k == CHOOSE n \in DOMAIN s : s[n] = id
             t == RemoveAt(s, k)
  <2>1. k \in DOMAIN s
    BY <1>2 DEF ToSet
  <2>2. Without(s, id) = t
    BY <1>2 DEF Without
  <2> HIDE DEF k
  <2>3. /\ t \in Seq(S) /\ Len(t) = Len(s) - 1
        /\ \A n \in 1 .. Len(s) - 1 : t[n] = IF n < k THEN s[n] ELSE s[n + 1]
    BY <2>1, RemoveAtFacts
  <2> HIDE DEF t
  <2>4. DOMAIN t = 1 .. Len(s) - 1 /\ DOMAIN s = 1 .. Len(s) /\ Len(s) \in Nat
    BY <2>3
  <2>5. ASSUME NEW i \in DOMAIN t, NEW j \in DOMAIN t, i < j
        PROVE  t[i] < t[j]
    <3> DEFINE old(n) == IF n < k THEN n ELSE n + 1
    <3>1. old(i) \in DOMAIN s /\ old(j) \in DOMAIN s /\ old(i) < old(j)
      BY <2>1, <2>4, <2>5
    <3>2. t[i] = s[old(i)] /\ t[j] = s[old(j)]
      BY <2>3, <2>4
    <3> QED
      BY <3>1, <3>2 DEF Ascending
  <2> QED
    BY <1>1, <2>2, <2>5 DEF Ascending
<1> QED
  BY <1>1, <1>2 DEF Without

\* Nothing that is awaited is put behind the others.
LEMMA SendingNews ==
  ASSUME Inv, AskedInv, NEW E, events \in Seq(E), NEW news \in Seq(E), events' = events \o news,
         \A k \in DOMAIN news : news[k].type # "initial", UNCHANGED requests
  PROVE  AskedInv' /\ \A id : IsAwaited(id)' <=> IsAwaited(id)
<1>1. /\ DOMAIN events = 1 .. Len(events) /\ Len(events) \in Nat
      /\ DOMAIN events' = 1 .. Len(events) + Len(news) /\ Len(news) \in Nat
      /\ \A k \in DOMAIN events' : k \in DOMAIN events => events'[k] = events[k]
      /\ \A k \in DOMAIN events' : k \notin DOMAIN events => events'[k] = news[k - Len(events)]
      /\ DOMAIN events \subseteq DOMAIN events'
  <2>1. /\ DOMAIN events = 1 .. Len(events) /\ Len(events) \in Nat
        /\ DOMAIN (events \o news) = 1 .. Len(events) + Len(news) /\ Len(news) \in Nat
    OBVIOUS
  <2>2. \A k \in DOMAIN (events \o news) :
          IF k \in 1 .. Len(events) THEN (events \o news)[k] = events[k]
                                    ELSE (events \o news)[k] = news[k - Len(events)]
    OBVIOUS
  <2> QED
    BY <2>1, <2>2
<1>2. \A k \in DOMAIN events' : events'[k].type = "initial" =>
        k \in DOMAIN events /\ events'[k] = events[k]
  <2> SUFFICES ASSUME NEW k \in DOMAIN events', k \notin DOMAIN events
               PROVE  events'[k].type # "initial"
    BY <1>1
  <2>1. k - Len(events) \in DOMAIN news
    BY <1>1
  <2> QED
    BY <1>1, <2>1
<1>3. AskedInv'
  BY <1>1, <1>2 DEF AskedInv
<1>4. \A id : IsPending("initial", id)' <=> IsPending("initial", id)
  BY <1>1, <1>2 DEF IsPending
<1>5. \A id : IsRequested(id)' <=> IsRequested(id)
  BY DEF IsRequested
<1> QED
  BY <1>3, <1>4, <1>5 DEF IsAwaited

\* The next event is taken.
LEMMA TakingEvent ==
  ASSUME Inv, AskedInv, events # <<>>, events' = Tail(events), UNCHANGED requests
  PROVE  /\ AskedInv' /\ \A id : IsAwaited(id)' => IsAwaited(id)
         /\ Head(events).type = "initial" => \A id : IsAwaited(id)' => Head(events).id < id
         /\ \A t, id : ~(Head(events).type = t /\ Head(events).id = id) =>
              (IsPending(t, id)' <=> IsPending(t, id))
<1>1. /\ events \in Seq(EventsAbout(Ids))
      /\ Head(events) = events[1] /\ 1 \in DOMAIN events
      /\ DOMAIN events = 1 .. Len(events) /\ Len(events) \in Nat
      /\ DOMAIN events' = 1 .. Len(events) - 1
      /\ \A k \in DOMAIN events' : k + 1 \in DOMAIN events /\ events'[k] = events[k + 1]
                                                          /\ 1 < k + 1
      /\ \A k \in DOMAIN events : k # 1 => k - 1 \in DOMAIN events' /\ k = (k - 1) + 1
  <2>1. events \in Seq(EventsAbout(Ids))
    BY DEF Inv, TypeInv, WireInv
  <2> QED
    BY <2>1
<1>2. AskedInv'
  BY <1>1 DEF AskedInv
<1>3. \A t, id : IsPending(t, id)' => IsPending(t, id)
  BY <1>1 DEF IsPending
<1>4. \A id : IsRequested(id)' <=> IsRequested(id)
  BY DEF IsRequested
<1>5. ASSUME Head(events).type = "initial", NEW id, IsAwaited(id)'
      PROVE  Head(events).id < id
  <2>1. CASE IsRequested(id)
    BY <1>1, <1>5, <2>1 DEF AskedInv, IsRequested
  <2>2. CASE IsPending("initial", id)'
    <3>1. PICK k \in DOMAIN events' : events'[k].type = "initial" /\ events'[k].id = id
      BY <2>2 DEF IsPending
    <3> QED
      BY <1>1, <1>5, <3>1 DEF AskedInv
  <2> QED
    BY <1>4, <1>5, <2>1, <2>2 DEF IsAwaited
<1>6. ASSUME NEW t, NEW id, ~(Head(events).type = t /\ Head(events).id = id), IsPending(t, id)
      PROVE  IsPending(t, id)'
  <2>1. PICK k \in DOMAIN events : events[k].type = t /\ events[k].id = id
    BY <1>6 DEF IsPending
  <2>2. k # 1
    BY <1>1, <1>6, <2>1
  <2>3. k - 1 \in DOMAIN events' /\ events'[k - 1] = events[(k - 1) + 1] /\ k = (k - 1) + 1
    BY <1>1, <2>2
  <2> QED
    BY <2>1, <2>3 DEF IsPending
<1> QED
  BY <1>2, <1>3, <1>4, <1>5, <1>6 DEF IsAwaited

\* What is awaited does not come between the rows there are.
LEMMA RowsStay ==
  ASSUME Inv, RowsInv, UNCHANGED <<windows, model, modelUp>>, Ids' = Ids,
         \A id \in Ids : obj'[id].phase = "mapped" <=> obj[id].phase = "mapped",
         \A id : IsAwaited(id)' => IsAwaited(id)
  PROVE  RowsInv'
BY DEF RowsInv

LEMMA ServeRows ==
  ASSUME ModelInv, Inv', ServeGetWindow
  PROVE  AskedInv' /\ RowsInv'
<1> DEFINE r == Head(requests)
<1>1. /\ requests # <<>> /\ requests' = Tail(requests) /\ UNCHANGED clientVars
      /\ \/ events' = events \o <<StateEvent(r.id, r.win = focus), Initial(r.id)>>
         \/ events' = events \o <<Unmapped(r.id)>>
  BY DEF ServeGetWindow
<1>2. /\ requests \in Seq([id : Ids, win : Windows]) /\ events \in Seq(EventsAbout(Ids))
      /\ Ids' = Ids
  BY <1>1 DEF ModelInv, Inv, TypeInv, WireInv, Ids, clientVars
<1>3. /\ r = requests[1] /\ 1 \in DOMAIN requests
      /\ \A k \in DOMAIN requests' : k + 1 \in DOMAIN requests /\ requests'[k] = requests[k + 1]
                                                              /\ 1 < k + 1
      /\ DOMAIN requests \subseteq Nat /\ DOMAIN requests' \subseteq Nat
  BY <1>1, <1>2
<1>4. IsRequested(r.id) /\ \A id : IsRequested(id)' => IsRequested(id)
  BY <1>3 DEF IsRequested
<1> DEFINE n == Len(events)
<1>5. n \in Nat /\ DOMAIN events = 1 .. n
  BY <1>2
<1> HIDE DEF r
<1>6. /\ \A k \in DOMAIN events' :
           \/ k \in DOMAIN events /\ events'[k] = events[k]
           \/ k > n /\ (events'[k].type = "initial" => k = n + 2 /\ events'[k].id = r.id)
      /\ \A k \in DOMAIN events : k \in DOMAIN events' /\ events'[k] = events[k]
      /\ DOMAIN events' \subseteq Nat
  <2>1. CASE events' = events \o <<StateEvent(r.id, r.win = focus), Initial(r.id)>>
    <3> DEFINE a == StateEvent(r.id, r.win = focus)
               b == Initial(r.id)
    <3>1. a.type # "initial" /\ b.id = r.id
      BY DEF StateEvent, Initial
    <3> HIDE DEF a, b
    <3>2. /\ DOMAIN (events \o <<a, b>>) = 1 .. n + 2
          /\ \A k \in 1 .. n : (events \o <<a, b>>)[k] = events[k]
          /\ (events \o <<a, b>>)[n + 1] = a
          /\ (events \o <<a, b>>)[n + 2] = b
      BY <1>2, <1>5
    <3>3. events' = events \o <<a, b>>
      BY <2>1 DEF a, b
    <3>4. \A k \in 1 .. n + 2 : k \in 1 .. n \/ k = n + 1 \/ k = n + 2
      BY <1>5
    <3> QED
      BY <1>5, <3>1, <3>2, <3>3, <3>4
  <2>2. CASE events' = events \o <<Unmapped(r.id)>>
    <3> DEFINE a == Unmapped(r.id)
    <3>1. a.type # "initial"
      BY DEF Unmapped
    <3> HIDE DEF a
    <3>2. /\ DOMAIN (events \o <<a>>) = 1 .. n + 1
          /\ \A k \in 1 .. n : (events \o <<a>>)[k] = events[k]
          /\ (events \o <<a>>)[n + 1] = a
      BY <1>2, <1>5
    <3>3. events' = events \o <<a>>
      BY <2>2 DEF a
    <3>4. \A k \in 1 .. n + 1 : k \in 1 .. n \/ k = n + 1
      BY <1>5
    <3> QED
      BY <1>5, <3>1, <3>2, <3>3, <3>4
  <2> QED
    BY <1>1, <2>1, <2>2
<1>7. \A j \in DOMAIN events : events[j].type = "initial" => events[j].id < r.id
  BY <1>3 DEF ModelInv, AskedInv
<1>8. \A k \in DOMAIN requests' : r.id < requests'[k].id
  BY <1>3 DEF ModelInv, AskedInv
<1>9. AskedInv'
  <2>1. \A j, k \in DOMAIN requests' : j < k => requests'[j].id < requests'[k].id
    BY <1>3 DEF ModelInv, AskedInv
  <2>2. \A j \in DOMAIN events', k \in DOMAIN requests' :
          events'[j].type = "initial" => events'[j].id < requests'[k].id
    <3> SUFFICES ASSUME NEW j \in DOMAIN events', NEW k \in DOMAIN requests',
                        events'[j].type = "initial"
                 PROVE  events'[j].id < requests'[k].id
      OBVIOUS
    <3>1. CASE j \in DOMAIN events
      BY <1>3, <1>6, <3>1 DEF ModelInv, AskedInv
    <3>2. CASE j \notin DOMAIN events
      BY <1>6, <1>8, <3>2
    <3> QED
      BY <3>1, <3>2
  <2>3. \A j, k \in DOMAIN events' :
          j < k /\ events'[j].type = "initial" /\ events'[k].type = "initial" =>
            events'[j].id < events'[k].id
    <3> SUFFICES ASSUME NEW j \in DOMAIN events', NEW k \in DOMAIN events', j < k,
                        events'[j].type = "initial", events'[k].type = "initial"
                 PROVE  events'[j].id < events'[k].id
      OBVIOUS
    <3>1. CASE k \in DOMAIN events
      <4>1. j \in DOMAIN events
        BY <1>5, <1>6, <3>1
      <4> QED
        BY <1>6, <3>1, <4>1 DEF ModelInv, AskedInv
    <3>2. CASE k \notin DOMAIN events
      <4>1. k = n + 2 /\ events'[k].id = r.id
        BY <1>6, <3>2
      <4>2. j \in DOMAIN events /\ events'[j] = events[j]
        BY <1>5, <1>6, <4>1
      <4> QED
        BY <1>7, <4>1, <4>2
    <3> QED
      BY <3>1, <3>2
  <2> QED
    BY <2>1, <2>2, <2>3 DEF AskedInv
<1>10. \A id : IsAwaited(id)' => IsAwaited(id)
  <2>1. \A id : IsPending("initial", id)' => IsPending("initial", id) \/ id = r.id
    BY <1>6 DEF IsPending
  <2> QED
    BY <1>4, <2>1 DEF IsAwaited
<1> QED
  BY <1>1, <1>2, <1>9, <1>10, RowsStay DEF ModelInv, clientVars

LEMMA CompositorRows ==
  ASSUME ModelInv, Inv', CompositorNext
  PROVE  AskedInv' /\ RowsInv'
<1>1. CASE ServeGetWindow
  BY <1>1, ServeRows
<1>2. ASSUME UNCHANGED <<requests, clientVars>>, NEW news \in Seq(EventsAbout(Ids)),
             events' = events \o news, \A k \in DOMAIN news : news[k].type # "initial"
      PROVE  AskedInv' /\ RowsInv'
  <2>1. AskedInv' /\ \A id : IsAwaited(id)' <=> IsAwaited(id)
    BY <1>2, SendingNews DEF ModelInv, Inv, TypeInv, WireInv
  <2>2. UNCHANGED <<windows, model, modelUp, obj>> /\ Ids' = Ids
    BY <1>2 DEF clientVars, Ids
  <2> QED
    BY <2>1, <2>2, RowsStay DEF ModelInv
<1>3. events \in Seq(EventsAbout(Ids)) /\ TypeOK
  BY DEF ModelInv, Inv, TypeInv, WireInv
<1>4. ASSUME UNCHANGED <<requests, clientVars>>, NEW e \in EventsAbout(Ids),
             events' = Append(events, e), e.type # "initial"
      PROVE  AskedInv' /\ RowsInv'
  <2> DEFINE news == <<e>>
  <2>1. Append(events, e) = events \o news
    BY <1>3
  <2>2. news \in Seq(EventsAbout(Ids)) /\ DOMAIN news = {1} /\ news[1] = e
    OBVIOUS
  <2> HIDE DEF news
  <2> QED
    BY <1>2, <1>4, <2>1, <2>2
<1>5. ASSUME NEW w \in Windows, MapWindow(w)
      PROVE  AskedInv' /\ RowsInv'
  <2>1. setups \in Nat
    BY <1>3, WindowsAssumption DEF TypeOK
  <2> DEFINE e == Announce(w, setups)
  <2>2. e \in EventsAbout(Ids) /\ e.type # "initial"
    BY <2>1, EventTypes DEF Announce
  <2>3. UNCHANGED <<requests, clientVars>> /\ (events' = events \/ events' = Append(events, e))
    BY <1>5 DEF MapWindow
  <2> HIDE DEF e
  <2>4. CASE events' = events
    <3> DEFINE news == <<>>
    <3>1. events \o news = events
      BY <1>3
    <3>2. news \in Seq(EventsAbout(Ids)) /\ DOMAIN news = {}
      OBVIOUS
    <3> HIDE DEF news
    <3> QED
      BY <1>2, <2>3, <2>4, <3>1, <3>2
  <2>5. CASE events' = Append(events, e)
    <3> QED
      BY <1>4, <2>2, <2>3, <2>5
  <2> QED
    BY <2>3, <2>4, <2>5
<1>6. ASSUME NEW w \in Windows, UnmapWindow(w)
      PROVE  AskedInv' /\ RowsInv'
  <2>1. PICK ids \in SetToSeqs(Watching(w)) : events' = events \o [n \in DOMAIN ids |-> Unmapped(ids[n])]
    BY <1>6 DEF UnmapWindow, Unmappings
  <2> DEFINE news == [n \in DOMAIN ids |-> Unmapped(ids[n])]
  <2>2. news \in Unmappings(w)
    BY DEF Unmappings
  <2>3. news \in Seq(EventsAbout(Ids))
    BY <1>3, <2>2, NewsTypes
  <2>4. \A k \in DOMAIN news : news[k].type # "initial"
    BY DEF Unmapped
  <2> HIDE DEF news
  <2> QED
    BY <1>2, <1>6, <2>1, <2>3, <2>4 DEF UnmapWindow, news
<1>7. ASSUME NEW w \in mapped \union {NoWindow}, Activate(w)
      PROVE  AskedInv' /\ RowsInv'
  <2>1. PICK lost \in States(focus, FALSE), won \in States(w, TRUE) :
             events' = events \o lost \o won \/ events' = events \o won \o lost
    BY <1>7 DEF Activate
  <2>2. /\ lost \in Seq(EventsAbout(Ids)) /\ won \in Seq(EventsAbout(Ids))
        /\ \A k \in DOMAIN lost : lost[k].type # "initial"
        /\ \A k \in DOMAIN won : won[k].type # "initial"
    <3>1. lost \in Seq(EventsAbout(Ids)) /\ won \in Seq(EventsAbout(Ids))
      BY <1>3, NewsTypes
    <3>2. ASSUME NEW v, NEW set \in BOOLEAN, NEW news \in States(v, set), NEW k \in DOMAIN news
          PROVE  news[k].type # "initial"
      <4>1. PICK ids \in SetToSeqs(Watching(v)) : news = [n \in DOMAIN ids |-> StateEvent(ids[n], set)]
        BY <3>2 DEF States
      <4>2. news[k] = StateEvent(ids[k], set)
        BY <4>1
      <4> QED
        BY <4>2 DEF StateEvent
    <3> QED
      BY <3>1, <3>2
  <2>3. ASSUME NEW a \in Seq(EventsAbout(Ids)), NEW b \in Seq(EventsAbout(Ids)),
               \A k \in DOMAIN a : a[k].type # "initial",
               \A k \in DOMAIN b : b[k].type # "initial",
               events' = events \o a \o b
        PROVE  AskedInv' /\ RowsInv'
    <3>1. events' = events \o (a \o b)
      BY <1>3, <2>3
    <3>2. a \o b \in Seq(EventsAbout(Ids)) /\ \A k \in DOMAIN (a \o b) : (a \o b)[k].type # "initial"
      BY <2>3
    <3>3. UNCHANGED <<requests, clientVars>>
      BY <1>7 DEF Activate
    <3> QED
      BY <1>2, <3>1, <3>2, <3>3
  <2> QED
    BY <2>1, <2>2, <2>3
<1>8. ASSUME NEW id \in Ids, NEW p \in 0 .. Len(obj), Reparent(id, p)
      PROVE  AskedInv' /\ RowsInv'
  <2> DEFINE e == Parent(id, p)
  <2>1. p \in Ids \union {0} /\ p # id
    BY <1>3, <1>8 DEF Reparent, TypeOK
  <2>2. e \in EventsAbout(Ids) /\ e.type # "initial"
    BY <2>1, EventTypes DEF Parent
  <2>3. UNCHANGED <<requests, clientVars>> /\ events' = Append(events, e)
    BY <1>8 DEF Reparent
  <2> HIDE DEF e
  <2> QED
    BY <1>4, <2>2, <2>3
<1> QED
  BY <1>1, <1>5, <1>6, <1>7, <1>8 DEF CompositorNext

LEMMA DispatchRows ==
  ASSUME ModelInv, Inv', DispatchEvent
  PROVE  AskedInv' /\ RowsInv'
<1>1. events # <<>> /\ events' = Tail(events) /\ UNCHANGED <<requests, modelUp>>
  BY DEF DispatchEvent, Dropped, windowCallback, stateChangedCallback, parentWindowCallback,
         initialStateCallback, unmappedCallback, Dispatch, Takes, clientVars
<1>2. /\ AskedInv' /\ \A id : IsAwaited(id)' => IsAwaited(id)
      /\ Head(events).type = "initial" => \A id : IsAwaited(id)' => Head(events).id < id
  BY <1>1, TakingEvent DEF ModelInv
<1>3. /\ windows \in Seq(Ids) /\ model \in Seq(Ids) /\ Ids \in SUBSET Nat
      /\ obj \in [Ids -> Object] /\ DOMAIN obj = Ids
  BY ObjectTypes DEF ModelInv, Inv, TypeInv, TypeOK, Ids
<1>4. CASE Dropped \/ windowCallback
  <2>1. UNCHANGED <<windows, model, obj>> /\ Ids' = Ids
    BY <1>4 DEF Dropped, windowCallback, clientVars, Ids
  <2> QED
    BY <1>1, <1>2, <2>1, RowsStay DEF ModelInv
<1>5. CASE stateChangedCallback \/ parentWindowCallback
  <2>1. UNCHANGED <<windows, model>>
    BY <1>5 DEF stateChangedCallback, parentWindowCallback
  <2> DEFINE id == Head(events).id
  <2>2. \/ obj' = [obj EXCEPT ![id].active = Head(events).set]
        \/ \E q : obj' = [obj EXCEPT ![id].parent = q]
    BY <1>5 DEF stateChangedCallback, parentWindowCallback
  <2>3. id \in Ids
    <3>1. Takes("state") \/ Takes("parent")
      BY <1>5 DEF stateChangedCallback, parentWindowCallback, Dispatch
    <3> QED
      BY <3>1, NextEvent DEF ModelInv, Inv, TypeInv
  <2> HIDE DEF id
  <2>4. DOMAIN obj' = DOMAIN obj /\ \A n \in Ids : obj'[n].phase = obj[n].phase
    <3>1. CASE obj' = [obj EXCEPT ![id].active = Head(events).set]
      <4>1. obj'[id] = [obj[id] EXCEPT !.active = Head(events).set] /\ obj[id] \in Object
        BY <1>3, <2>3, <3>1
      <4>2. obj'[id].phase = obj[id].phase
        BY <4>1 DEF Object
      <4> QED
        BY <1>3, <3>1, <4>2
    <3>2. ASSUME NEW q, obj' = [obj EXCEPT ![id].parent = q]
          PROVE  DOMAIN obj' = DOMAIN obj /\ \A n \in Ids : obj'[n].phase = obj[n].phase
      <4>1. obj'[id] = [obj[id] EXCEPT !.parent = q] /\ obj[id] \in Object
        BY <1>3, <2>3, <3>2
      <4>2. obj'[id].phase = obj[id].phase
        BY <4>1 DEF Object
      <4> QED
        BY <1>3, <3>2, <4>2
    <3> QED
      BY <2>2, <3>1, <3>2
  <2>5. Ids' = Ids
    <3>1. DOMAIN obj' = Ids'
      BY ObjectTypes, <2>4 DEF Inv, TypeInv, TypeOK, Ids
    <3> QED
      BY <1>3, <2>4, <3>1
  <2> QED
    BY <1>1, <1>2, <2>1, <2>4, <2>5, RowsStay DEF ModelInv
<1>6. CASE initialStateCallback
  <2> DEFINE id == Head(events).id
  <2>1. Head(events).type = "initial" /\ UNCHANGED <<windows, obj>> /\ Ids' = Ids
    BY <1>6 DEF initialStateCallback, Dispatch, Takes, Ids
  <2>2. CASE UNCHANGED model
    BY <1>1, <1>2, <2>1, <2>2, RowsStay DEF ModelInv
  <2>3. CASE ~UNCHANGED model
    <3>1. model' = Append(model, id) /\ modelUp /\ obj[id].phase = "mapped" /\ id \notin ToSet(model)
      BY <1>6, <2>3 DEF initialStateCallback
    <3>2. id \in Ids
      <4>1. Takes("initial")
        BY <1>6 DEF initialStateCallback, Dispatch
      <4> QED
        BY <4>1, NextEvent DEF ModelInv, Inv, TypeInv
    <3>3. IsAwaited(id)
      <4>1. 1 \in DOMAIN events /\ Head(events) = events[1]
        BY <1>1 DEF ModelInv, Inv, TypeInv, WireInv
      <4> QED
        BY <2>1, <4>1 DEF IsAwaited, IsPending
    <3>4. \A n \in ToSet(model) : n < id
      BY <3>1, <3>2, <3>3 DEF ModelInv, RowsInv
    <3>5. Ascending(model') /\ ToSet(model') = ToSet(model) \union {id}
      BY <1>3, <3>1, <3>2, <3>4, AscendingAppend DEF ModelInv, RowsInv
    <3>6. id \in ToSet(windows)
      BY <3>1, <3>2 DEF ModelInv, Inv, WindowsConsistent, WindowsAreMapped
    <3>7. \A n : IsAwaited(n)' => id < n
      BY <1>2, <2>1
    <3> HIDE DEF id
    <3> QED
      BY <1>1, <1>2, <2>1, <3>1, <3>5, <3>6, <3>7 DEF ModelInv, RowsInv
  <2> QED
    BY <2>2, <2>3
<1>7. CASE unmappedCallback
  <2> DEFINE id == Head(events).id
  <2>1. /\ Takes("unmapped")
        /\ obj' = [n \in Ids |-> IF n = id THEN [obj[n] EXCEPT !.phase = "unmapped"]
                                           ELSE [obj[n] EXCEPT !.parent = ParentWithout(n, id)]]
        /\ windows' = Without(windows, id) /\ model' = Without(model, id)
    BY <1>7 DEF unmappedCallback, Dispatch, LeavesList, RowsWithout
  <2>2. id \in Ids
    BY <2>1, NextEvent DEF ModelInv, Inv, TypeInv
  <2> HIDE DEF id
  <2>3. Ids' = Ids
    BY <1>3, <2>1, ObjectTypes DEF ModelInv, Ids
  <2>4. \A n \in Ids : obj'[n].phase = "mapped" <=> n # id /\ obj[n].phase = "mapped"
    <3> SUFFICES ASSUME NEW n \in Ids
                 PROVE  obj'[n].phase = "mapped" <=> n # id /\ obj[n].phase = "mapped"
      OBVIOUS
    <3>1. obj[n] \in Object
      BY <1>3
    <3> QED
      BY <2>1, <3>1 DEF Object
  <2>5. /\ Ascending(windows') /\ ToSet(windows') = ToSet(windows) \ {id}
        /\ Ascending(model') /\ ToSet(model') = ToSet(model) \ {id}
    BY <1>3, <2>1, AscendingWithout DEF ModelInv, RowsInv
  <2>6. ~modelUp => model' = <<>>
    <3>1. ~modelUp => model = <<>> /\ ToSet(model) = {}
      BY DEF ModelInv, RowsInv, ToSet
    <3> QED
      BY <2>1, <3>1 DEF Without
  <2> QED
    BY <1>1, <1>2, <2>3, <2>4, <2>5, <2>6 DEF ModelInv, RowsInv
<1> QED
  BY <1>4, <1>5, <1>6, <1>7 DEF DispatchEvent

LEMMA TimerRows ==
  ASSUME ModelInv, Inv', TimerFires
  PROVE  AskedInv' /\ RowsInv'
<1> DEFINE id == Len(obj) + 1
           new == [win |-> Head(timers), epoch |-> setups, phase |-> "mapped",
                   active |-> FALSE, parent |-> 0]
           r == [id |-> id, win |-> Head(timers)]
<1>1. /\ requests' = Append(requests, r) /\ windows' = Append(windows, id)
      /\ obj' = Append(obj, new) /\ UNCHANGED <<events, model, modelUp>>
  BY DEF TimerFires, windowCreated
<1>2. /\ requests \in Seq([id : Ids, win : Windows]) /\ events \in Seq(EventsAbout(Ids))
      /\ obj \in Seq(Object) /\ windows \in Seq(Ids) /\ model \in Seq(Ids)
      /\ Ids = 1 .. Len(obj) /\ Len(obj) \in Nat
  BY DEF ModelInv, Inv, TypeInv, TypeOK, WireInv, Ids
<1>3. id \in Nat /\ \A n \in Ids : n < id
  BY <1>2
<1>4. r.id = id
  OBVIOUS
<1> HIDE DEF r, new
<1>5. /\ DOMAIN requests' = DOMAIN requests \union {Len(requests) + 1}
      /\ DOMAIN requests = 1 .. Len(requests) /\ Len(requests) \in Nat
      /\ \A k \in DOMAIN requests : requests'[k] = requests[k]
      /\ requests'[Len(requests) + 1] = r
  BY <1>1, <1>2
<1>6. /\ Ids' = Ids \union {id}
      /\ \A n \in Ids : obj'[n] = obj[n]
  BY <1>1, <1>2 DEF Ids
<1>7. \A k \in DOMAIN requests : requests[k].id < id
  <2> SUFFICES ASSUME NEW k \in DOMAIN requests PROVE requests[k].id < id
    OBVIOUS
  <2>1. requests[k] \in [id : Ids, win : Windows]
    BY <1>2, Element
  <2>2. requests[k].id \in Ids
    BY <2>1
  <2> QED
    BY <1>3, <2>2
<1>8. \A k \in DOMAIN events : events[k].type = "initial" => events[k].id < id
  <2>1. \A k \in DOMAIN events : events[k] \in EventsAbout(Ids)
    BY <1>2
  <2> QED
    BY <1>3, <2>1 DEF EventsAbout
<1>9. \A n \in ToSet(windows) \union ToSet(model) : n \in Ids
  BY <1>2 DEF ToSet
<1> HIDE DEF id
<1>10. AskedInv'
  BY <1>1, <1>4, <1>5, <1>7, <1>8 DEF ModelInv, AskedInv
<1>11. Ascending(windows') /\ ToSet(windows') = ToSet(windows) \union {id}
  <2>1. windows \in Seq(Ids \union {id})
    <3>1. windows \in Seq(Ids) /\ Ids \subseteq Ids \union {id}
      BY <1>2
    <3> QED
      BY <3>1, SeqGrows
  <2>2. \A n \in ToSet(windows) : n < id
    BY <1>3, <1>9
  <2> QED
    <3>1. windows' = Append(windows, id)
      BY <1>1
    <3>2. Ascending(windows) /\ id \in Ids \union {id}
      BY DEF ModelInv, RowsInv
    <3>3. Ascending(Append(windows, id)) /\ ToSet(Append(windows, id)) = ToSet(windows) \union {id}
      BY <2>1, <2>2, <3>2, AscendingAppend
    <3> QED
      BY <3>1, <3>3 DEF ToSet
<1>12. \A n : IsAwaited(n)' => IsAwaited(n) \/ n = id
  <2>1. \A n : IsRequested(n)' => IsRequested(n) \/ n = id
    BY <1>4, <1>5 DEF IsRequested
  <2>2. \A n : IsPending("initial", n)' <=> IsPending("initial", n)
    BY <1>1 DEF IsPending
  <2> QED
    BY <2>1, <2>2 DEF IsAwaited
<1>13. RowsInv'
  <2>1. ASSUME NEW n \in Ids', obj'[n].phase = "mapped", n \notin ToSet(model), IsAwaited(n)',
               NEW m \in ToSet(model)
        PROVE  m < n
    <3>1. CASE n = id
      BY <1>3, <1>9, <3>1
    <3>2. CASE n # id
      <4>1. n \in Ids /\ obj[n].phase = "mapped" /\ IsAwaited(n)
        BY <1>6, <1>12, <2>1, <3>2
      <4> QED
        BY <2>1, <4>1 DEF ModelInv, RowsInv
    <3> QED
      BY <3>1, <3>2
  <2> QED
    BY <1>1, <1>11, <2>1 DEF ModelInv, RowsInv
<1> QED
  BY <1>10, <1>13

LEMMA OtherRows ==
  ASSUME ModelInv, Inv',
         \/ TimerFiresOnNullProxy \/ CreateModel \/ Release \/ Destroy \/ UNCHANGED vars
         \/ Setup
         \/ \E id \in Ids : DeleteLater(id)
  PROVE  AskedInv' /\ RowsInv'
<1>1. CASE TimerFiresOnNullProxy \/ UNCHANGED vars
  <2>1. UNCHANGED <<windows, model, modelUp, obj, events, requests>>
    BY <1>1 DEF TimerFiresOnNullProxy, vars, clientVars
  <2>2. Ids' = Ids /\ AskedInv' /\ \A id : IsAwaited(id)' <=> IsAwaited(id)
    BY <2>1 DEF Ids, ModelInv, AskedInv, IsAwaited, IsPending, IsRequested
  <2> QED
    BY <2>1, <2>2, RowsStay DEF ModelInv
<1>2. CASE CreateModel
  <2>1. /\ UNCHANGED <<windows, obj, events, requests>> /\ modelUp' /\ model' = windows
        /\ Ids' = Ids
    BY <1>2 DEF CreateModel, Ids
  <2>2. AskedInv'
    BY <2>1 DEF ModelInv, AskedInv
  <2>3. \A id \in Ids : obj[id].phase = "mapped" => id \in ToSet(windows)
    BY DEF ModelInv, Inv, WindowsConsistent, WindowsAreMapped
  <2> QED
    BY <2>1, <2>2, <2>3 DEF ModelInv, RowsInv
<1>3. CASE Release
  <2>1. /\ UNCHANGED <<windows, modelUp, obj, events, requests>> /\ model' = <<>> /\ Ids' = Ids
    BY <1>3 DEF Release, Ids
  <2>2. AskedInv' /\ ToSet(model') = {} /\ Ascending(model')
    BY <2>1 DEF ModelInv, AskedInv, ToSet, Ascending
  <2> QED
    BY <2>1, <2>2 DEF ModelInv, RowsInv
<1>4. CASE Destroy
  <2>1. /\ UNCHANGED <<windows, model, modelUp, obj>> /\ events' = <<>> /\ requests' = <<>>
        /\ Ids' = Ids
    BY <1>4 DEF Destroy, Ids
  <2>2. AskedInv' /\ \A id : ~IsAwaited(id)'
    BY <2>1 DEF AskedInv, IsAwaited, IsPending, IsRequested
  <2> QED
    BY <2>1, <2>2, RowsStay DEF ModelInv
<1>5. CASE Setup
  <2>1. UNCHANGED <<windows, model, modelUp, obj, requests>> /\ Ids' = Ids
    BY <1>5 DEF Setup, Ids
  <2>2. PICK order \in SetToSeqs(mapped) :
             events' = events \o [n \in DOMAIN order |-> Announce(order[n], setups + 1)]
    BY <1>5 DEF Setup
  <2> DEFINE news == [n \in DOMAIN order |-> Announce(order[n], setups + 1)]
  <2>3. mapped \subseteq Windows /\ setups \in Nat
    BY WindowsAssumption DEF ModelInv, Inv, TypeInv, TypeOK
  <2>4. order \in Seq(mapped)
    <3>1. IsFiniteSet(mapped)
      BY <2>3, WindowsAssumption, FS_Subset
    <3> QED
      BY <3>1, Enumerations
  <2>5. \A n \in DOMAIN order : Announce(order[n], setups + 1) \in EventsAbout(Ids)
    <3>1. \A n \in DOMAIN order : order[n] \in Windows
      BY <2>3, <2>4
    <3> QED
      BY <2>3, <3>1, EventTypes
  <2>6. news \in Seq(EventsAbout(Ids)) /\ \A k \in DOMAIN news : news[k].type # "initial"
    BY <2>4, <2>5 DEF Announce
  <2> HIDE DEF news
  <2>7. AskedInv' /\ \A id : IsAwaited(id)' <=> IsAwaited(id)
    BY <2>1, <2>2, <2>6, SendingNews DEF ModelInv, Inv, TypeInv, WireInv, news
  <2> QED
    BY <2>1, <2>7, RowsStay DEF ModelInv
<1>6. ASSUME NEW id \in Ids, DeleteLater(id)
      PROVE  AskedInv' /\ RowsInv'
  <2>1. /\ UNCHANGED <<windows, model, modelUp, events, requests>>
        /\ obj' = [obj EXCEPT ![id].phase = "deleted", ![id].parent = 0]
        /\ obj[id].phase = "unmapped"
    BY <1>6 DEF DeleteLater
  <2>2. obj \in [Ids -> Object] /\ DOMAIN obj = Ids
    BY ObjectTypes DEF ModelInv
  <2>3. obj'[id].phase = "deleted" /\ DOMAIN obj' = DOMAIN obj
    BY <2>1, <2>2 DEF Object
  <2>4. \A n \in Ids : n # id => obj'[n] = obj[n]
    BY <2>1, <2>2
  <2>5. AskedInv' /\ \A n : IsAwaited(n)' <=> IsAwaited(n)
    BY <2>1 DEF ModelInv, AskedInv, IsAwaited, IsPending, IsRequested
  <2>6. Ids' = Ids
    <3>1. DOMAIN obj' = Ids'
      BY ObjectTypes, <2>3 DEF Inv, TypeInv, TypeOK, Ids
    <3> QED
      BY <2>2, <2>3, <3>1
  <2> QED
    BY <2>1, <2>3, <2>4, <2>5, <2>6, RowsStay DEF ModelInv
<1> QED
  BY <1>1, <1>2, <1>3, <1>4, <1>5, <1>6

LEMMA InvNext ==
  ASSUME Inv, [Next]_vars
  PROVE  Inv'
<1>1. CASE CompositorNext
  BY <1>1, CompositorSteps
<1>2. CASE DispatchEvent
  BY <1>2, QuietSteps, StateChangedStep, ParentWindowStep, UnmappedStep DEF DispatchEvent
<1>3. CASE TimerFires \/ TimerFiresOnNullProxy \/ UNCHANGED vars
  BY <1>3, TimerStep, QuietSteps
<1>4. CASE \E id \in Ids : DeleteLater(id)
  BY <1>4, DeletionStep
<1>5. CASE UserNext
  BY <1>5, SetupStep, QuietSteps, EndSteps DEF UserNext
<1> QED
  BY <1>1, <1>2, <1>3, <1>4, <1>5 DEF Next

LEMMA ModelInvNext ==
  ASSUME ModelInv, [Next]_vars
  PROVE  ModelInv'
<1>1. Inv'
  BY InvNext DEF ModelInv
<1>2. AskedInv' /\ RowsInv'
  BY <1>1, CompositorRows, DispatchRows, TimerRows, OtherRows DEF Next, UserNext
<1> QED
  BY <1>1, <1>2 DEF ModelInv

LEMMA ModelInitially ==
  ASSUME Init
  PROVE  ModelInv
<1>1. Inv
  BY Initially
<1> QED
  BY <1>1 DEF Init, ModelInv, AskedInv, RowsInv, Ascending, ToSet, Ids

(***************************************************************************)
(* The rows of the model are listed windows, each in one row, in the order *)
(* of windows(), for any number of windows and set ups: also when the      *)
(* model is created between the appearance of a window and its initial     *)
(* state (PlasmaWindowModel::Private::addWindow, initialStateCallback).    *)
(***************************************************************************)
THEOREM RowsFollow == Spec => []ModelFollowsWindows
<1>1. Init => ModelInv
  BY ModelInitially
<1>2. ModelInv /\ [Next]_vars => ModelInv'
  BY ModelInvNext
<1>3. ModelInv => ModelFollowsWindows
  <2> SUFFICES ASSUME ModelInv PROVE ModelFollowsWindows
    OBVIOUS
  <2>1. /\ windows \in Seq(Ids) /\ model \in Seq(Ids) /\ Ids \in SUBSET Nat
        /\ Ascending(windows) /\ Ascending(model) /\ ToSet(model) \subseteq ToSet(windows)
    BY DEF ModelInv, RowsInv, Inv, TypeInv, TypeOK, Ids
  <2>2. IsInjective(model)
    BY <2>1, AscendingInjective
  <2>3. ASSUME NEW i \in DOMAIN model, NEW j \in DOMAIN model,
               NEW m \in DOMAIN windows, NEW n \in DOMAIN windows,
               model[i] = windows[m], model[j] = windows[n], i < j
        PROVE  m < n
    <3>1. windows[m] < windows[n]
      BY <2>1, <2>3 DEF Ascending
    <3>2. windows[m] \in Nat /\ windows[n] \in Nat /\ m \in Nat /\ n \in Nat
      <4>1. windows[m] \in Ids /\ windows[n] \in Ids /\ DOMAIN windows = 1 .. Len(windows)
            /\ Len(windows) \in Nat
        BY <2>1
      <4>2. \A x \in Ids : x \in Nat
        BY <2>1
      <4> QED
        BY <4>1, <4>2
    <3>3. m # n /\ ~(n < m)
      BY <2>1, <3>1, <3>2 DEF Ascending
    <3> QED
      BY <3>2, <3>3
  <2> QED
    BY <2>1, <2>2, <2>3 DEF ModelFollowsWindows
<1> QED
  BY <1>1, <1>2, <1>3, PTL DEF Spec

-----------------------------------------------------------------------------
(* What the client sees when nothing is on its way.                        *)

\* After a second set up windows of the first connection would still be listed
\* (PlasmaWindowManagement::destroy leaves them to the user).
OneSetup == MaxSetups <= 1

UnsetInv ==
  setups = 0 => /\ events = <<>> /\ requests = <<>> /\ timers = <<>>
                /\ obj = <<>> /\ bound = {}

\* A window is announced once, by the interface that is there, and gets one object.
IsAnnounced(w) == \E k \in DOMAIN events : events[k].type = "window" /\ events[k].win = w
HasObject(w) == \E id \in Ids : obj[id].win = w

AnnouncedOnce ==
  /\ \A k \in DOMAIN events : events[k].type = "window" => events[k].epoch = setups
  /\ \A j, k \in DOMAIN events :
       /\ events[j].type = "window" /\ events[k].type = "window"
       /\ events[j].win = events[k].win
       => j = k

AnnouncedInv ==
  /\ AnnouncedOnce
  /\ \A w \in Windows : IsAnnounced(w) => w \notin unborn /\ w \notin ToSet(timers) /\ ~HasObject(w)
  /\ \A w \in ToSet(timers) : w \notin unborn /\ ~HasObject(w)
  /\ IsInjective(timers)
  /\ \A i, j \in Ids : obj[i].win \notin unborn /\ (obj[i].win = obj[j].win => i = j)
  /\ \A w \in mapped : IsAnnounced(w) \/ w \in ToSet(timers) \/ HasObject(w)

\* An object has a resource of the compositor or a request that asks for it.
BoundInv ==
  /\ \A id \in Ids : id \in bound <=> ~IsRequested(id)
  /\ \A k \in DOMAIN requests : requests[k].win = obj[requests[k].id].win

\* A listed window is in the model, or what brings it in or takes it from the list
\* is on its way.
ComingInv ==
  modelUp => \A id \in ToSet(windows) :
               \/ id \in ToSet(model)
               \/ IsPending("initial", id) \/ IsPending("unmapped", id) \/ IsRequested(id)

\* What a side takes for the active windows and for those that are gone.
Views == [active : SUBSET (Nat \ {0}), window : Nat, gone : SUBSET (Nat \ {0})]

ClientView ==
  [active |-> {id \in Ids : obj[id].phase = "mapped" /\ obj[id].active},
   window |-> activeWindow,
   gone |-> {id \in Ids : obj[id].phase # "mapped"}]

FocusOf(ids) == IF ids = {} THEN 0 ELSE CHOOSE id \in ids : TRUE
Focused == {id \in bound : obj[id].win = focus}
Gone == {id \in bound : obj[id].win \notin mapped}
ServerView == [active |-> Focused, window |-> FocusOf(Focused), gone |-> Gone]

\* Between the two events that move the focus two windows are active; the next
\* event is then about the one that has lost it.
OneActive(s) == s.active = IF s.window = 0 THEN {} ELSE {s.window}
MayMeet(s, e) ==
  \/ OneActive(s)
  \/ /\ s.active = {s.window, e.id} /\ s.window # e.id
     /\ e.type = "state" /\ ~e.set

Won(s, id) == [active |-> s.active \union {id},
               window |-> IF id \in s.active THEN s.window ELSE id, gone |-> s.gone]
Lost(s, id, gone) == [active |-> s.active \ {id},
                      window |-> IF s.window = id THEN 0 ELSE s.window, gone |-> gone]

Moves(s, e) ==
  IF e.type = "state" THEN IF e.set THEN Won(s, e.id) ELSE Lost(s, e.id, s.gone)
  ELSE IF e.type = "unmapped" THEN Lost(s, e.id, s.gone \union {e.id})
  ELSE s

\* An event takes one view to the next; none is about a window that is gone.
Moving ==
  {move \in Views \X EventsAbout(Nat \ {0}) \X Views :
     /\ MayMeet(move[1], move[2])
     /\ move[2].type # "window" => move[2].id \notin move[1].gone
     /\ move[3] = Moves(move[1], move[2])}

ViewInv == Leads(Views, Moving, ClientView, events, ServerView)

LiveInv == AnnouncedInv /\ BoundInv /\ ComingInv /\ ViewInv
QuietInv == ModelInv /\ UnsetInv /\ (wm = "bound" => LiveInv)
-----------------------------------------------------------------------------
\* A set of at most one element has one enumeration.
LEMMA OneOrder ==
  ASSUME NEW S, NEW s \in SetToSeqs(S)
  PROVE  /\ S = {} => DOMAIN s = {}
         /\ \A x : S = {x} => DOMAIN s = {1} /\ s[1] = x
<1>1. CASE S = {}
  BY <1>1, FS_EmptySet DEF SetToSeqs
<1>2. ASSUME NEW x, S = {x}
      PROVE  DOMAIN s = {1} /\ s[1] = x
  <2>1. Cardinality(S) = 1
    BY <1>2, FS_Singleton
  <2> QED
    BY <1>2, <2>1 DEF SetToSeqs
<1> QED
  BY <1>1, <1>2

\* The enumerations of a finite set have each element once.
LEMMA AllInOrder ==
  ASSUME NEW S, IsFiniteSet(S), NEW s \in SetToSeqs(S)
  PROVE  /\ \A j, k \in DOMAIN s : s[j] = s[k] => j = k
         /\ \A x \in S : \E k \in DOMAIN s : s[k] = x
<1> DEFINE m == Cardinality(S)
<1>1. m \in Nat
  BY FS_CardinalityType
<1>2. s \in [1 .. m -> S] /\ \A j, k \in DOMAIN s : s[j] = s[k] => j = k
  BY DEF SetToSeqs
<1>3. s \in Injection(1 .. m, S)
  BY <1>2 DEF Injection, IsInjective
<1>4. Cardinality(1 .. m) = m
  BY <1>1, FS_Interval
<1>5. s \in Surjection(1 .. m, S)
  BY <1>1, <1>3, <1>4, FS_Injection
<1> QED
  BY <1>2, <1>5 DEF Surjection

LEMMA MovingFacts ==
  ASSUME NEW s, NEW e, NEW t
  PROVE  <<s, e, t>> \in Moving <=>
           /\ s \in Views /\ e \in EventsAbout(Nat \ {0}) /\ t \in Views
           /\ MayMeet(s, e)
           /\ e.type # "window" => e.id \notin s.gone
           /\ t = Moves(s, e)
<1> DEFINE move == <<s, e, t>>
<1>1. move[1] = s /\ move[2] = e /\ move[3] = t
  OBVIOUS
<1>2. move \in Views \X EventsAbout(Nat \ {0}) \X Views <=>
        s \in Views /\ e \in EventsAbout(Nat \ {0}) /\ t \in Views
  OBVIOUS
<1> HIDE DEF move
<1>3. move \in Moving <=>
        /\ move \in Views \X EventsAbout(Nat \ {0}) \X Views
        /\ MayMeet(s, e)
        /\ e.type # "window" => e.id \notin s.gone
        /\ t = Moves(s, e)
  BY <1>1 DEF Moving
<1> QED
  BY <1>2, <1>3 DEF move

LEMMA WireFacts ==
  ASSUME Inv
  PROVE  /\ events \in Seq(EventsAbout(Ids)) /\ events \in Seq(EventsAbout(Nat \ {0}))
         /\ requests \in Seq([id : Ids, win : Windows]) /\ timers \in Seq(Windows)
         /\ windows \in Seq(Ids) /\ model \in Seq(Ids)
         /\ Ids \subseteq Nat \ {0} /\ Ids = 1 .. Len(obj) /\ Len(obj) \in Nat
         /\ bound \subseteq Ids /\ mapped \subseteq Windows \ unborn
         /\ focus \in mapped \union {NoWindow} /\ NoWindow \notin Windows
         /\ activeWindow \in Nat /\ DOMAIN obj = Ids
         /\ \A id \in Ids : /\ obj[id] \in Object /\ obj[id].win \in Windows
                            /\ obj[id].active \in BOOLEAN
                            /\ obj[id].phase \in {"mapped", "unmapped", "deleted"}
<1>1. /\ events \in Seq(EventsAbout(Ids))
      /\ requests \in Seq([id : Ids, win : Windows]) /\ timers \in Seq(Windows)
      /\ windows \in Seq(Ids) /\ model \in Seq(Ids)
      /\ bound \subseteq Ids /\ mapped \subseteq Windows \ unborn
      /\ focus \in mapped \union {NoWindow} /\ NoWindow \notin Windows
      /\ activeWindow \in 0 .. Len(obj)
  BY WindowsAssumption DEF Inv, TypeInv, TypeOK, WireInv
<1>2. Ids \subseteq Nat \ {0} /\ Ids = 1 .. Len(obj) /\ Len(obj) \in Nat /\ DOMAIN obj = Ids
  BY ObjectTypes DEF Ids
<1>3. events \in Seq(EventsAbout(Nat \ {0}))
  BY <1>1, <1>2, EventsGrow, SeqGrows
<1>4. activeWindow \in Nat
  BY <1>1, <1>2
<1>5. \A id \in Ids : /\ obj[id] \in Object /\ obj[id].win \in Windows
                      /\ obj[id].active \in BOOLEAN
                      /\ obj[id].phase \in {"mapped", "unmapped", "deleted"}
  BY ObjectTypes DEF Object
<1> QED
  BY <1>1, <1>2, <1>3, <1>4, <1>5

\* The events, when one side says something that is not an announcement.
LEMMA OtherNews ==
  ASSUME AnnouncedOnce, NEW E, events \in Seq(E), NEW news \in Seq(E), events' = events \o news,
         \A k \in DOMAIN news : news[k].type # "window", UNCHANGED setups
  PROVE  /\ AnnouncedOnce' /\ \A w : IsAnnounced(w)' <=> IsAnnounced(w)
         /\ \A t, id : IsPending(t, id) => IsPending(t, id)'
         /\ \A k \in DOMAIN news : \A t, id :
              news[k].type = t /\ news[k].id = id => IsPending(t, id)'
<1> DEFINE all == events'
<1>1. /\ \A k \in DOMAIN events : k \in DOMAIN all /\ all[k] = events[k]
      /\ \A k \in DOMAIN all : k \notin DOMAIN events =>
           k - Len(events) \in DOMAIN news /\ all[k] = news[k - Len(events)]
      /\ \A k \in DOMAIN news : Len(events) + k \in DOMAIN all /\ all[Len(events) + k] = news[k]
  BY Behind
<1>2. \A k \in DOMAIN events' : events'[k].type = "window" =>
        k \in DOMAIN events /\ events'[k] = events[k]
  BY <1>1
<1>3. AnnouncedOnce'
  BY <1>2 DEF AnnouncedOnce
<1>4. \A w : IsAnnounced(w)' <=> IsAnnounced(w)
  BY <1>1, <1>2 DEF IsAnnounced
<1>5. \A t, id : IsPending(t, id) => IsPending(t, id)'
  BY <1>1 DEF IsPending
<1>6. \A k \in DOMAIN news : \A t, id :
        news[k].type = t /\ news[k].id = id => IsPending(t, id)'
  <2> SUFFICES ASSUME NEW k \in DOMAIN news, NEW t, NEW id, news[k].type = t, news[k].id = id
               PROVE  IsPending(t, id)'
    OBVIOUS
  <2> DEFINE m == Len(events) + k
  <2>1. m \in DOMAIN events' /\ events'[m] = news[k]
    BY <1>1
  <2> HIDE DEF m
  <2> QED
    BY <2>1 DEF IsPending
<1> QED
  BY <1>3, <1>4, <1>5, <1>6

\* The events, when the next one is taken.
LEMMA OtherTaken ==
  ASSUME Inv, AnnouncedOnce, events # <<>>, events' = Tail(events), UNCHANGED setups
  PROVE  /\ AnnouncedOnce'
         /\ Head(events).type # "window" => \A w : IsAnnounced(w)' <=> IsAnnounced(w)
         /\ Head(events).type = "window" =>
              /\ IsAnnounced(Head(events).win)
              /\ \A w : IsAnnounced(w)' <=> IsAnnounced(w) /\ w # Head(events).win
<1> DEFINE rest == Tail(events)
<1>1. /\ 1 \in DOMAIN events /\ Head(events) = events[1]
      /\ \A k \in DOMAIN rest :
           k + 1 \in DOMAIN events /\ rest[k] = events[k + 1] /\ k + 1 # 1 /\ k \in Nat
      /\ \A k \in DOMAIN events : k # 1 =>
           k - 1 \in DOMAIN rest /\ rest[k - 1] = events[k] /\ k = (k - 1) + 1
  BY WireFacts, TailIndices
<1>2. events' = rest
  OBVIOUS
<1> HIDE DEF rest
<1>3. AnnouncedOnce'
  <2>1. \A k \in DOMAIN rest : rest[k].type = "window" => rest[k].epoch = setups
    BY <1>1 DEF AnnouncedOnce
  <2>2. ASSUME NEW j \in DOMAIN rest, NEW k \in DOMAIN rest, rest[j].type = "window",
               rest[k].type = "window", rest[j].win = rest[k].win
        PROVE  j = k
    <3>1. j + 1 = k + 1
      BY <1>1, <2>2 DEF AnnouncedOnce
    <3> QED
      BY <1>1, <3>1
  <2> QED
    BY <1>2, <2>1, <2>2 DEF AnnouncedOnce
<1>4. ASSUME NEW w
      PROVE  IsAnnounced(w)' <=>
               \E k \in DOMAIN events : k # 1 /\ events[k].type = "window" /\ events[k].win = w
  BY <1>1, <1>2 DEF IsAnnounced
<1>5. CASE Head(events).type # "window"
  <2>1. ASSUME NEW w PROVE IsAnnounced(w)' <=> IsAnnounced(w)
    <3>1. IsAnnounced(w) <=>
            \E k \in DOMAIN events : k # 1 /\ events[k].type = "window" /\ events[k].win = w
      BY <1>1, <1>5 DEF IsAnnounced
    <3> QED
      BY <1>4, <3>1
  <2> QED
    BY <1>3, <1>5, <2>1
<1>6. CASE Head(events).type = "window"
  <2>1. IsAnnounced(Head(events).win)
    BY <1>1, <1>6 DEF IsAnnounced
  <2>2. \A k \in DOMAIN events :
          k # 1 /\ events[k].type = "window" => events[k].win # Head(events).win
    BY <1>1, <1>6 DEF AnnouncedOnce
  <2>3. \A w : IsAnnounced(w)' <=> IsAnnounced(w) /\ w # Head(events).win
    <3> SUFFICES ASSUME NEW w PROVE IsAnnounced(w)' <=> IsAnnounced(w) /\ w # Head(events).win
      OBVIOUS
    <3>1. IsAnnounced(w)' => IsAnnounced(w) /\ w # Head(events).win
      BY <1>4, <2>2 DEF IsAnnounced
    <3>2. IsAnnounced(w) /\ w # Head(events).win => IsAnnounced(w)'
      BY <1>1, <1>4 DEF IsAnnounced
    <3> QED
      BY <3>1, <3>2
  <2> QED
    BY <1>3, <1>6, <2>1, <2>3
<1> QED
  BY <1>5, <1>6

\* Nothing is announced, asked for or created, and nothing is mapped.
LEMMA AnnouncedStays ==
  ASSUME AnnouncedInv, AnnouncedOnce', \A w : IsAnnounced(w)' <=> IsAnnounced(w),
         UNCHANGED <<unborn, timers>>, mapped' \subseteq mapped, Ids' = Ids,
         \A id \in Ids : obj'[id].win = obj[id].win
  PROVE  AnnouncedInv'
<1>1. \A w : HasObject(w)' <=> HasObject(w)
  BY DEF HasObject
<1> QED
  BY <1>1 DEF AnnouncedInv

-----------------------------------------------------------------------------
(* Announcements.                                                          *)

LEMMA CompositorSays ==
  ASSUME Inv,
         \/ \E w \in Windows : UnmapWindow(w)
         \/ \E w \in mapped \union {NoWindow} : Activate(w)
         \/ \E id \in Ids, p \in 0 .. Len(obj) : Reparent(id, p)
         \/ ServeGetWindow
  PROVE  \E news \in Seq(EventsAbout(Ids)) :
           events' = events \o news /\ \A k \in DOMAIN news : news[k].type # "window"
<1> USE DEF Inv, TypeInv
<1>1. TypeOK /\ events \in Seq(EventsAbout(Ids))
  BY WireFacts
<1>2. ASSUME NEW w \in Windows, UnmapWindow(w)
      PROVE  \E news \in Seq(EventsAbout(Ids)) :
               events' = events \o news /\ \A k \in DOMAIN news : news[k].type # "window"
  <2>1. PICK ids \in SetToSeqs(Watching(w)) : events' = events \o [n \in DOMAIN ids |-> Unmapped(ids[n])]
    BY <1>2 DEF UnmapWindow, Unmappings
  <2> DEFINE news == [n \in DOMAIN ids |-> Unmapped(ids[n])]
  <2>2. news \in Unmappings(w)
    BY DEF Unmappings
  <2>3. news \in Seq(EventsAbout(Ids))
    BY <1>1, <2>2, NewsTypes
  <2>4. \A k \in DOMAIN news : news[k].type # "window"
    BY DEF Unmapped
  <2> QED
    BY <2>1, <2>3, <2>4
<1>3. ASSUME NEW w \in mapped \union {NoWindow}, Activate(w)
      PROVE  \E news \in Seq(EventsAbout(Ids)) :
               events' = events \o news /\ \A k \in DOMAIN news : news[k].type # "window"
  <2>1. PICK lost \in States(focus, FALSE), won \in States(w, TRUE) :
             events' = events \o lost \o won \/ events' = events \o won \o lost
    BY <1>3 DEF Activate
  <2>2. lost \in Seq(EventsAbout(Ids)) /\ won \in Seq(EventsAbout(Ids))
    BY <1>1, NewsTypes
  <2>3. ASSUME NEW v, NEW set \in BOOLEAN, NEW news \in States(v, set), NEW k \in DOMAIN news
        PROVE  news[k].type # "window"
    <3>1. PICK ids \in SetToSeqs(Watching(v)) : news = [n \in DOMAIN ids |-> StateEvent(ids[n], set)]
      BY <2>3 DEF States
    <3>2. news[k] = StateEvent(ids[k], set)
      BY <3>1
    <3> QED
      BY <3>2 DEF StateEvent
  <2>4. ASSUME NEW a \in Seq(EventsAbout(Ids)), NEW b \in Seq(EventsAbout(Ids)),
               \A k \in DOMAIN a : a[k].type # "window",
               \A k \in DOMAIN b : b[k].type # "window",
               events' = events \o a \o b
        PROVE  \E news \in Seq(EventsAbout(Ids)) :
                 events' = events \o news /\ \A k \in DOMAIN news : news[k].type # "window"
    <3> DEFINE news == a \o b
    <3>1. events' = events \o news
      BY <1>1, <2>4
    <3>2. news \in Seq(EventsAbout(Ids)) /\ \A k \in DOMAIN news : news[k].type # "window"
      BY <2>4
    <3> HIDE DEF news
    <3> QED
      BY <3>1, <3>2
  <2> QED
    BY <2>1, <2>2, <2>3, <2>4
<1>4. ASSUME NEW e \in EventsAbout(Ids), e.type # "window", events' = Append(events, e)
      PROVE  \E news \in Seq(EventsAbout(Ids)) :
               events' = events \o news /\ \A k \in DOMAIN news : news[k].type # "window"
  <2> DEFINE news == <<e>>
  <2>1. Append(events, e) = events \o news
    BY <1>1
  <2>2. news \in Seq(EventsAbout(Ids)) /\ DOMAIN news = {1} /\ news[1] = e
    OBVIOUS
  <2> HIDE DEF news
  <2> QED
    BY <1>4, <2>1, <2>2
<1>5. ASSUME NEW id \in Ids, NEW p \in 0 .. Len(obj), Reparent(id, p)
      PROVE  \E news \in Seq(EventsAbout(Ids)) :
               events' = events \o news /\ \A k \in DOMAIN news : news[k].type # "window"
  <2> DEFINE e == Parent(id, p)
  <2>1. p \in Ids \union {0} /\ p # id
    BY <1>1, <1>5 DEF Reparent, TypeOK
  <2>2. e \in EventsAbout(Ids) /\ e.type # "window"
    BY <2>1, EventTypes DEF Parent
  <2>3. events' = Append(events, e)
    BY <1>5 DEF Reparent
  <2> HIDE DEF e
  <2> QED
    BY <1>4, <2>2, <2>3
<1>6. ASSUME ServeGetWindow
      PROVE  \E news \in Seq(EventsAbout(Ids)) :
               events' = events \o news /\ \A k \in DOMAIN news : news[k].type # "window"
  <2> DEFINE r == Head(requests)
             a == StateEvent(r.id, r.win = focus)
             b == Initial(r.id)
             c == Unmapped(r.id)
  <2>1. r \in [id : Ids, win : Windows]
    BY <1>6, WireFacts, TailFacts DEF ServeGetWindow
  <2>2. r.id \in Ids /\ (r.win = focus) \in BOOLEAN
    BY <2>1
  <2>3. a \in EventsAbout(Ids) /\ b \in EventsAbout(Ids) /\ c \in EventsAbout(Ids)
    BY <2>2, EventTypes
  <2>4. a.type # "window" /\ b.type # "window" /\ c.type # "window"
    BY DEF StateEvent, Initial, Unmapped
  <2>5. events' = events \o <<a, b>> \/ events' = events \o <<c>>
    BY <1>6 DEF ServeGetWindow
  <2> HIDE DEF a, b, c
  <2>6. <<a, b>> \in Seq(EventsAbout(Ids)) /\ \A k \in DOMAIN <<a, b>> : <<a, b>>[k].type # "window"
    BY <2>3, <2>4
  <2>7. <<c>> \in Seq(EventsAbout(Ids)) /\ \A k \in DOMAIN <<c>> : <<c>>[k].type # "window"
    BY <2>3, <2>4
  <2> QED
    BY <2>5, <2>6, <2>7
<1> QED
  BY <1>2, <1>3, <1>5, <1>6

\* An object keeps its window.
LEMMA WindowsOfObjects ==
  ASSUME Inv, \/ DispatchEvent
              \/ \E id \in Ids : DeleteLater(id)
  PROVE  DOMAIN obj' = DOMAIN obj /\ \A id \in Ids : obj'[id].win = obj[id].win
<1>1. /\ DOMAIN obj = Ids /\ \A n \in Ids : obj[n] \in Object
  BY WireFacts
<1>2. CASE Dropped \/ windowCallback \/ initialStateCallback
  BY <1>2 DEF Dropped, windowCallback, initialStateCallback, clientVars
<1>3. ASSUME NEW id, NEW q, obj' = [obj EXCEPT ![id].active = q]
      PROVE  DOMAIN obj' = DOMAIN obj /\ \A n \in Ids : obj'[n].win = obj[n].win
  BY <1>1, <1>3 DEF Object
<1>4. ASSUME NEW id, NEW q, obj' = [obj EXCEPT ![id].parent = q]
      PROVE  DOMAIN obj' = DOMAIN obj /\ \A n \in Ids : obj'[n].win = obj[n].win
  BY <1>1, <1>4 DEF Object
<1>5. CASE unmappedCallback
  <2>1. PICK id : obj' = [n \in Ids |-> IF n = id THEN [obj[n] EXCEPT !.phase = "unmapped"]
                                        ELSE [obj[n] EXCEPT !.parent = ParentWithout(n, id)]]
    BY <1>5 DEF unmappedCallback
  <2> QED
    BY <1>1, <2>1 DEF Object
<1>6. ASSUME NEW id \in Ids, DeleteLater(id)
      PROVE  DOMAIN obj' = DOMAIN obj /\ \A n \in Ids : obj'[n].win = obj[n].win
  BY <1>1, <1>6 DEF DeleteLater, Object
<1>7. CASE stateChangedCallback
  BY <1>3, <1>7 DEF stateChangedCallback
<1>8. CASE parentWindowCallback
  BY <1>4, <1>8 DEF parentWindowCallback
<1> QED
  BY <1>2, <1>5, <1>6, <1>7, <1>8 DEF DispatchEvent

LEMMA SameIds ==
  ASSUME Inv, Inv', DOMAIN obj' = DOMAIN obj
  PROVE  Ids' = Ids
<1>1. DOMAIN obj = Ids
  BY WireFacts
<1>2. DOMAIN obj' = Ids'
  BY DEF Inv, TypeInv, TypeOK, Ids
<1> QED
  BY <1>1, <1>2

LEMMA AnnouncedNext ==
  ASSUME Inv, Inv', AnnouncedInv, wm = "bound", setups \in Nat,
         \/ CompositorNext \/ DispatchEvent \/ TimerFires \/ CreateModel
         \/ \E id \in Ids : DeleteLater(id)
  PROVE  AnnouncedInv'
<1>1. ASSUME NEW w \in Windows, MapWindow(w)
      PROVE  AnnouncedInv'
  <2> DEFINE e == Announce(w, setups)
  <2>1. /\ w \in unborn /\ unborn' = unborn \ {w} /\ mapped' = mapped \union {w}
        /\ events' = Append(events, e) /\ UNCHANGED <<setups, timers, obj>>
    BY <1>1 DEF MapWindow, clientVars
  <2>2. e.type = "window" /\ e.win = w /\ e.epoch = setups
    BY DEF Announce
  <2> HIDE DEF e
  <2>3. /\ DOMAIN events' = DOMAIN events \union {Len(events) + 1}
        /\ Len(events) + 1 \notin DOMAIN events
        /\ \A k \in DOMAIN events : events'[k] = events[k]
        /\ events'[Len(events) + 1] = e
    BY <2>1, WireFacts
  <2>4. \A v : IsAnnounced(v)' <=> IsAnnounced(v) \/ v = w
    BY <2>2, <2>3 DEF IsAnnounced
  <2>5. ~IsAnnounced(w)
    BY <2>1 DEF AnnouncedInv
  <2>6. AnnouncedOnce'
    BY <2>1, <2>2, <2>3, <2>5 DEF AnnouncedOnce, AnnouncedInv, IsAnnounced
  <2>7. Ids' = Ids /\ \A v : HasObject(v)' <=> HasObject(v)
    BY <2>1 DEF Ids, HasObject
  <2>8. w \notin ToSet(timers) /\ ~HasObject(w)
    BY <2>1 DEF AnnouncedInv, HasObject
  <2> QED
    BY <2>1, <2>4, <2>6, <2>7, <2>8 DEF AnnouncedInv
<1>2. CASE \/ \E w \in Windows : UnmapWindow(w)
           \/ \E w \in mapped \union {NoWindow} : Activate(w)
           \/ \E id \in Ids, p \in 0 .. Len(obj) : Reparent(id, p)
           \/ ServeGetWindow
  <2>1. PICK news \in Seq(EventsAbout(Ids)) :
             events' = events \o news /\ \A k \in DOMAIN news : news[k].type # "window"
    BY <1>2, CompositorSays
  <2>2. UNCHANGED <<unborn, clientVars>> /\ mapped' \subseteq mapped
    BY <1>2 DEF UnmapWindow, Activate, Reparent, ServeGetWindow
  <2>3. UNCHANGED <<setups, timers, obj>> /\ Ids' = Ids
    BY <2>2 DEF clientVars, Ids
  <2>4. AnnouncedOnce' /\ \A w : IsAnnounced(w)' <=> IsAnnounced(w)
    BY <2>1, <2>3, WireFacts, OtherNews DEF AnnouncedInv
  <2> QED
    BY <2>2, <2>3, <2>4, AnnouncedStays
<1>3. CASE DispatchEvent
  <2>1. events # <<>> /\ events' = Tail(events) /\ UNCHANGED <<setups, unborn, mapped>>
    BY <1>3 DEF DispatchEvent, Dropped, windowCallback, stateChangedCallback, parentWindowCallback,
            initialStateCallback, unmappedCallback, Dispatch, Takes, clientVars, serverVars
  <2>2. DOMAIN obj' = DOMAIN obj /\ \A id \in Ids : obj'[id].win = obj[id].win
    BY <1>3, WindowsOfObjects
  <2>3. Ids' = Ids
    BY <2>2, SameIds
  <2>4. /\ AnnouncedOnce'
        /\ Head(events).type # "window" => \A w : IsAnnounced(w)' <=> IsAnnounced(w)
        /\ Head(events).type = "window" =>
             /\ IsAnnounced(Head(events).win)
             /\ \A w : IsAnnounced(w)' <=> IsAnnounced(w) /\ w # Head(events).win
    BY <2>1, OtherTaken DEF AnnouncedInv
  <2>5. CASE windowCallback
    <3> DEFINE w == Head(events).win
    <3>1. Head(events).type = "window" /\ timers' = Append(timers, w)
      BY <2>5 DEF windowCallback, Takes
    <3>2. w \in Windows
      BY <2>5, NextEvent DEF windowCallback, Inv, TypeInv
    <3> HIDE DEF w
    <3>3. /\ w \notin unborn /\ w \notin ToSet(timers) /\ ~HasObject(w)
          /\ \A v : IsAnnounced(v)' <=> IsAnnounced(v) /\ v # w
      BY <2>4, <3>1, <3>2 DEF AnnouncedInv, w
    <3>4. /\ DOMAIN timers' = DOMAIN timers \union {Len(timers) + 1}
          /\ Len(timers) + 1 \notin DOMAIN timers
          /\ \A k \in DOMAIN timers : timers'[k] = timers[k]
          /\ timers'[Len(timers) + 1] = w
      BY <3>1, <3>2, WireFacts
    <3>5. ToSet(timers') = ToSet(timers) \union {w}
      BY <3>4 DEF ToSet
    <3>6. IsInjective(timers')
      <4>1. \A k \in DOMAIN timers : timers[k] # w
        BY <3>3 DEF ToSet
      <4>2. \A j, k \in DOMAIN timers : timers[j] = timers[k] => j = k
        BY DEF AnnouncedInv, IsInjective
      <4> QED
        BY <3>4, <4>1, <4>2 DEF IsInjective
    <3>7. \A v : HasObject(v)' <=> HasObject(v)
      BY <2>2, <2>3 DEF HasObject
    <3> QED
      BY <2>1, <2>2, <2>3, <2>4, <3>3, <3>5, <3>6, <3>7 DEF AnnouncedInv
  <2>6. CASE ~windowCallback
    <3>1. Head(events).type # "window"
      <4>1. CASE Dropped
        <5>1. 1 \in DOMAIN events /\ Head(events) = events[1]
          BY <2>1, WireFacts
        <5>2. Head(events).type = "window" => Head(events).epoch = setups
          BY <5>1 DEF AnnouncedInv, AnnouncedOnce
        <5> QED
          BY <4>1, <5>2 DEF Dropped
      <4>2. CASE ~Dropped
        BY <1>3, <2>6, <4>2 DEF DispatchEvent, stateChangedCallback, parentWindowCallback,
           initialStateCallback, unmappedCallback, Dispatch, Takes
      <4> QED
        BY <4>1, <4>2
    <3>2. UNCHANGED timers
      BY <1>3, <2>6 DEF DispatchEvent, Dropped, stateChangedCallback, parentWindowCallback,
         initialStateCallback, unmappedCallback, clientVars
    <3> QED
      BY <2>1, <2>2, <2>3, <2>4, <3>1, <3>2, AnnouncedStays
  <2> QED
    BY <2>5, <2>6
<1>4. CASE TimerFires
  <2> DEFINE w == Head(timers)
             id == Len(obj) + 1
             new == [win |-> w, epoch |-> setups, phase |-> "mapped",
                     active |-> FALSE, parent |-> 0]
  <2>1. /\ timers # <<>> /\ timers' = Tail(timers) /\ obj' = Append(obj, new)
        /\ UNCHANGED <<serverVars, events, setups>>
    BY <1>4 DEF TimerFires, windowCreated
  <2>2. new.win = w
    OBVIOUS
  <2> HIDE DEF new
  <2>3. /\ Ids' = Ids \union {id} /\ id \notin Ids /\ obj'[id].win = w
        /\ \A n \in Ids : obj'[n] = obj[n]
    <3>1. obj \in Seq(Object)
      BY DEF Inv, TypeInv, TypeOK
    <3> QED
      BY <2>1, <2>2, <3>1 DEF Ids
  <2>4. \A v : HasObject(v)' <=> HasObject(v) \/ v = w
    BY <2>3 DEF HasObject
  <2> DEFINE rest == Tail(timers)
  <2>5. /\ 1 \in DOMAIN timers /\ w = timers[1]
        /\ \A k \in DOMAIN rest :
             k + 1 \in DOMAIN timers /\ rest[k] = timers[k + 1] /\ k + 1 # 1 /\ k \in Nat
        /\ \A k \in DOMAIN timers : k # 1 =>
             k - 1 \in DOMAIN rest /\ rest[k - 1] = timers[k] /\ k = (k - 1) + 1
    BY <2>1, WireFacts, TailIndices
  <2>6. \A j, k \in DOMAIN timers : timers[j] = timers[k] => j = k
    BY DEF AnnouncedInv, IsInjective
  <2>7. timers' = rest
    BY <2>1
  <2> HIDE DEF rest, w, id
  <2>8. w \in ToSet(timers) /\ ToSet(rest) = ToSet(timers) \ {w}
    BY <2>5, <2>6 DEF ToSet
  <2>9. IsInjective(rest)
    <3> SUFFICES ASSUME NEW j \in DOMAIN rest, NEW k \in DOMAIN rest, rest[j] = rest[k]
                 PROVE  j = k
      BY DEF IsInjective
    <3>1. j + 1 = k + 1
      BY <2>5, <2>6
    <3> QED
      BY <2>5, <3>1
  <2>10. UNCHANGED <<unborn, mapped, events, setups>>
    BY <2>1 DEF serverVars
  <2>11. AnnouncedOnce' /\ \A v : IsAnnounced(v)' <=> IsAnnounced(v)
    BY <2>10 DEF AnnouncedInv, AnnouncedOnce, IsAnnounced
  <2>12. w \notin unborn /\ ~HasObject(w) /\ w \in Windows
    <3>1. w \in Windows
      BY <2>5, WireFacts, Element
    <3> QED
      BY <2>8, <3>1 DEF AnnouncedInv
  <2>13. ~IsAnnounced(w)
    BY <2>8, <2>12 DEF AnnouncedInv
  <2>14. \A i, j \in Ids' : obj'[i].win \notin unborn /\ (obj'[i].win = obj'[j].win => i = j)
    <3>1. \A i, j \in Ids : obj[i].win \notin unborn /\ (obj[i].win = obj[j].win => i = j)
      BY DEF AnnouncedInv
    <3>2. \A i \in Ids : obj[i].win # w
      BY <2>12 DEF HasObject
    <3> QED
      BY <2>3, <2>12, <3>1, <3>2
  <2> QED
    BY <2>4, <2>7, <2>8, <2>9, <2>10, <2>11, <2>12, <2>13, <2>14 DEF AnnouncedInv
<1>5. CASE CreateModel \/ \E id \in Ids : DeleteLater(id)
  <2>1. UNCHANGED <<unborn, mapped, timers, events, setups>>
    BY <1>5 DEF CreateModel, DeleteLater, serverVars
  <2>2. DOMAIN obj' = DOMAIN obj /\ \A id \in Ids : obj'[id].win = obj[id].win
    BY <1>5, WindowsOfObjects DEF CreateModel
  <2>3. Ids' = Ids
    BY <2>2, SameIds
  <2>4. AnnouncedOnce' /\ \A v : IsAnnounced(v)' <=> IsAnnounced(v)
    BY <2>1 DEF AnnouncedInv, AnnouncedOnce, IsAnnounced
  <2> QED
    BY <2>1, <2>2, <2>3, <2>4, AnnouncedStays
<1> QED
  BY <1>1, <1>2, <1>3, <1>4, <1>5 DEF CompositorNext

-----------------------------------------------------------------------------
(* Requests, and what will bring a window into the model.                  *)

LEMMA AnswerFacts ==
  ASSUME ModelInv, ServeGetWindow, NEW r, r = Head(requests)
  PROVE  /\ r \in [id : Ids, win : Windows] /\ r.id \in Ids /\ r.win \in Windows
         /\ 1 \in DOMAIN requests /\ r = requests[1] /\ IsRequested(r.id)
         /\ \A id : IsRequested(id)' <=> IsRequested(id) /\ id # r.id
<1>1. /\ requests # <<>> /\ requests' = Tail(requests)
      /\ requests \in Seq([id : Ids, win : Windows])
  BY WireFacts DEF ServeGetWindow, ModelInv
<1> DEFINE rest == Tail(requests)
<1>2. /\ 1 \in DOMAIN requests /\ r = requests[1]
      /\ \A k \in DOMAIN rest :
           k + 1 \in DOMAIN requests /\ rest[k] = requests[k + 1] /\ k + 1 # 1 /\ k \in Nat
      /\ \A k \in DOMAIN requests : k # 1 =>
           k - 1 \in DOMAIN rest /\ rest[k - 1] = requests[k] /\ k = (k - 1) + 1
  BY <1>1, TailIndices
<1>3. r \in [id : Ids, win : Windows]
  BY <1>1, TailFacts
<1>4. requests' = rest
  BY <1>1
<1> HIDE DEF rest
<1>5. IsRequested(r.id)
  BY <1>2 DEF IsRequested
<1>6. \A k \in DOMAIN requests : k # 1 => requests[k].id # r.id
  <2> SUFFICES ASSUME NEW k \in DOMAIN requests, k # 1 PROVE requests[k].id # r.id
    OBVIOUS
  <2>1. k > 1 /\ k \in Nat
    BY <1>1
  <2>2. requests[k] \in [id : Ids, win : Windows]
    BY <1>1, Element
  <2>3. r.id < requests[k].id
    BY <1>2, <2>1 DEF ModelInv, AskedInv
  <2>4. Ids \subseteq Nat \ {0}
    BY WireFacts DEF ModelInv
  <2>5. r.id \in Nat
    BY <1>3, <2>4
  <2> QED
    BY <2>3, <2>5
<1>7. ASSUME NEW id
      PROVE  IsRequested(id)' <=> IsRequested(id) /\ id # r.id
  <2>1. IsRequested(id)' <=> \E k \in DOMAIN requests : k # 1 /\ requests[k].id = id
    <3>1. ASSUME NEW k \in DOMAIN requests, k # 1, requests[k].id = id
          PROVE  IsRequested(id)'
      <4> DEFINE m == k - 1
      <4>1. m \in DOMAIN rest /\ rest[m] = requests[k]
        BY <1>2, <3>1
      <4> HIDE DEF m
      <4> QED
        BY <1>4, <3>1, <4>1 DEF IsRequested
    <3>2. ASSUME IsRequested(id)'
          PROVE  \E k \in DOMAIN requests : k # 1 /\ requests[k].id = id
      BY <1>2, <1>4, <3>2 DEF IsRequested
    <3> QED
      BY <3>1, <3>2
  <2> QED
    BY <1>2, <1>6, <2>1 DEF IsRequested
<1> QED
  BY <1>2, <1>3, <1>5, <1>7

LEMMA BoundNext ==
  ASSUME ModelInv, Inv', BoundInv,
         \/ CompositorNext \/ DispatchEvent \/ TimerFires \/ CreateModel
         \/ \E id \in Ids : DeleteLater(id)
  PROVE  BoundInv'
<1>1. /\ Ids \subseteq Nat \ {0} /\ requests \in Seq([id : Ids, win : Windows]) /\ bound \subseteq Ids
      /\ Ids = 1 .. Len(obj) /\ Len(obj) \in Nat
  BY WireFacts DEF ModelInv
<1>2. \A k \in DOMAIN requests : requests[k].id \in Ids
  <2> SUFFICES ASSUME NEW k \in DOMAIN requests PROVE requests[k].id \in Ids
    OBVIOUS
  <2>1. requests[k] \in [id : Ids, win : Windows]
    BY <1>1, Element
  <2> QED
    BY <2>1
<1>3. CASE \/ CompositorNext /\ ~ServeGetWindow
           \/ DispatchEvent \/ CreateModel \/ \E id \in Ids : DeleteLater(id)
  <2>1. UNCHANGED <<bound, requests>>
    BY <1>3 DEF CompositorNext, MapWindow, UnmapWindow, Activate, Reparent,
       DispatchEvent, Dropped, windowCallback, stateChangedCallback, parentWindowCallback,
       initialStateCallback, unmappedCallback, CreateModel, DeleteLater, serverVars
  <2>2. DOMAIN obj' = DOMAIN obj /\ \A id \in Ids : obj'[id].win = obj[id].win
    <3>1. CASE CompositorNext \/ CreateModel
      BY <3>1 DEF CreateModel, CompositorNext, MapWindow, UnmapWindow, Activate,
         Reparent, ServeGetWindow, clientVars
    <3> QED
      BY <1>3, <3>1, WindowsOfObjects DEF ModelInv
  <2>3. Ids' = Ids
    BY <2>2, SameIds DEF ModelInv
  <2> QED
    BY <1>2, <2>1, <2>2, <2>3 DEF BoundInv, IsRequested
<1>4. CASE ServeGetWindow
  <2> DEFINE r == Head(requests)
  <2>1. /\ bound' = bound \union {r.id} /\ requests' = Tail(requests) /\ requests # <<>>
        /\ UNCHANGED obj
    BY <1>4 DEF ServeGetWindow, clientVars
  <2>2. /\ r.id \in Ids /\ IsRequested(r.id)
        /\ \A id : IsRequested(id)' <=> IsRequested(id) /\ id # r.id
    BY <1>4, AnswerFacts
  <2> HIDE DEF r
  <2>3. \A k \in DOMAIN requests' : k + 1 \in DOMAIN requests /\ requests'[k] = requests[k + 1]
    BY <1>1, <2>1, TailIndices
  <2>4. Ids' = Ids
    BY <2>1 DEF Ids
  <2> QED
    BY <2>1, <2>2, <2>3, <2>4 DEF BoundInv
<1>5. CASE TimerFires
  <2> DEFINE w == Head(timers)
             id == Len(obj) + 1
             new == [win |-> w, epoch |-> setups, phase |-> "mapped",
                     active |-> FALSE, parent |-> 0]
             r == [id |-> id, win |-> w]
  <2>1. /\ obj' = Append(obj, new) /\ requests' = Append(requests, r) /\ UNCHANGED bound
    BY <1>5 DEF TimerFires, windowCreated, serverVars
  <2>2. new.win = w /\ r.id = id /\ r.win = w
    OBVIOUS
  <2> HIDE DEF new, r
  <2>3. /\ Ids' = Ids \union {id} /\ id \notin Ids /\ obj'[id].win = w
        /\ \A n \in Ids : obj'[n] = obj[n]
    <3>1. obj \in Seq(Object)
      BY DEF ModelInv, Inv, TypeInv, TypeOK
    <3> QED
      BY <2>1, <2>2, <3>1 DEF Ids
  <2>4. /\ DOMAIN requests' = DOMAIN requests \union {Len(requests) + 1}
        /\ Len(requests) + 1 \notin DOMAIN requests
        /\ \A k \in DOMAIN requests : requests'[k] = requests[k]
        /\ requests'[Len(requests) + 1] = r
    BY <1>1, <2>1
  <2> HIDE DEF id, w
  <2>5. \A n : IsRequested(n)' <=> IsRequested(n) \/ n = id
    BY <2>2, <2>4 DEF IsRequested
  <2> QED
    <3>1. \A n \in Ids' : n \in bound' <=> ~IsRequested(n)'
      BY <1>1, <2>1, <2>3, <2>5 DEF BoundInv
    <3>2. \A k \in DOMAIN requests' : requests'[k].win = obj'[requests'[k].id].win
      <4>1. \A k \in DOMAIN requests : requests[k].win = obj'[requests[k].id].win
        BY <1>2, <2>3 DEF BoundInv
      <4> QED
        BY <2>2, <2>3, <2>4, <4>1
    <3> QED
      BY <3>1, <3>2 DEF BoundInv
<1> QED
  BY <1>3, <1>4, <1>5

LEMMA ComingNext ==
  ASSUME ModelInv, Inv', AnnouncedInv, ComingInv,
         \/ CompositorNext \/ DispatchEvent \/ TimerFires \/ CreateModel
         \/ \E id \in Ids : DeleteLater(id)
  PROVE  ComingInv'
<1>1. /\ events \in Seq(EventsAbout(Ids)) /\ windows \in Seq(Ids) /\ model \in Seq(Ids)
      /\ ToSet(windows) = {id \in Ids : obj[id].phase = "mapped"}
  BY WireFacts DEF ModelInv, Inv, WindowsConsistent, WindowsAreMapped
<1>2. CASE CreateModel
  BY <1>2 DEF CreateModel, ComingInv
<1>3. CASE \E id \in Ids : DeleteLater(id)
  <2>1. UNCHANGED <<modelUp, model, windows, events, requests>>
    BY <1>3 DEF DeleteLater
  <2> QED
    BY <2>1 DEF ComingInv, IsPending, IsRequested
<1>4. CASE TimerFires
  <2> DEFINE id == Len(obj) + 1
             r == [id |-> id, win |-> Head(timers)]
  <2>1. /\ windows' = Append(windows, id) /\ requests' = Append(requests, r)
        /\ UNCHANGED <<modelUp, model, events>>
    BY <1>4 DEF TimerFires, windowCreated
  <2>2. r.id = id
    OBVIOUS
  <2> HIDE DEF r, id
  <2>3. /\ DOMAIN requests' = DOMAIN requests \union {Len(requests) + 1}
        /\ \A k \in DOMAIN requests : requests'[k] = requests[k]
        /\ requests'[Len(requests) + 1] = r
    <3>1. requests \in Seq([id : Ids, win : Windows])
      BY WireFacts DEF ModelInv
    <3> QED
      BY <2>1, <3>1
  <2>4. \A n : IsRequested(n)' <=> IsRequested(n) \/ n = id
    BY <2>2, <2>3 DEF IsRequested
  <2>5. ToSet(windows') = ToSet(windows) \union {id}
    <3>1. /\ DOMAIN windows' = DOMAIN windows \union {Len(windows) + 1}
          /\ \A k \in DOMAIN windows : windows'[k] = windows[k]
          /\ windows'[Len(windows) + 1] = id
      BY <1>1, <2>1
    <3> QED
      BY <3>1 DEF ToSet
  <2> QED
    BY <2>1, <2>4, <2>5 DEF ComingInv, IsPending
<1>5. CASE CompositorNext
  <2>1. UNCHANGED <<modelUp, model, windows>>
    BY <1>5 DEF CompositorNext, MapWindow, UnmapWindow, Activate, Reparent, ServeGetWindow, clientVars
  <2>2. CASE ~ServeGetWindow
    <3>1. UNCHANGED requests
      BY <1>5, <2>2 DEF CompositorNext, MapWindow, UnmapWindow, Activate, Reparent
    <3>2. \A t, id : IsPending(t, id) => IsPending(t, id)'
      <4>1. CASE \E w \in Windows : MapWindow(w)
        <5>1. PICK e : events' = events \/ events' = Append(events, e)
          BY <4>1 DEF MapWindow
        <5>2. \A k \in DOMAIN events : k \in DOMAIN events' /\ events'[k] = events[k]
          BY <1>1, <5>1
        <5> QED
          BY <5>2 DEF IsPending
      <4>2. CASE ~\E w \in Windows : MapWindow(w)
        <5>1. PICK news \in Seq(EventsAbout(Ids)) :
                   events' = events \o news /\ \A k \in DOMAIN news : news[k].type # "window"
          BY <1>5, <4>2, CompositorSays DEF CompositorNext, ModelInv
        <5>2. UNCHANGED setups
          BY <1>5, <2>2 DEF CompositorNext, MapWindow, UnmapWindow, Activate, Reparent, clientVars
        <5> QED
          BY <1>1, <5>1, <5>2, OtherNews DEF AnnouncedInv
      <4> QED
        BY <4>1, <4>2
    <3> QED
      BY <2>1, <3>1, <3>2 DEF ComingInv, IsRequested
  <2>3. CASE ServeGetWindow
    <3>1. PICK q \in Ids : q = Head(requests).id
      BY <2>3, AnswerFacts
    <3>2. \A id : IsRequested(id)' <=> IsRequested(id) /\ id # q
      BY <2>3, <3>1, AnswerFacts
    <3> DEFINE b == Initial(q)
               c == Unmapped(q)
               n == Len(events)
    <3>3. /\ b.type = "initial" /\ b.id = q /\ c.type = "unmapped" /\ c.id = q
      BY DEF Initial, Unmapped
    <3>4. (\E a : events' = events \o <<a, b>>) \/ events' = events \o <<c>>
      BY <2>3, <3>1 DEF ServeGetWindow
    <3> HIDE DEF b, c
    <3>5. /\ \A t, id : IsPending(t, id) => IsPending(t, id)'
          /\ IsPending("initial", q)' \/ IsPending("unmapped", q)'
      <4>1. CASE events' = events \o <<c>>
        <5>1. /\ DOMAIN events = 1 .. n /\ n \in Nat
              /\ DOMAIN (events \o <<c>>) = 1 .. n + 1
              /\ \A k \in 1 .. n : (events \o <<c>>)[k] = events[k]
              /\ (events \o <<c>>)[n + 1] = c
          BY <1>1
        <5> HIDE DEF n
        <5>2. \A k \in DOMAIN events : k \in DOMAIN events' /\ events'[k] = events[k]
          BY <4>1, <5>1
        <5>3. n + 1 \in DOMAIN events' /\ events'[n + 1] = c
          BY <4>1, <5>1
        <5> QED
          BY <3>3, <5>2, <5>3 DEF IsPending
      <4>2. ASSUME NEW a, events' = events \o <<a, b>>
            PROVE  /\ \A t, id : IsPending(t, id) => IsPending(t, id)'
                   /\ IsPending("initial", q)' \/ IsPending("unmapped", q)'
        <5>1. /\ DOMAIN events = 1 .. n /\ n \in Nat
              /\ DOMAIN (events \o <<a, b>>) = 1 .. n + 2
              /\ \A k \in 1 .. n : (events \o <<a, b>>)[k] = events[k]
              /\ (events \o <<a, b>>)[n + 2] = b
          BY <1>1
        <5> HIDE DEF n
        <5>2. \A k \in DOMAIN events : k \in DOMAIN events' /\ events'[k] = events[k]
          BY <4>2, <5>1
        <5>3. n + 2 \in DOMAIN events' /\ events'[n + 2] = b
          BY <4>2, <5>1
        <5> QED
          BY <3>3, <5>2, <5>3 DEF IsPending
      <4> QED
        BY <3>4, <4>1, <4>2
    <3> QED
      BY <2>1, <3>2, <3>5 DEF ComingInv
  <2> QED
    BY <2>2, <2>3
<1>6. CASE DispatchEvent
  <2> DEFINE e == Head(events)
  <2>1. events # <<>> /\ events' = Tail(events) /\ UNCHANGED <<requests, modelUp>>
    BY <1>6 DEF DispatchEvent, Dropped, windowCallback, stateChangedCallback, parentWindowCallback,
       initialStateCallback, unmappedCallback, Dispatch, Takes, clientVars
  <2>2. \A t, id : ~(e.type = t /\ e.id = id) => (IsPending(t, id)' <=> IsPending(t, id))
    BY <2>1, TakingEvent DEF ModelInv
  <2>3. \A id : IsRequested(id)' <=> IsRequested(id)
    BY <2>1 DEF IsRequested
  <2>4. CASE stateChangedCallback \/ parentWindowCallback \/ windowCallback
    <3>1. UNCHANGED <<windows, model>> /\ e.type # "initial" /\ e.type # "unmapped"
      BY <2>4 DEF stateChangedCallback, parentWindowCallback, windowCallback, Dispatch, Takes
    <3> QED
      BY <2>1, <2>2, <2>3, <3>1 DEF ComingInv
  <2>5. CASE initialStateCallback
    <3>1. /\ UNCHANGED windows /\ e.type = "initial"
          /\ model' = IF modelUp /\ obj[e.id].phase = "mapped" /\ e.id \notin ToSet(model)
                        THEN Append(model, e.id) ELSE model
      BY <2>5 DEF initialStateCallback, Dispatch, Takes
    <3>2. e.id \in Ids
      BY <2>5, NextEvent DEF initialStateCallback, Dispatch, ModelInv, Inv, TypeInv
    <3> HIDE DEF e
    <3>3. ToSet(model) \subseteq ToSet(model')
      <4>1. \A k \in DOMAIN model : k \in DOMAIN model' /\ model'[k] = model[k]
        BY <1>1, <3>1, <3>2
      <4> QED
        BY <4>1 DEF ToSet
    <3>4. modelUp /\ e.id \in ToSet(windows) => e.id \in ToSet(model')
      <4>1. CASE model' = Append(model, e.id)
        <5>1. Len(model) + 1 \in DOMAIN model' /\ model'[Len(model) + 1] = e.id
          BY <1>1, <3>2, <4>1
        <5> QED
          BY <5>1 DEF ToSet
      <4> QED
        BY <1>1, <3>1, <4>1
    <3> QED
      BY <2>1, <2>2, <2>3, <3>1, <3>3, <3>4 DEF ComingInv
  <2>6. CASE unmappedCallback
    <3>1. /\ windows' = Without(windows, e.id) /\ model' = Without(model, e.id)
      BY <2>6 DEF unmappedCallback, LeavesList, RowsWithout
    <3>2. Ids \in SUBSET Nat
      BY WireFacts DEF ModelInv
    <3>3. /\ ToSet(windows') = ToSet(windows) \ {e.id}
          /\ ToSet(model') = ToSet(model) \ {e.id}
      BY <1>1, <3>1, <3>2, AscendingWithout DEF ModelInv, RowsInv
    <3> QED
      BY <2>1, <2>2, <2>3, <3>3 DEF ComingInv
  <2>7. CASE Dropped
    <3>1. UNCHANGED <<windows, model>> /\ (e.type # "window" => ~Alive(e.id))
      BY <2>7 DEF Dropped, clientVars
    <3>2. e.type # "window" => e.id \notin ToSet(windows)
      BY <1>1, <3>1 DEF Alive
    <3> QED
      BY <2>1, <2>2, <2>3, <3>1, <3>2 DEF ComingInv
  <2> QED
    BY <1>6, <2>4, <2>5, <2>6, <2>7 DEF DispatchEvent
<1> QED
  BY <1>2, <1>3, <1>4, <1>5, <1>6

-----------------------------------------------------------------------------
(* The two views.                                                          *)

LEMMA FocusOfFacts ==
  FocusOf({}) = 0 /\ \A id : FocusOf({id}) = id
BY DEF FocusOf

LEMMA MoveTo ==
  ASSUME NEW s \in Views, NEW e \in EventsAbout(Nat \ {0}), MayMeet(s, e),
         e.type # "window" => e.id \notin s.gone
  PROVE  Moves(s, e) \in Views /\ <<s, e, Moves(s, e)>> \in Moving
<1>1. /\ s.active \in SUBSET (Nat \ {0}) /\ s.gone \in SUBSET (Nat \ {0}) /\ s.window \in Nat
  BY DEF Views
<1>2. e.type \in {"state", "unmapped"} => e.id \in Nat \ {0}
  BY DEF EventsAbout
<1>3. Moves(s, e) \in Views
  <2>1. CASE e.type = "state"
    BY <1>1, <1>2, <2>1 DEF Moves, Views, Won, Lost
  <2>2. CASE e.type = "unmapped"
    BY <1>1, <1>2, <2>2 DEF Moves, Views, Lost
  <2>3. CASE e.type \notin {"state", "unmapped"}
    BY <2>3 DEF Moves
  <2> QED
    BY <2>1, <2>2, <2>3
<1> QED
  BY <1>3, MovingFacts

\* The objects the compositor has to tell about a window: one at most.
LEMMA WatchingOne ==
  ASSUME Inv, AnnouncedInv, NEW w
  PROVE  /\ Watching(w) = {} \/ \E id \in bound : Watching(w) = {id}
         /\ \A id : Watching(w) = {id} => id \in bound /\ id \in Ids /\ id # 0 /\ obj[id].win = w
<1>1. bound \subseteq Ids /\ 0 \notin Ids
  BY WireFacts
<1>2. \A i, j \in bound : obj[i].win = obj[j].win => i = j
  BY <1>1 DEF AnnouncedInv
<1> QED
  BY <1>1, <1>2 DEF Watching

LEMMA ServerFacts ==
  ASSUME Inv, AnnouncedInv
  PROVE  /\ ServerView \in Views /\ OneActive(ServerView)
         /\ ServerView.active = Focused /\ ServerView.gone = Gone
         /\ ServerView.window = FocusOf(Focused)
         /\ Focused = Watching(focus)
         /\ Focused = {} => ServerView.window = 0
         /\ \A id : Focused = {id} => ServerView.window = id
<1>1. /\ ServerView.active = Focused /\ ServerView.gone = Gone
      /\ ServerView.window = FocusOf(Focused)
      /\ Focused = Watching(focus)
  BY DEF ServerView, Focused, Watching
<1>2. /\ Focused = {} => ServerView.window = 0
      /\ \A id : Focused = {id} => ServerView.window = id
  BY <1>1, FocusOfFacts
<1>3. Focused \subseteq Nat \ {0} /\ Gone \subseteq Nat \ {0}
  BY WireFacts DEF Focused, Gone
<1>4. CASE Focused = {}
  BY <1>1, <1>2, <1>3, <1>4 DEF Views, OneActive, ServerView
<1>5. ASSUME NEW id, Focused = {id}
      PROVE  ServerView \in Views /\ OneActive(ServerView)
  BY <1>1, <1>2, <1>3, <1>5 DEF Views, OneActive, ServerView
<1>6. Focused = {} \/ \E id : Focused = {id}
  BY <1>1, WatchingOne
<1> QED
  BY <1>1, <1>2, <1>4, <1>5, <1>6

\* What the compositor says of the objects of a window.
LEMMA StatesFacts ==
  ASSUME Inv, NEW w, NEW set \in BOOLEAN, NEW news \in States(w, set)
  PROVE  /\ news \in Seq(EventsAbout(Ids))
         /\ Watching(w) = {} => DOMAIN news = {}
         /\ \A id : Watching(w) = {id} => DOMAIN news = {1} /\ news[1] = StateEvent(id, set)
<1>1. PICK ids \in SetToSeqs(Watching(w)) : news = [n \in DOMAIN ids |-> StateEvent(ids[n], set)]
  BY DEF States
<1>2. /\ Watching(w) = {} => DOMAIN ids = {}
      /\ \A id : Watching(w) = {id} => DOMAIN ids = {1} /\ ids[1] = id
  BY OneOrder
<1>3. news \in Seq(EventsAbout(Ids))
  BY NewsTypes DEF Inv, TypeInv
<1> QED
  BY <1>1, <1>2, <1>3

LEMMA UnmappingsFacts ==
  ASSUME Inv, NEW w, NEW news \in Unmappings(w)
  PROVE  /\ news \in Seq(EventsAbout(Ids))
         /\ Watching(w) = {} => DOMAIN news = {}
         /\ \A id : Watching(w) = {id} => DOMAIN news = {1} /\ news[1] = Unmapped(id)
<1>1. PICK ids \in SetToSeqs(Watching(w)) : news = [n \in DOMAIN ids |-> Unmapped(ids[n])]
  BY DEF Unmappings
<1>2. /\ Watching(w) = {} => DOMAIN ids = {}
      /\ \A id : Watching(w) = {id} => DOMAIN ids = {1} /\ ids[1] = id
  BY OneOrder
<1>3. news \in Seq(EventsAbout(Ids))
  BY NewsTypes DEF Inv, TypeInv
<1> QED
  BY <1>1, <1>2, <1>3

\* A side that says nothing, one thing or two.
LEMMA MovingStays == Moving' = Moving /\ Views' = Views
BY DEF Moving, Views

LEMMA SayNothing ==
  ASSUME ViewInv, ClientView' = ClientView, events' = events, ServerView' = ServerView
  PROVE  ViewInv'
BY MovingStays DEF ViewInv

LEMMA SayOne ==
  ASSUME Inv, AnnouncedInv, ViewInv, ClientView' = ClientView,
         NEW e \in EventsAbout(Nat \ {0}), events' = Append(events, e),
         e.type # "window" => e.id \notin Gone,
         ServerView' = Moves(ServerView, e)
  PROVE  ViewInv'
<1>1. ServerView \in Views /\ OneActive(ServerView) /\ ServerView.gone = Gone
  BY ServerFacts
<1>2. MayMeet(ServerView, e)
  BY <1>1 DEF MayMeet
<1>3. ServerView' \in Views /\ <<ServerView, e, ServerView'>> \in Moving
  BY <1>1, <1>2, MoveTo
<1>4. events \in Seq(EventsAbout(Nat \ {0}))
  BY WireFacts
<1>5. Leads(Views, Moving, ClientView, Append(events, e), ServerView')
  BY <1>3, <1>4, LeadsOn DEF ViewInv
<1> QED
  BY <1>5, MovingStays DEF ViewInv

LEMMA SayTwo ==
  ASSUME Inv, AnnouncedInv, ViewInv, ClientView' = ClientView,
         NEW a \in EventsAbout(Nat \ {0}), NEW b \in EventsAbout(Nat \ {0}),
         events' = Append(Append(events, a), b),
         a.type # "window" => a.id \notin Gone,
         NEW s, s = Moves(ServerView, a), MayMeet(s, b),
         b.type # "window" => b.id \notin s.gone,
         ServerView' = Moves(s, b)
  PROVE  ViewInv'
<1>1. ServerView \in Views /\ OneActive(ServerView) /\ ServerView.gone = Gone
  BY ServerFacts
<1>2. MayMeet(ServerView, a)
  BY <1>1 DEF MayMeet
<1>3. s \in Views /\ <<ServerView, a, s>> \in Moving
  BY <1>1, <1>2, MoveTo
<1>4. ServerView' \in Views /\ <<s, b, ServerView'>> \in Moving
  BY <1>3, MoveTo
<1>5. events \in Seq(EventsAbout(Nat \ {0})) /\ Append(events, a) \in Seq(EventsAbout(Nat \ {0}))
  BY WireFacts, AppendFacts
<1>6. Leads(Views, Moving, ClientView, Append(events, a), s)
  BY <1>3, <1>5, LeadsOn DEF ViewInv
<1>7. Leads(Views, Moving, ClientView, Append(Append(events, a), b), ServerView')
  BY <1>4, <1>5, <1>6, LeadsOn
<1> QED
  BY <1>7, MovingStays DEF ViewInv

\* The next event is about a window that the client does not know to be gone.
LEMMA NextMove ==
  ASSUME Inv, ViewInv, events # <<>>
  PROVE  /\ MayMeet(ClientView, Head(events))
         /\ Head(events).type # "window" => Head(events).id \notin ClientView.gone
         /\ ClientView \in Views /\ Moves(ClientView, Head(events)) \in Views
         /\ Leads(Views, Moving, Moves(ClientView, Head(events)), Tail(events), ServerView)
<1>1. events \in Seq(EventsAbout(Nat \ {0}))
  BY WireFacts
<1>2. PICK r \in Views : /\ <<ClientView, Head(events), r>> \in Moving
                         /\ Leads(Views, Moving, r, Tail(events), ServerView)
  BY <1>1, LeadsFrom DEF ViewInv
<1> QED
  BY <1>2, MovingFacts

LEMMA ServerMoves ==
  ASSUME ModelInv, Inv', AnnouncedInv, AnnouncedInv', BoundInv, ViewInv, wm = "bound",
         CompositorNext
  PROVE  ViewInv'
<1> USE DEF ModelInv
<1>1. UNCHANGED clientVars /\ UNCHANGED obj
  BY DEF CompositorNext, MapWindow, UnmapWindow, Activate, Reparent, ServeGetWindow, clientVars
<1>2. ClientView' = ClientView
  BY <1>1 DEF ClientView, Ids, clientVars
<1>3. /\ Ids \subseteq Nat \ {0} /\ bound \subseteq Ids /\ events \in Seq(EventsAbout(Ids))
      /\ focus \in mapped \union {NoWindow} /\ NoWindow \notin Windows
      /\ mapped \subseteq Windows \ unborn
      /\ \A id \in Ids : obj[id].win \in Windows /\ obj[id].win \notin unborn
      /\ \A i, j \in bound : obj[i].win = obj[j].win => i = j
  BY WireFacts DEF AnnouncedInv
<1>4. /\ ServerView \in Views /\ OneActive(ServerView)
      /\ ServerView.active = Focused /\ ServerView.gone = Gone
      /\ ServerView.window = FocusOf(Focused)
      /\ Focused = Watching(focus)
      /\ Focused = {} => ServerView.window = 0
      /\ \A id : Focused = {id} => ServerView.window = id
  BY ServerFacts
<1>5. ServerView' = [active |-> Focused', window |-> FocusOf(Focused'), gone |-> Gone']
  BY DEF ServerView
<1>6. EventsAbout(Ids) \subseteq EventsAbout(Nat \ {0})
  BY <1>3, EventsGrow
<1>7. Focused' = Focused /\ Gone' = Gone => ServerView' = ServerView
  BY <1>5 DEF ServerView
<1>8. ASSUME NEW w \in Windows, MapWindow(w)
      PROVE  ViewInv'
  <2> DEFINE e == Announce(w, setups)
  <2>1. /\ w \in unborn /\ mapped' = mapped \union {w} /\ UNCHANGED <<bound, focus>>
        /\ events' = Append(events, e)
    BY <1>8 DEF MapWindow
  <2>2. e \in EventsAbout(Nat \ {0}) /\ e.type = "window"
    <3>1. setups \in Nat
      BY WindowsAssumption DEF Inv, TypeInv, TypeOK
    <3> QED
      BY <3>1, EventTypes DEF Announce
  <2> HIDE DEF e
  <2>3. Focused' = Focused /\ Gone' = Gone
    BY <1>1, <1>3, <2>1 DEF Focused, Gone
  <2>4. Moves(ServerView, e) = ServerView
    BY <2>2 DEF Moves
  <2> QED
    BY <1>2, <1>7, <2>1, <2>2, <2>3, <2>4, SayOne
<1>9. ASSUME NEW w \in Windows, UnmapWindow(w)
      PROVE  ViewInv'
  <2>1. PICK news \in Unmappings(w) : events' = events \o news
    BY <1>9 DEF UnmapWindow
  <2>2. /\ w \in mapped /\ mapped' = mapped \ {w} /\ UNCHANGED bound
        /\ focus' = IF focus = w THEN NoWindow ELSE focus
    BY <1>9 DEF UnmapWindow
  <2>3. /\ news \in Seq(EventsAbout(Ids))
        /\ Watching(w) = {} => DOMAIN news = {}
        /\ \A id : Watching(w) = {id} => DOMAIN news = {1} /\ news[1] = Unmapped(id)
    BY UnmappingsFacts
  <2>4. /\ Focused' = IF focus = w THEN {} ELSE Focused
        /\ Gone' = Gone \union Watching(w)
    BY <1>1, <1>3, <2>2 DEF Focused, Gone, Watching
  <2>5. CASE Watching(w) = {}
    <3>1. events' = events
      BY <1>3, <2>1, <2>3, <2>5, ConcatNone
    <3>2. Focused' = Focused /\ Gone' = Gone
      BY <1>4, <2>4, <2>5
    <3> QED
      BY <1>2, <1>7, <3>1, <3>2, SayNothing
  <2>6. ASSUME NEW id \in bound, Watching(w) = {id}
        PROVE  ViewInv'
    <3> DEFINE e == Unmapped(id)
    <3>1. events' = Append(events, e)
      BY <1>3, <2>1, <2>3, <2>6, ConcatOne
    <3>2. e \in EventsAbout(Nat \ {0}) /\ e.type = "unmapped" /\ e.id = id
      BY <1>3, <1>6, EventTypes DEF Unmapped
    <3> HIDE DEF e
    <3>3. obj[id].win = w
      BY <2>6 DEF Watching
    <3>4. id \notin Gone
      BY <2>2, <3>3 DEF Gone
    <3>5. Moves(ServerView, e) =
            [active |-> Focused \ {id},
             window |-> IF ServerView.window = id THEN 0 ELSE ServerView.window,
             gone |-> Gone \union {id}]
      BY <1>4, <3>2 DEF Moves, Lost
    <3>6. CASE focus = w
      <4>1. Focused = {id} /\ Focused' = {} /\ FocusOf(Focused') = 0
        BY <1>4, <2>4, <2>6, <3>6, FocusOfFacts
      <4>2. ServerView' = Moves(ServerView, e)
        BY <1>4, <1>5, <2>4, <2>6, <3>5, <4>1
      <4> QED
        BY <1>2, <3>1, <3>2, <3>4, <4>2, SayOne
    <3>7. CASE focus # w
      <4>1. id \notin Focused /\ Focused' = Focused
        BY <2>4, <3>3, <3>7 DEF Focused
      <4>2. ServerView.window # id
        <5>1. Focused = {} \/ \E n \in bound : Focused = {n}
          BY <1>4, WatchingOne
        <5>2. id # 0
          BY <1>3
        <5> QED
          BY <1>4, <4>1, <5>1, <5>2
      <4>3. ServerView' = Moves(ServerView, e)
        BY <1>4, <1>5, <2>4, <2>6, <3>5, <4>1, <4>2
      <4> QED
        BY <1>2, <3>1, <3>2, <3>4, <4>3, SayOne
    <3> QED
      BY <3>6, <3>7
  <2> QED
    BY <2>5, <2>6, WatchingOne
<1>10. ASSUME NEW w \in mapped \union {NoWindow}, Activate(w)
       PROVE  ViewInv'
  <2>1. PICK lost \in States(focus, FALSE), won \in States(w, TRUE) :
             events' = events \o lost \o won \/ events' = events \o won \o lost
    BY <1>10 DEF Activate
  <2>2. w # focus /\ focus' = w /\ UNCHANGED <<bound, mapped>>
    BY <1>10 DEF Activate
  <2>3. /\ lost \in Seq(EventsAbout(Ids)) /\ won \in Seq(EventsAbout(Ids))
        /\ Watching(focus) = {} => DOMAIN lost = {}
        /\ \A id : Watching(focus) = {id} => DOMAIN lost = {1} /\ lost[1] = StateEvent(id, FALSE)
        /\ Watching(w) = {} => DOMAIN won = {}
        /\ \A id : Watching(w) = {id} => DOMAIN won = {1} /\ won[1] = StateEvent(id, TRUE)
    BY StatesFacts
  <2>4. Focused' = Watching(w) /\ Gone' = Gone
    BY <1>1, <2>2 DEF Focused, Gone, Watching
  <2>5. \A id : Watching(w) = {id} \/ Focused = {id} =>
          id \in bound /\ id # 0 /\ id \notin Gone
    <3> SUFFICES ASSUME NEW id, Watching(w) = {id} \/ Watching(focus) = {id}
                 PROVE  id \in bound /\ id # 0 /\ id \notin Gone
      BY <1>4
    <3>1. id \in bound /\ obj[id].win \in {w, focus}
      BY DEF Watching
    <3>2. id \in Ids
      BY <1>3, <3>1
    <3>3. obj[id].win \in mapped
      BY <1>3, <3>1, <3>2
    <3> QED
      BY <1>3, <3>1, <3>2, <3>3 DEF Gone
  <2>6. \A s \in Views : \A id : Moves(s, StateEvent(id, TRUE)) = Won(s, id)
    BY DEF Moves, StateEvent
  <2>7. \A s \in Views : \A id : Moves(s, StateEvent(id, FALSE)) = Lost(s, id, s.gone)
    BY DEF Moves, StateEvent
  <2>8. events \o lost \in Seq(EventsAbout(Ids)) /\ events \o won \in Seq(EventsAbout(Ids))
    BY <1>3, <2>3, ConcatType
  <2>9. CASE Watching(w) = {} /\ Focused = {}
    <3>1. events' = events
      BY <1>3, <1>4, <2>1, <2>3, <2>8, <2>9, ConcatNone
    <3>2. ServerView' = ServerView
      BY <1>7, <2>4, <2>9
    <3> QED
      BY <1>2, <3>1, <3>2, SayNothing
  <2>10. ASSUME NEW a, Focused = {a}, Watching(w) = {}
         PROVE  ViewInv'
    <3> DEFINE e == StateEvent(a, FALSE)
    <3>1. events' = Append(events, e)
      <4>1. events \o lost = Append(events, e) /\ events \o won = events
        <5>1. DOMAIN lost = {1} /\ lost[1] = e /\ DOMAIN won = {}
          BY <1>4, <2>3, <2>10
        <5>2. events \o lost = Append(events, lost[1])
          BY <1>3, <2>3, <5>1, ConcatOne
        <5>3. events \o won = events
          BY <1>3, <2>3, <5>1, ConcatNone
        <5> QED
          BY <5>1, <5>2, <5>3
      <4>2. (events \o lost) \o won = events \o lost
        BY <2>3, <2>8, <2>10, ConcatNone
      <4> QED
        BY <2>1, <4>1, <4>2
    <3>2. e \in EventsAbout(Nat \ {0}) /\ e.id = a
      BY <1>3, <1>6, <2>5, <2>10, EventTypes DEF StateEvent
    <3>3. ServerView' = Moves(ServerView, e)
      <4>1. Moves(ServerView, e) = Lost(ServerView, a, Gone)
        BY <1>4, <2>7
      <4>2. FocusOf(Focused') = 0
        BY <2>4, <2>10, FocusOfFacts
      <4> QED
        BY <1>4, <1>5, <2>4, <2>10, <4>1, <4>2 DEF Lost
    <3> HIDE DEF e
    <3> QED
      BY <1>2, <2>5, <2>10, <3>1, <3>2, <3>3, SayOne
  <2>11. ASSUME NEW b, Focused = {}, Watching(w) = {b}
         PROVE  ViewInv'
    <3> DEFINE e == StateEvent(b, TRUE)
    <3>1. events' = Append(events, e)
      <4>1. events \o won = Append(events, e) /\ events \o lost = events
        <5>1. DOMAIN won = {1} /\ won[1] = e /\ DOMAIN lost = {}
          BY <1>4, <2>3, <2>11
        <5>2. events \o won = Append(events, won[1])
          BY <1>3, <2>3, <5>1, ConcatOne
        <5>3. events \o lost = events
          BY <1>3, <2>3, <5>1, ConcatNone
        <5> QED
          BY <5>1, <5>2, <5>3
      <4>2. (events \o won) \o lost = events \o won
        BY <1>4, <2>3, <2>8, <2>11, ConcatNone
      <4> QED
        BY <2>1, <4>1, <4>2
    <3>2. e \in EventsAbout(Nat \ {0}) /\ e.id = b
      BY <1>3, <1>6, <2>5, <2>11, EventTypes DEF StateEvent
    <3>3. ServerView' = Moves(ServerView, e)
      <4>1. Moves(ServerView, e) = Won(ServerView, b)
        BY <1>4, <2>6
      <4>2. FocusOf(Focused') = b
        BY <2>4, <2>11, FocusOfFacts
      <4> QED
        BY <1>4, <1>5, <2>4, <2>11, <4>1, <4>2 DEF Won
    <3> HIDE DEF e
    <3> QED
      BY <1>2, <2>5, <2>11, <3>1, <3>2, <3>3, SayOne
  <2>12. ASSUME NEW a, NEW b, Focused = {a}, Watching(w) = {b}
         PROVE  ViewInv'
    <3> DEFINE e == StateEvent(a, FALSE)
               f == StateEvent(b, TRUE)
    <3>1. events' = Append(Append(events, e), f) \/ events' = Append(Append(events, f), e)
      <4>1. DOMAIN lost = {1} /\ lost[1] = e /\ DOMAIN won = {1} /\ won[1] = f
        BY <1>4, <2>3, <2>12
      <4>2. events \o lost = Append(events, e) /\ events \o won = Append(events, f)
        <5>1. events \o lost = Append(events, lost[1])
          BY <1>3, <2>3, <4>1, ConcatOne
        <5>2. events \o won = Append(events, won[1])
          BY <1>3, <2>3, <4>1, ConcatOne
        <5> QED
          BY <4>1, <5>1, <5>2
      <4>3. /\ (events \o lost) \o won = Append(events \o lost, f)
            /\ (events \o won) \o lost = Append(events \o won, e)
        BY <2>3, <2>8, <4>1, ConcatOne
      <4> QED
        BY <2>1, <4>2, <4>3
    <3>2. /\ e \in EventsAbout(Nat \ {0}) /\ e.id = a /\ e.type = "state" /\ ~e.set
          /\ f \in EventsAbout(Nat \ {0}) /\ f.id = b /\ f.type = "state" /\ f.set
      BY <1>3, <1>6, <2>5, <2>12, EventTypes DEF StateEvent
    <3>3. a # b
      BY <1>4, <2>2, <2>12 DEF Watching
    <3>4. /\ ServerView.active = {a} /\ ServerView.window = a /\ ServerView.gone = Gone
          /\ ServerView' = [active |-> {b}, window |-> b, gone |-> Gone]
      BY <1>4, <1>5, <2>4, <2>12, FocusOfFacts
    <3> HIDE DEF e, f
    <3>5. /\ a # 0 /\ b # 0 /\ a \notin Gone /\ b \notin Gone
      BY <2>5, <2>12
    <3>6. CASE events' = Append(Append(events, e), f)
      <4> DEFINE s == Moves(ServerView, e)
      <4>1. s = [active |-> {}, window |-> 0, gone |-> Gone]
        BY <3>2, <3>4 DEF Moves, Lost
      <4> HIDE DEF s
      <4>2. MayMeet(s, f)
        BY <4>1 DEF MayMeet, OneActive
      <4>3. s.gone = Gone
        BY <4>1
      <4>4. Moves(s, f) = [active |-> {b}, window |-> b, gone |-> Gone]
        BY <3>2, <4>1 DEF Moves, Won
      <4> QED
        BY <1>2, <3>2, <3>4, <3>5, <3>6, <4>2, <4>3, <4>4, SayTwo DEF s
    <3>7. CASE events' = Append(Append(events, f), e)
      <4> DEFINE s == Moves(ServerView, f)
      <4>1. s = [active |-> {a, b}, window |-> b, gone |-> Gone]
        BY <3>2, <3>3, <3>4 DEF Moves, Won
      <4> HIDE DEF s
      <4>2. MayMeet(s, e)
        <5>1. s.active = {s.window, e.id} /\ s.window # e.id
          BY <3>2, <3>3, <4>1
        <5> QED
          BY <3>2, <5>1 DEF MayMeet
      <4>3. s.gone = Gone
        BY <4>1
      <4>4. Moves(s, e) = [active |-> {b}, window |-> b, gone |-> Gone]
        <5>1. s.active \ {a} = {b} /\ s.window = b
          BY <3>3, <4>1
        <5> QED
          BY <3>2, <3>3, <4>3, <5>1 DEF Moves, Lost
      <4> QED
        BY <1>2, <3>2, <3>4, <3>5, <3>7, <4>2, <4>3, <4>4, SayTwo DEF s
    <3> QED
      BY <3>1, <3>6, <3>7
  <2>13. /\ Focused = {} \/ \E a : Focused = {a}
         /\ Watching(w) = {} \/ \E b : Watching(w) = {b}
    BY <1>4, WatchingOne
  <2> QED
    BY <2>9, <2>10, <2>11, <2>12, <2>13
<1>11. ASSUME NEW id \in Ids, NEW p \in 0 .. Len(obj), Reparent(id, p)
       PROVE  ViewInv'
  <2> DEFINE e == Parent(id, p)
  <2>1. /\ UNCHANGED <<bound, mapped, focus>> /\ events' = Append(events, e)
        /\ obj[id].win \in mapped
    BY <1>11 DEF Reparent
  <2>2. p \in Ids \union {0} /\ p # id
    BY <1>11 DEF Reparent, Inv, TypeInv, TypeOK
  <2>3. e \in EventsAbout(Nat \ {0}) /\ e.type = "parent" /\ e.id = id
    BY <1>6, <2>2, EventTypes DEF Parent
  <2> HIDE DEF e
  <2>4. Focused' = Focused /\ Gone' = Gone
    BY <1>1, <2>1 DEF Focused, Gone
  <2>5. Moves(ServerView, e) = ServerView
    BY <2>3 DEF Moves
  <2>6. id \notin Gone
    BY <2>1 DEF Gone
  <2> QED
    BY <1>2, <1>7, <2>1, <2>3, <2>4, <2>5, <2>6, SayOne
<1>12. ASSUME ServeGetWindow
       PROVE  ViewInv'
  <2>1. PICK r \in [id : Ids, win : Windows] : r = Head(requests)
    BY <1>12, AnswerFacts
  <2>2. /\ r.id \in Ids /\ r.win \in Windows /\ IsRequested(r.id)
        /\ r \in {requests[k] : k \in DOMAIN requests}
    BY <1>12, <2>1, AnswerFacts
  <2>3. PICK id \in Ids, w \in Windows : id = r.id /\ w = r.win
    BY <2>2
  <2>4. id \notin bound /\ obj[id].win = w /\ id # 0
    BY <1>3, <2>2, <2>3 DEF BoundInv
  <2> DEFINE a == StateEvent(id, w = focus)
             b == Initial(id)
             c == Unmapped(id)
  <2>5. /\ bound' = bound \union {id} /\ UNCHANGED <<mapped, focus>>
        /\ events' = events \o IF w \in mapped THEN <<a, b>> ELSE <<c>>
    BY <1>12, <2>1, <2>3 DEF ServeGetWindow
  <2>6. /\ Focused' = IF w = focus THEN Focused \union {id} ELSE Focused
        /\ Gone' = IF w \in mapped THEN Gone ELSE Gone \union {id}
    BY <1>1, <2>4, <2>5 DEF Focused, Gone
  <2>7. /\ a \in EventsAbout(Nat \ {0}) /\ b \in EventsAbout(Nat \ {0})
        /\ c \in EventsAbout(Nat \ {0})
        /\ a.type = "state" /\ a.id = id /\ a.set = (w = focus)
        /\ b.type = "initial" /\ b.id = id
        /\ c.type = "unmapped" /\ c.id = id
    <3>1. (w = focus) \in BOOLEAN
      OBVIOUS
    <3>2. a \in EventsAbout(Nat \ {0}) /\ b \in EventsAbout(Nat \ {0}) /\ c \in EventsAbout(Nat \ {0})
      BY <1>6, <3>1, EventTypes
    <3>3. a.type = "state" /\ a.id = id /\ a.set = (w = focus)
      BY DEF StateEvent
    <3> QED
      BY <3>2, <3>3 DEF Initial, Unmapped
  <2>8. id \notin Gone /\ id \notin Focused
    BY <2>4 DEF Gone, Focused
  <2>9. ServerView.window # id
    <3>1. Focused = {} \/ \E n \in bound : Focused = {n}
      BY <1>4, WatchingOne
    <3> QED
      BY <1>4, <2>4, <2>8, <3>1
  <2> HIDE DEF a, b, c
  <2>10. /\ events \o <<a, b>> = Append(Append(events, a), b)
         /\ events \o <<c>> = Append(events, c)
    BY <1>3
  <2>11. CASE w \in mapped /\ w = focus
    <3>1. Focused = {}
      <4>1. \A n \in Focused : n \in bound /\ obj[n].win = obj[id].win
        BY <2>4, <2>11 DEF Focused
      <4>2. \A n \in bound : obj[n].win = obj[id].win => n = id
        BY <1>3 DEF AnnouncedInv
      <4> QED
        BY <2>8, <4>1, <4>2
    <3> DEFINE s == Moves(ServerView, a)
    <3>2. s = [active |-> {id}, window |-> id, gone |-> Gone]
      BY <1>4, <2>7, <2>11, <3>1 DEF Moves, Won
    <3>3. Focused' = {id} /\ FocusOf(Focused') = id /\ Gone' = Gone
      BY <2>6, <2>11, <3>1, FocusOfFacts
    <3> HIDE DEF s
    <3>4. MayMeet(s, b) /\ s.gone = Gone
      BY <2>4, <3>2 DEF MayMeet, OneActive
    <3>5. Moves(s, b) = s
      BY <2>7 DEF Moves
    <3>6. ServerView' = s
      BY <1>5, <3>2, <3>3
    <3> QED
      BY <1>2, <2>5, <2>7, <2>8, <2>10, <2>11, <3>4, <3>5, <3>6, SayTwo DEF s
  <2>12. CASE w \in mapped /\ w # focus
    <3> DEFINE s == Moves(ServerView, a)
    <3>1. s = ServerView
      <4>1. Focused \ {id} = Focused
        BY <2>8
      <4>2. s = Lost(ServerView, id, Gone)
        BY <1>4, <2>7, <2>12 DEF Moves
      <4> QED
        BY <1>4, <2>9, <4>1, <4>2 DEF Lost, ServerView
    <3>2. Focused' = Focused /\ Gone' = Gone
      BY <2>6, <2>12
    <3> HIDE DEF s
    <3>3. MayMeet(s, b) /\ s.gone = Gone
      BY <1>4, <3>1 DEF MayMeet
    <3>4. Moves(s, b) = s
      BY <2>7 DEF Moves
    <3>5. ServerView' = s
      BY <1>7, <3>1, <3>2
    <3> QED
      BY <1>2, <2>5, <2>7, <2>8, <2>10, <2>12, <3>3, <3>4, <3>5, SayTwo DEF s
  <2>13. CASE w \notin mapped
    <3>1. w # focus
      BY <1>3, <2>13
    <3>2. Focused' = Focused /\ Gone' = Gone \union {id} /\ FocusOf(Focused') = FocusOf(Focused)
      BY <2>6, <2>13, <3>1
    <3>3. ServerView' = Moves(ServerView, c)
      <4>1. Focused \ {id} = Focused
        BY <2>8
      <4>2. Moves(ServerView, c) = Lost(ServerView, id, Gone \union {id})
        BY <1>4, <2>7 DEF Moves
      <4> QED
        BY <1>4, <1>5, <2>9, <3>2, <4>1, <4>2 DEF Lost
    <3>4. events' = Append(events, c)
      BY <2>5, <2>10, <2>13
    <3> QED
      BY <1>2, <2>7, <2>8, <3>3, <3>4, SayOne
  <2> QED
    BY <2>11, <2>12, <2>13
<1> QED
  BY <1>8, <1>9, <1>10, <1>11, <1>12 DEF CompositorNext

LEMMA ClientMoves ==
  ASSUME ModelInv, Inv', AnnouncedInv, ViewInv, wm = "bound", DispatchEvent
  PROVE  ViewInv'
<1> USE DEF ModelInv
<1> DEFINE e == Head(events)
<1>1. /\ events # <<>> /\ events' = Tail(events) /\ UNCHANGED <<bound, focus, mapped>>
  BY DEF DispatchEvent, Dropped, windowCallback, stateChangedCallback, parentWindowCallback,
     initialStateCallback, unmappedCallback, Dispatch, Takes, serverVars
<1>2. /\ MayMeet(ClientView, e)
      /\ e.type # "window" => e.id \notin ClientView.gone
      /\ ClientView \in Views
      /\ Leads(Views, Moving, Moves(ClientView, e), Tail(events), ServerView)
  BY <1>1, NextMove
<1>3. DOMAIN obj' = DOMAIN obj /\ \A id \in Ids : obj'[id].win = obj[id].win
  BY WindowsOfObjects
<1>4. Ids' = Ids
  BY <1>3, SameIds
<1>5. ServerView' = ServerView
  <2>1. bound \subseteq Ids
    BY WireFacts
  <2>2. Focused' = Focused /\ Gone' = Gone
    BY <1>1, <1>3, <2>1 DEF Focused, Gone
  <2> QED
    BY <2>2 DEF ServerView
<1>6. ClientView' = Moves(ClientView, e) => ViewInv'
  BY <1>1, <1>2, <1>5, MovingStays DEF ViewInv
<1> DEFINE active == {id \in Ids : obj[id].phase = "mapped" /\ obj[id].active}
           gone == {id \in Ids : obj[id].phase # "mapped"}
<1>7. /\ ClientView.active = active /\ ClientView.window = activeWindow /\ ClientView.gone = gone
      /\ ClientView = [active |-> active, window |-> activeWindow, gone |-> gone]
  BY DEF ClientView
<1>8. DOMAIN obj = Ids /\ \A n \in Ids : obj[n] \in Object
  BY WireFacts
<1>9. ClientView' =
        [active |-> {id \in Ids : obj'[id].phase = "mapped" /\ obj'[id].active},
         window |-> activeWindow',
         gone |-> {id \in Ids : obj'[id].phase # "mapped"}]
  BY <1>4 DEF ClientView
<1>10. CASE Dropped
  <2>1. e.type = "window"
    <3>1. CASE ~Alive(e.id) /\ e.type # "window"
      <4>1. e.id \in Ids
        <5>1. e \in EventsAbout(Ids)
          BY <1>1, WireFacts, TailFacts
        <5> QED
          BY <3>1, <5>1 DEF EventsAbout
      <4>2. e.id \in gone
        BY <3>1, <4>1 DEF Alive
      <4> QED
        BY <1>2, <1>7, <3>1, <4>2
    <3> QED
      BY <1>10, <3>1 DEF Dropped
  <2>2. e.epoch = setups
    <3>1. 1 \in DOMAIN events /\ e = events[1]
      BY <1>1, WireFacts
    <3> QED
      BY <2>1, <3>1 DEF AnnouncedInv, AnnouncedOnce
  <2> QED
    BY <1>10, <2>1, <2>2 DEF Dropped
<1>11. CASE windowCallback \/ initialStateCallback
  <2>1. UNCHANGED <<obj, activeWindow>> /\ e.type \in {"window", "initial"}
    BY <1>11 DEF windowCallback, initialStateCallback, Dispatch, Takes
  <2>2. Moves(ClientView, e) = ClientView
    BY <2>1 DEF Moves
  <2>3. ClientView' = ClientView
    BY <1>7, <1>9, <2>1
  <2> QED
    BY <1>6, <2>2, <2>3
<1>12. CASE parentWindowCallback
  <2>1. PICK p : obj' = [obj EXCEPT ![e.id].parent = p]
    BY <1>12 DEF parentWindowCallback
  <2>2. UNCHANGED activeWindow /\ e.type = "parent"
    BY <1>12 DEF parentWindowCallback, Dispatch, Takes
  <2> HIDE DEF e
  <2>3. \A n \in Ids : obj'[n].phase = obj[n].phase /\ obj'[n].active = obj[n].active
    BY <1>8, <2>1 DEF Object
  <2>4. Moves(ClientView, e) = ClientView
    BY <2>2 DEF Moves
  <2>5. ClientView' = ClientView
    BY <1>7, <1>9, <2>2, <2>3
  <2> QED
    BY <1>6, <2>4, <2>5
<1>13. CASE unmappedCallback
  <2>1. PICK id : id = e.id
    OBVIOUS
  <2>2. /\ e.type = "unmapped"
        /\ obj' = [n \in Ids |-> IF n = id THEN [obj[n] EXCEPT !.phase = "unmapped"]
                                           ELSE [obj[n] EXCEPT !.parent = ParentWithout(n, id)]]
        /\ activeWindow' = IF activeWindow = id THEN 0 ELSE activeWindow
    BY <1>13, <2>1 DEF unmappedCallback, Dispatch, Takes, LeavesList
  <2>3. id \in Ids
    BY <1>13, <2>1, NextEvent DEF unmappedCallback, Dispatch, Inv, TypeInv
  <2> HIDE DEF e
  <2>4. \A n \in Ids : IF n = id THEN obj'[n].phase = "unmapped"
                       ELSE obj'[n].phase = obj[n].phase /\ obj'[n].active = obj[n].active
    BY <1>8, <2>2 DEF Object
  <2>5. /\ {n \in Ids : obj'[n].phase = "mapped" /\ obj'[n].active} = active \ {id}
        /\ {n \in Ids : obj'[n].phase # "mapped"} = gone \union {id}
    BY <2>3, <2>4
  <2>6. Moves(ClientView, e) = [active |-> active \ {id},
                                window |-> IF activeWindow = id THEN 0 ELSE activeWindow,
                                gone |-> gone \union {id}]
    BY <1>7, <2>1, <2>2 DEF Moves, Lost
  <2> QED
    BY <1>6, <1>9, <2>2, <2>5, <2>6
<1>14. CASE stateChangedCallback
  <2>1. PICK id, set : id = e.id /\ set = e.set
    OBVIOUS
  <2>2. /\ e.type = "state"
        /\ obj' = [obj EXCEPT ![id].active = set]
        /\ activeWindow' = IF obj[id].active = set THEN activeWindow ELSE ActiveAfter(id, set)
    BY <1>14, <2>1 DEF stateChangedCallback, Dispatch, Takes
  <2>3. id \in Ids /\ set \in BOOLEAN
    BY <1>14, <2>1, NextEvent DEF stateChangedCallback, Dispatch, Inv, TypeInv
  <2>4. obj[id].phase = "mapped" /\ id \notin gone
    BY <1>2, <1>7, <2>1, <2>2, <2>3
  <2>5. MayMeet(ClientView, e) => OneActive(ClientView) \/ activeWindow \in active
    BY <1>7 DEF MayMeet
  <2>6. activeWindow # 0 => activeWindow \in active
    BY <1>2, <1>7, <2>5 DEF OneActive
  <2> HIDE DEF e
  <2>7. \A n \in Ids : /\ obj'[n].phase = obj[n].phase
                       /\ obj'[n].active = IF n = id THEN set ELSE obj[n].active
    BY <1>8, <2>2 DEF Object
  <2>8. {n \in Ids : obj'[n].phase # "mapped"} = gone
    BY <2>7
  <2>9. CASE set
    <3>1. {n \in Ids : obj'[n].phase = "mapped" /\ obj'[n].active} = active \union {id}
      BY <2>3, <2>4, <2>7, <2>9
    <3>2. id \in active <=> obj[id].active
      BY <2>3, <2>4
    <3>3. activeWindow' = IF id \in active THEN activeWindow ELSE id
      <4>1. obj[id].active \in BOOLEAN
        BY <2>3, WireFacts
      <4> QED
        BY <2>2, <2>3, <2>4, <2>9, <3>2, <4>1 DEF ActiveAfter
    <3>4. Moves(ClientView, e) = [active |-> active \union {id},
                                  window |-> IF id \in active THEN activeWindow ELSE id,
                                  gone |-> gone]
      BY <1>7, <2>1, <2>2, <2>9 DEF Moves, Won
    <3> QED
      BY <1>6, <1>9, <2>8, <3>1, <3>3, <3>4
  <2>10. CASE ~set
    <3>1. {n \in Ids : obj'[n].phase = "mapped" /\ obj'[n].active} = active \ {id}
      BY <2>3, <2>4, <2>7, <2>10
    <3>2. id \in active <=> obj[id].active
      BY <2>3, <2>4
    <3>3. activeWindow' = IF activeWindow = id THEN 0 ELSE activeWindow
      <4>1. obj[id].active \in BOOLEAN /\ id # 0
        BY <2>3, WireFacts
      <4>2. CASE obj[id].active
        BY <2>2, <2>3, <2>4, <2>10, <4>2 DEF ActiveAfter
      <4>3. CASE ~obj[id].active
        <5>1. activeWindow # id
          BY <2>6, <3>2, <4>1, <4>3
        <5> QED
          BY <2>2, <2>3, <2>10, <4>1, <4>3, <5>1
      <4> QED
        BY <4>2, <4>3
    <3>4. Moves(ClientView, e) = [active |-> active \ {id},
                                  window |-> IF activeWindow = id THEN 0 ELSE activeWindow,
                                  gone |-> gone]
      BY <1>7, <2>1, <2>2, <2>10 DEF Moves, Lost
    <3> QED
      BY <1>6, <1>9, <2>8, <3>1, <3>3, <3>4
  <2> QED
    BY <2>3, <2>9, <2>10
<1> QED
  BY <1>10, <1>11, <1>12, <1>13, <1>14 DEF DispatchEvent

LEMMA OtherMoves ==
  ASSUME ModelInv, Inv', ViewInv,
         \/ TimerFires \/ CreateModel
         \/ \E id \in Ids : DeleteLater(id)
  PROVE  ViewInv'
<1> USE DEF ModelInv
<1>1. UNCHANGED <<events, bound, focus, mapped, activeWindow>>
  BY DEF TimerFires, CreateModel, DeleteLater, serverVars
<1>2. bound \subseteq Ids /\ \A n \in Ids : obj[n] \in Object
  BY WireFacts
<1>3. ASSUME \A n \in Ids : /\ n \in Ids' /\ obj'[n].win = obj[n].win /\ obj'[n].active = obj[n].active
                            /\ obj'[n].phase = "mapped" <=> obj[n].phase = "mapped",
             \A n \in Ids' : n \notin Ids => obj'[n].phase = "mapped" /\ ~obj'[n].active
      PROVE  ViewInv'
  <2>1. Focused' = Focused /\ Gone' = Gone
    BY <1>1, <1>2, <1>3 DEF Focused, Gone
  <2>2. ServerView' = ServerView
    BY <2>1 DEF ServerView
  <2>3. /\ {id \in Ids' : obj'[id].phase = "mapped" /\ obj'[id].active}
             = {id \in Ids : obj[id].phase = "mapped" /\ obj[id].active}
        /\ {id \in Ids' : obj'[id].phase # "mapped"} = {id \in Ids : obj[id].phase # "mapped"}
    BY <1>3
  <2>4. ClientView' = ClientView
    BY <1>1, <2>3 DEF ClientView
  <2> QED
    BY <1>1, <2>2, <2>4, SayNothing
<1>4. CASE CreateModel
  <2>1. UNCHANGED obj /\ Ids' = Ids
    BY <1>4 DEF CreateModel, Ids
  <2> QED
    BY <1>3, <2>1
<1>5. ASSUME NEW id \in Ids, DeleteLater(id)
      PROVE  ViewInv'
  <2>1. /\ obj[id].phase = "unmapped"
        /\ obj' = [obj EXCEPT ![id].phase = "deleted", ![id].parent = 0]
    BY <1>5 DEF DeleteLater
  <2>2. DOMAIN obj = Ids
    BY WireFacts
  <2>3. DOMAIN obj' = DOMAIN obj
    BY <2>1
  <2>4. Ids' = Ids
    BY <2>3, SameIds
  <2>5. \A n \in Ids : /\ obj'[n].win = obj[n].win /\ obj'[n].active = obj[n].active
                       /\ obj'[n].phase = "mapped" <=> obj[n].phase = "mapped"
    BY <1>2, <2>1, <2>2 DEF Object
  <2> QED
    BY <1>3, <2>4, <2>5
<1>6. CASE TimerFires
  <2> DEFINE id == Len(obj) + 1
             new == [win |-> Head(timers), epoch |-> setups, phase |-> "mapped",
                     active |-> FALSE, parent |-> 0]
  <2>1. obj' = Append(obj, new) /\ new.phase = "mapped" /\ ~new.active
    BY <1>6 DEF TimerFires, windowCreated
  <2> HIDE DEF new
  <2>2. /\ Ids' = Ids \union {id} /\ obj'[id] = new
        /\ \A n \in Ids : obj'[n] = obj[n]
    <3>1. obj \in Seq(Object)
      BY DEF Inv, TypeInv, TypeOK
    <3> QED
      BY <2>1, <3>1 DEF Ids
  <2> QED
    BY <1>3, <2>1, <2>2
<1> QED
  BY <1>4, <1>5, <1>6

\* The announcements that answer the set up.
LEMMA SetupLive ==
  ASSUME ModelInv, Inv', UnsetInv, OneSetup, Setup
  PROVE  LiveInv'
<1> USE DEF ModelInv
<1>1. setups = 0 /\ setups' = 1
  BY WindowsAssumption DEF Setup, OneSetup, Inv, TypeInv, TypeOK
<1>2. /\ events = <<>> /\ requests = <<>> /\ timers = <<>> /\ obj = <<>> /\ bound = {}
      /\ Ids = {}
  BY <1>1 DEF UnsetInv, Ids
<1>3. PICK order \in SetToSeqs(mapped) :
           events' = events \o [n \in DOMAIN order |-> Announce(order[n], setups + 1)]
  BY DEF Setup
<1> DEFINE news == [n \in DOMAIN order |-> Announce(order[n], setups + 1)]
<1>4. /\ UNCHANGED <<unborn, mapped, focus, bound, requests, timers, obj, windows, activeWindow,
                     modelUp, model>>
      /\ Ids' = Ids
  BY DEF Setup, serverVars, Ids
<1>5. mapped \subseteq Windows \ unborn /\ windows \in Seq(Ids) /\ activeWindow \in 0 .. Len(obj)
  BY DEF Inv, TypeInv, TypeOK
<1>6. /\ order \in Seq(mapped)
      /\ \A j, k \in DOMAIN order : order[j] = order[k] => j = k
      /\ \A w \in mapped : \E k \in DOMAIN order : order[k] = w
  <2>1. IsFiniteSet(mapped)
    BY <1>5, WindowsAssumption, FS_Subset
  <2> QED
    BY <2>1, Enumerations, AllInOrder
<1>7. /\ DOMAIN news = DOMAIN order
      /\ \A k \in DOMAIN order : /\ news[k].type = "window" /\ news[k].win = order[k]
                                 /\ news[k].epoch = 1 /\ order[k] \in mapped
                                 /\ news[k] \in EventsAbout(Nat \ {0})
  <2>1. \A k \in DOMAIN order : order[k] \in mapped
    BY <1>6
  <2>2. \A k \in DOMAIN order : Announce(order[k], 1) \in EventsAbout(Nat \ {0})
    BY <1>5, <2>1, EventTypes
  <2> QED
    BY <1>1, <2>1, <2>2 DEF Announce
<1>8. news \in Seq(EventsAbout(Nat \ {0}))
  BY <1>6, <1>7
<1> HIDE DEF news
<1>9. events' = news
  BY <1>2, <1>3, <1>8 DEF news
<1>10. AnnouncedInv'
  <2>1. AnnouncedOnce'
    BY <1>1, <1>6, <1>7, <1>9 DEF AnnouncedOnce
  <2>2. \A w : IsAnnounced(w)' <=> w \in mapped
    BY <1>6, <1>7, <1>9 DEF IsAnnounced
  <2>3. \A w : ~HasObject(w)' /\ w \notin ToSet(timers')
    BY <1>2, <1>4 DEF HasObject, ToSet
  <2>4. IsInjective(timers')
    BY <1>2, <1>4 DEF IsInjective
  <2> QED
    BY <1>2, <1>4, <1>5, <2>1, <2>2, <2>3, <2>4 DEF AnnouncedInv
<1>11. BoundInv'
  BY <1>2, <1>4 DEF BoundInv
<1>12. ComingInv'
  <2>1. ToSet(windows') = {}
    BY <1>2, <1>4, <1>5 DEF ToSet
  <2> QED
    BY <2>1 DEF ComingInv
<1>13. ViewInv'
  <2> DEFINE s == [active |-> {}, window |-> 0, gone |-> {}]
  <2>1. ClientView' = s
    <3>1. Ids' = {} /\ activeWindow' = 0
      <4>1. Len(obj) = 0
        BY <1>2
      <4> QED
        BY <1>2, <1>4, <1>5, <4>1
    <3>2. /\ {id \in Ids' : obj'[id].phase = "mapped" /\ obj'[id].active} = {}
          /\ {id \in Ids' : obj'[id].phase # "mapped"} = {}
      BY <3>1
    <3> QED
      BY <3>1, <3>2 DEF ClientView
  <2>2. ServerView' = s
    <3>1. Focused' = {} /\ Gone' = {}
      BY <1>2, <1>4 DEF Focused, Gone
    <3> QED
      BY <3>1, FocusOfFacts DEF ServerView
  <2>3. s \in Views /\ OneActive(s)
    BY DEF Views, OneActive
  <2> HIDE DEF s
  <2>4. \A k \in DOMAIN news : <<s, news[k], s>> \in Moving
    <3> SUFFICES ASSUME NEW k \in DOMAIN news PROVE <<s, news[k], s>> \in Moving
      OBVIOUS
    <3>1. MayMeet(s, news[k]) /\ Moves(s, news[k]) = s
      BY <1>7, <2>3 DEF MayMeet, Moves
    <3> QED
      BY <1>7, <2>3, <3>1, MovingFacts
  <2>5. Leads(Views, Moving, s, news, s)
    <3> DEFINE h == [k \in 0 .. Len(news) |-> s]
    <3>1. DOMAIN news = 1 .. Len(news) /\ Len(news) \in Nat
      BY <1>8, SeqDomain
    <3>2. h \in [0 .. Len(news) -> Views] /\ \A k \in 0 .. Len(news) : h[k] = s
      BY <2>3
    <3>3. 0 \in 0 .. Len(news) /\ Len(news) \in 0 .. Len(news)
          /\ \A k \in 1 .. Len(news) : k - 1 \in 0 .. Len(news) /\ k \in 0 .. Len(news)
      BY <3>1
    <3> HIDE DEF h
    <3> QED
      BY <2>4, <3>1, <3>2, <3>3 DEF Leads
  <2> QED
    BY <1>9, <2>1, <2>2, <2>5, MovingStays DEF ViewInv
<1> QED
  BY <1>10, <1>11, <1>12, <1>13 DEF LiveInv

LEMMA QuietInvNext ==
  ASSUME OneSetup, QuietInv, [Next]_vars
  PROVE  QuietInv'
<1>1. ModelInv'
  BY ModelInvNext DEF QuietInv
<1>2. Inv /\ Inv' /\ ModelInv
  BY <1>1 DEF QuietInv, ModelInv
<1>3. setups \in Nat /\ (wm = "bound" => setups > 0)
  BY <1>2, WindowsAssumption DEF Inv, TypeInv, TypeOK, ObjectsInv
<1>4. CASE UNCHANGED vars
  <2>1. UnsetInv'
    BY <1>4 DEF QuietInv, UnsetInv, vars, clientVars, serverVars
  <2>2. wm = "bound" => LiveInv'
    <3> SUFFICES ASSUME wm = "bound" PROVE LiveInv'
      OBVIOUS
    <3>1. UNCHANGED <<unborn, mapped, focus, bound, events, requests, setups, timers, obj,
                      windows, activeWindow, modelUp, model>>
      BY <1>4 DEF vars, clientVars, serverVars
    <3>2. AnnouncedInv' /\ BoundInv' /\ ComingInv'
      BY <3>1 DEF QuietInv, LiveInv, AnnouncedInv, AnnouncedOnce, IsAnnounced, HasObject, Ids,
                  BoundInv, IsRequested, ComingInv, IsPending
    <3>3. ClientView' = ClientView /\ ServerView' = ServerView
      BY <3>1 DEF ClientView, ServerView, Ids, Focused, Gone
    <3> QED
      BY <3>1, <3>2, <3>3, SayNothing DEF LiveInv, QuietInv
  <2> QED
    BY <1>1, <1>4, <2>1, <2>2 DEF QuietInv, vars, clientVars
<1>5. CASE \/ CompositorNext \/ DispatchEvent \/ TimerFires \/ CreateModel
           \/ \E id \in Ids : DeleteLater(id)
  <2>1. UNCHANGED <<wm, setups>>
    BY <1>5 DEF CompositorNext, MapWindow, UnmapWindow, Activate, Reparent, ServeGetWindow,
       DispatchEvent, Dropped, windowCallback, stateChangedCallback, parentWindowCallback,
       initialStateCallback, unmappedCallback, TimerFires, CreateModel, DeleteLater, clientVars
  <2>2. CASE wm = "bound"
    <3>1. AnnouncedInv /\ BoundInv /\ ComingInv /\ ViewInv
      BY <2>2 DEF QuietInv, LiveInv
    <3>2. AnnouncedInv'
      BY <1>2, <1>3, <1>5, <2>2, <3>1, AnnouncedNext
    <3>3. BoundInv'
      BY <1>2, <1>5, <3>1, BoundNext
    <3>4. ComingInv'
      BY <1>2, <1>5, <3>1, ComingNext
    <3>5. ViewInv'
      BY <1>2, <1>5, <2>2, <3>1, <3>2, ServerMoves, ClientMoves, OtherMoves
    <3> QED
      BY <1>1, <1>3, <2>1, <2>2, <3>2, <3>3, <3>4, <3>5 DEF QuietInv, LiveInv, UnsetInv
  <2>3. CASE wm # "bound"
    <3>1. UnsetInv'
      <4> SUFFICES ASSUME setups = 0
                   PROVE  /\ events' = <<>> /\ requests' = <<>> /\ timers' = <<>>
                          /\ obj' = <<>> /\ bound' = {}
        BY <2>1 DEF UnsetInv
      <4>1. /\ events = <<>> /\ requests = <<>> /\ timers = <<>> /\ obj = <<>> /\ bound = {}
            /\ Ids = {}
        BY DEF QuietInv, UnsetInv, Ids
      <4>2. CASE CompositorNext
        <5>1. UNCHANGED <<timers, obj>>
          BY <4>2 DEF CompositorNext, MapWindow, UnmapWindow, Activate, Reparent, ServeGetWindow,
             clientVars
        <5>2. \A w : Watching(w) = {}
          BY <4>1 DEF Watching
        <5>3. CASE \E w \in Windows : MapWindow(w)
          BY <2>3, <4>1, <5>1, <5>3 DEF MapWindow
        <5>4. CASE \E w \in Windows : UnmapWindow(w)
          <6>1. PICK w \in Windows : UnmapWindow(w)
            BY <5>4
          <6>2. PICK news \in Unmappings(w) : events' = events \o news
            BY <6>1 DEF UnmapWindow
          <6>3. news \in Seq(EventsAbout(Ids)) /\ DOMAIN news = {}
            BY <1>2, <5>2, UnmappingsFacts
          <6>4. events \in Seq(EventsAbout(Ids))
            BY <1>2, WireFacts
          <6>5. events' = events
            BY <6>2, <6>3, <6>4, ConcatNone
          <6> QED
            BY <4>1, <5>1, <6>1, <6>5 DEF UnmapWindow
        <5>5. CASE \E w \in mapped \union {NoWindow} : Activate(w)
          <6>1. PICK w \in mapped \union {NoWindow} : Activate(w)
            BY <5>5
          <6>2. PICK lost \in States(focus, FALSE), won \in States(w, TRUE) :
                     events' = events \o lost \o won \/ events' = events \o won \o lost
            BY <6>1 DEF Activate
          <6>3. /\ lost \in Seq(EventsAbout(Ids)) /\ DOMAIN lost = {}
                /\ won \in Seq(EventsAbout(Ids)) /\ DOMAIN won = {}
            BY <1>2, <5>2, StatesFacts
          <6>4. events \in Seq(EventsAbout(Ids))
            BY <1>2, WireFacts
          <6>5. events \o lost = events /\ events \o won = events
            BY <6>3, <6>4, ConcatNone
          <6>6. events' = events
            BY <6>2, <6>5
          <6> QED
            BY <4>1, <5>1, <6>1, <6>6 DEF Activate
        <5>6. ~\E id \in Ids, p \in 0 .. Len(obj) : Reparent(id, p)
          BY <4>1
        <5>7. ~ServeGetWindow
          BY <4>1 DEF ServeGetWindow
        <5> QED
          BY <4>2, <5>3, <5>4, <5>5, <5>6, <5>7 DEF CompositorNext
      <4>3. ~DispatchEvent
        BY <4>1 DEF DispatchEvent, Dropped, windowCallback, stateChangedCallback,
           parentWindowCallback, initialStateCallback, unmappedCallback, Dispatch, Takes
      <4>4. ~TimerFires
        BY <4>1 DEF TimerFires
      <4>5. ~\E id \in Ids : DeleteLater(id)
        BY <4>1
      <4>6. CASE CreateModel
        BY <4>1, <4>6 DEF CreateModel, serverVars
      <4> QED
        BY <1>5, <4>2, <4>3, <4>4, <4>5, <4>6
    <3> QED
      BY <1>1, <2>1, <2>3, <3>1 DEF QuietInv
  <2> QED
    BY <2>2, <2>3
<1>6. CASE TimerFiresOnNullProxy
  <2>1. timers # <<>> /\ wm # "bound" /\ UNCHANGED <<wm, setups>>
    BY <1>6 DEF TimerFiresOnNullProxy
  <2>2. setups # 0
    BY <2>1 DEF QuietInv, UnsetInv
  <2> QED
    BY <1>1, <2>1, <2>2 DEF QuietInv, UnsetInv
<1>7. CASE Release \/ Destroy
  <2>1. wm = "bound" /\ wm' = "unset" /\ setups' = setups
    BY <1>7 DEF Release, Destroy
  <2> QED
    BY <1>1, <1>3, <2>1 DEF QuietInv, UnsetInv
<1>8. CASE Setup
  <2>1. setups' = setups + 1
    BY <1>8 DEF Setup
  <2>2. LiveInv'
    BY <1>2, <1>8, SetupLive DEF QuietInv
  <2> QED
    BY <1>1, <1>3, <2>1, <2>2 DEF QuietInv, UnsetInv
<1> QED
  BY <1>4, <1>5, <1>6, <1>7, <1>8 DEF Next, UserNext

\* Two ascending lists of the same windows are one.
LEMMA AscendingSame ==
  ASSUME NEW S \in SUBSET Nat, NEW s \in Seq(S), NEW t \in Seq(S), Ascending(s), Ascending(t),
         ToSet(s) = ToSet(t)
  PROVE  s = t
<1> DEFINE Bad == {k \in Nat : /\ k \in DOMAIN s \union DOMAIN t
                               /\ k \in DOMAIN s /\ k \in DOMAIN t => s[k] # t[k]}
<1>1. /\ DOMAIN s = 1 .. Len(s) /\ Len(s) \in Nat
      /\ DOMAIN t = 1 .. Len(t) /\ Len(t) \in Nat
  BY SeqDomain
<1>2. /\ \A k \in DOMAIN s : s[k] \in Nat /\ \E j \in DOMAIN t : t[j] = s[k]
      /\ \A k \in DOMAIN t : t[k] \in Nat /\ \E j \in DOMAIN s : s[j] = t[k]
  <2>1. \A k \in DOMAIN s : s[k] \in Nat
    BY Element
  <2>2. \A k \in DOMAIN t : t[k] \in Nat
    BY Element
  <2>3. /\ \A k \in DOMAIN s : \E j \in DOMAIN t : t[j] = s[k]
        /\ \A k \in DOMAIN t : \E j \in DOMAIN s : s[j] = t[k]
    BY DEF ToSet
  <2> QED
    BY <2>1, <2>2, <2>3
<1>3. ASSUME NEW k \in Bad, \A j \in Bad : ~(j < k)
      PROVE  FALSE
  <2>1. \A j \in DOMAIN s \union DOMAIN t : j < k => j \in DOMAIN s /\ j \in DOMAIN t /\ s[j] = t[j]
    BY <1>1, <1>3
  <2>2. \A i, j \in DOMAIN s : i < j => s[i] < s[j]
    BY DEF Ascending
  <2>3. \A i, j \in DOMAIN t : i < j => t[i] < t[j]
    BY DEF Ascending
  <2>4. ASSUME k \in DOMAIN s
        PROVE  k \in DOMAIN t /\ t[k] <= s[k]
    <3>1. PICK j \in DOMAIN t : t[j] = s[k]
      BY <1>2, <2>4
    <3>2. ~(j < k)
      <4>1. ASSUME j < k PROVE FALSE
        <5>1. j \in DOMAIN s /\ s[j] = s[k] /\ s[j] < s[k] /\ s[j] \in Nat
          BY <1>2, <2>1, <2>2, <2>4, <3>1, <4>1
        <5> QED
          BY <5>1
      <4> QED
        BY <4>1
    <3>3. k \in DOMAIN t /\ (k = j \/ k < j)
      BY <1>1, <2>4, <3>2
    <3>4. t[k] \in Nat /\ t[j] \in Nat /\ (k = j \/ t[k] < t[j])
      BY <1>2, <2>3, <3>3
    <3> QED
      BY <3>1, <3>3, <3>4
  <2>5. ASSUME k \in DOMAIN t
        PROVE  k \in DOMAIN s /\ s[k] <= t[k]
    <3>1. PICK j \in DOMAIN s : s[j] = t[k]
      BY <1>2, <2>5
    <3>2. ~(j < k)
      <4>1. ASSUME j < k PROVE FALSE
        <5>1. j \in DOMAIN t /\ t[j] = t[k] /\ t[j] < t[k] /\ t[j] \in Nat
          BY <1>2, <2>1, <2>3, <2>5, <3>1, <4>1
        <5> QED
          BY <5>1
      <4> QED
        BY <4>1
    <3>3. k \in DOMAIN s /\ (k = j \/ k < j)
      BY <1>1, <2>5, <3>2
    <3>4. s[k] \in Nat /\ s[j] \in Nat /\ (k = j \/ s[k] < s[j])
      BY <1>2, <2>2, <3>3
    <3> QED
      BY <3>1, <3>3, <3>4
  <2>6. k \in DOMAIN s /\ k \in DOMAIN t /\ s[k] <= t[k] /\ t[k] <= s[k]
    BY <1>3, <2>4, <2>5
  <2>7. s[k] = t[k]
    BY <1>2, <2>6
  <2> QED
    BY <1>3, <2>6, <2>7
<1>4. Bad = {}
  <2> SUFFICES ASSUME Bad # {} PROVE FALSE
    OBVIOUS
  <2>1. Bad \subseteq Nat
    OBVIOUS
  <2> HIDE DEF Bad
  <2>2. PICK k \in Bad : \A j \in Bad : <<j, k>> \notin OpToRel(<, Nat)
    BY <2>1, NatLessThanWellFounded, WFMin
  <2>3. \A j \in Bad : ~(j < k)
    BY <2>1, <2>2 DEF OpToRel
  <2> QED
    BY <1>3, <2>3
<1>5. \A k \in DOMAIN s \union DOMAIN t : k \in DOMAIN s /\ k \in DOMAIN t /\ s[k] = t[k]
  <2> SUFFICES ASSUME NEW k \in DOMAIN s \union DOMAIN t
               PROVE  k \in DOMAIN s /\ k \in DOMAIN t /\ s[k] = t[k]
    OBVIOUS
  <2>1. k \in Nat
    BY <1>1
  <2>2. k \notin Bad
    BY <1>4
  <2> QED
    BY <2>1, <2>2
<1> HIDE DEF Bad
<1>6. Len(s) = Len(t)
  <2>1. ~(Len(s) < Len(t))
    <3>1. Len(s) < Len(t) => Len(t) \in DOMAIN t /\ Len(t) \notin DOMAIN s
      BY <1>1
    <3> QED
      BY <1>5, <3>1
  <2>2. ~(Len(t) < Len(s))
    <3>1. Len(t) < Len(s) => Len(s) \in DOMAIN s /\ Len(s) \notin DOMAIN t
      BY <1>1
    <3> QED
      BY <1>5, <3>1
  <2>3. \A m, n \in Nat : ~(m < n) /\ ~(n < m) => m = n
    OBVIOUS
  <2>4. Len(s) \in Nat /\ Len(t) \in Nat
    BY <1>1
  <2> QED
    BY <2>1, <2>2, <2>3, <2>4
<1> QED
  BY <1>5, <1>6

(***************************************************************************)
(* With nothing on its way the client lists the windows the compositor     *)
(* shows, has the same one active, and its model has them all, for any     *)
(* number of windows and changes: whatever was mapped, activated, unmapped *)
(* or answered with unmapped while requests and events were crossing each  *)
(* other (windowCallback, TimerFires, stateChangedCallback,                *)
(* unmappedCallback).  For one set up: destroy() leaves the windows of an  *)
(* earlier connection where they are.                                      *)
(***************************************************************************)
THEOREM QuietView == ASSUME OneSetup PROVE Spec => []QuietViewMatches
<1>1. Init => QuietInv
  <2> SUFFICES ASSUME Init PROVE QuietInv
    OBVIOUS
  <2>1. ModelInv
    BY ModelInitially
  <2> QED
    BY <2>1 DEF Init, QuietInv, UnsetInv
<1>2. QuietInv /\ [Next]_vars => QuietInv'
  BY QuietInvNext
<1>3. QuietInv => QuietViewMatches
  <2> SUFFICES ASSUME QuietInv, Quiet
               PROVE  /\ {obj[id].win : id \in ToSet(windows)} = mapped
                      /\ IF activeWindow = 0 THEN focus = NoWindow
                                             ELSE focus = obj[activeWindow].win
                      /\ modelUp => model = windows
    BY DEF QuietViewMatches
  <2>1. /\ Inv /\ ModelInv /\ AnnouncedInv /\ BoundInv /\ ComingInv /\ ViewInv
        /\ events = <<>> /\ requests = <<>> /\ timers = <<>>
    BY DEF QuietInv, ModelInv, LiveInv, Quiet
  <2>2. /\ Ids \subseteq Nat \ {0} /\ bound \subseteq Ids
        /\ windows \in Seq(Ids) /\ model \in Seq(Ids)
        /\ focus \in mapped \union {NoWindow} /\ NoWindow \notin Windows
        /\ mapped \subseteq Windows
        /\ \A id \in Ids : obj[id].win \in Windows
    BY <2>1, WireFacts
  <2>3. bound = Ids
    <3>1. \A id : ~IsRequested(id)
      BY <2>1 DEF IsRequested
    <3> QED
      BY <2>1, <2>2, <3>1 DEF BoundInv
  <2>4. ClientView \in Views
    BY <2>2, <2>1, WireFacts DEF ClientView, Views
  <2>5. ClientView = ServerView
    BY <2>1, <2>4, LeadsNowhere DEF ViewInv
  <2>6. \A id \in Ids : obj[id].phase = "mapped" <=> obj[id].win \in mapped
    <3>1. ClientView.gone = {id \in Ids : obj[id].phase # "mapped"}
      BY DEF ClientView
    <3>2. ServerView.gone = {id \in Ids : obj[id].win \notin mapped}
      BY <2>3 DEF ServerView, Gone
    <3> QED
      BY <2>5, <3>1, <3>2
  <2>7. \A w \in mapped : HasObject(w)
    BY <2>1 DEF AnnouncedInv, IsAnnounced, ToSet
  <2>8. ToSet(windows) = {id \in Ids : obj[id].phase = "mapped"}
    BY <2>1 DEF Inv, WindowsConsistent, WindowsAreMapped
  <2>9. {obj[id].win : id \in ToSet(windows)} = mapped
    BY <2>6, <2>7, <2>8 DEF HasObject
  <2>10. activeWindow = ServerView.window
    BY <2>5 DEF ClientView
  <2>11. modelUp => model = windows
    <3> SUFFICES ASSUME modelUp PROVE model = windows
      OBVIOUS
    <3>1. ToSet(windows) \subseteq ToSet(model)
      BY <2>1 DEF ComingInv, IsPending, IsRequested
    <3>2. /\ Ascending(windows) /\ Ascending(model) /\ ToSet(model) \subseteq ToSet(windows)
          /\ Ids \in SUBSET Nat
      BY <2>1, <2>2 DEF ModelInv, RowsInv
    <3>3. ToSet(model) = ToSet(windows)
      BY <3>1, <3>2
    <3> QED
      BY <2>2, <3>2, <3>3, AscendingSame
  <2>12. ASSUME Focused = {}
         PROVE  activeWindow = 0 /\ focus = NoWindow
    <3>1. activeWindow = 0
      BY <2>1, <2>10, <2>12, ServerFacts
    <3>2. focus \notin mapped
      BY <2>3, <2>7, <2>12 DEF Focused, HasObject
    <3> QED
      BY <2>2, <3>1, <3>2
  <2>13. ASSUME NEW id, Focused = {id}
         PROVE  activeWindow = id /\ id # 0 /\ obj[id].win = focus
    BY <2>1, <2>2, <2>10, <2>13, ServerFacts DEF Focused
  <2>14. Focused = {} \/ \E id : Focused = {id}
    BY <2>1, ServerFacts, WatchingOne
  <2> QED
    BY <2>9, <2>12, <2>11, <2>13, <2>14
<1> QED
  BY <1>1, <1>2, <1>3, PTL DEF Spec
=============================================================================
