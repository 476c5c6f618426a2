--------------------------- MODULE RegistryProofs ---------------------------
(***************************************************************************)
(* Theorems about the Registry for every number of globals, connections,   *)
(* versions and objects: its types, that no object keeps a proxy of a      *)
(* connection that is gone, and of a registry that is created once that it *)
(* asks the server for what the server has, that its signals say what the  *)
(* cache says, and that all is announced before interfacesAnnounced().     *)
(***************************************************************************)
EXTENDS Registry, FiniteSetTheorems, TLAPS

Event == [type : {"announce", "remove", "sync"}, reg : Nat, name : Nat]

\* The events on their way are about globals the server had.
EventsInv ==
  /\ events \in Seq(Event)
  /\ \A k \in DOMAIN events : events[k].type # "sync" => events[k].name \in Names

TypeInv == TypeOK /\ EventsInv /\ Len(globals) <= MaxGlobals

\* Without a connection nothing is on its way, an object that still holds a proxy
\* dangles, and it is none of a Registry that hears the end of its connection.
LifeInv ==
  /\ ~up => events = <<>>
  /\ \A k \in DOMAIN objects : objects[k].phase = "bound" => up
  /\ NoProxyOutlivesConnection

EntryIsCurrent(e) ==
  /\ e.name \in Names /\ globals[e.name].interface = e.interface
  /\ e.version = ServerVersion[e.interface]
  /\ Known(e.interface)

\* The cache of a registry that is set up is about this connection.
CacheInv ==
  /\ creates = 0 => cache = <<>>
  /\ up /\ registry # 0 => \A k \in DOMAIN cache : EntryIsCurrent(cache[k])

\* A registry that was destroyed or released is not created again: the cache
\* would still be about the connection before.
OneCreate == MaxCreates <= 1

BindInv == TypeInv /\ LifeInv /\ CacheInv /\ BindsAreLegal
-----------------------------------------------------------------------------
LEMMA Constants ==
  /\ MaxGlobals \in Nat /\ MaxCreates \in Nat /\ MaxObjects \in Nat
  /\ \A i \in Interfaces : ClientVersion[i] \in Nat /\ ServerVersion[i] \in Nat \ {0}
  /\ \A i \in Interfaces : ServerVersion[i] \in Versions
  /\ Versions \subseteq Nat \ {0}
<1>1. /\ MaxGlobals \in Nat /\ MaxCreates \in Nat /\ MaxObjects \in Nat
      /\ \A i \in Interfaces : ClientVersion[i] \in Nat /\ ServerVersion[i] \in Nat \ {0}
  BY RegistryAssumption
<1>2. \A i \in Interfaces : ServerVersion[i] \in Versions
  <2> SUFFICES ASSUME NEW i \in Interfaces PROVE ServerVersion[i] \in Versions
    OBVIOUS
  <2>1. ServerVersion[i] \in 1 .. ServerVersion[i]
    BY <1>1
  <2> QED
    BY <2>1 DEF Versions
<1>3. Versions \subseteq Nat \ {0}
  BY <1>1 DEF Versions
<1> QED
  BY <1>1, <1>2, <1>3

\* The version an object is bound in is one both sides have.
LEMMA BoundVersions ==
  ASSUME NEW i \in Interfaces, NEW v \in Versions
  PROVE  /\ BoundVersion(i, v) \in Nat
         /\ BoundVersion(i, v) <= ClientVersion[i]
         /\ Known(i) => BoundVersion(i, v) >= 1
BY Constants DEF BoundVersion, Known
-----------------------------------------------------------------------------
(* Types: what an event leaves behind, and what is taken from it.          *)

LEMMA ConcatFacts ==
  ASSUME NEW S, NEW s \in Seq(S), NEW t \in Seq(S)
  PROVE  /\ s \o t \in Seq(S)
         /\ \A k \in DOMAIN (s \o t) :
              IF k \in DOMAIN s THEN (s \o t)[k] = s[k]
              ELSE \E j \in DOMAIN t : (s \o t)[k] = t[j]
<1>1. s \o t \in Seq(S)
  OBVIOUS
<1>2. ASSUME NEW k \in DOMAIN (s \o t), k \notin DOMAIN s
      PROVE  k - Len(s) \in DOMAIN t /\ (s \o t)[k] = t[k - Len(s)]
  BY <1>2
<1>3. \A k \in DOMAIN s : (s \o t)[k] = s[k]
  OBVIOUS
<1> QED
  BY <1>1, <1>2, <1>3

LEMMA AppendFacts ==
  ASSUME NEW S, NEW s \in Seq(S), NEW e \in S
  PROVE  /\ Append(s, e) \in Seq(S)
         /\ \A k \in DOMAIN Append(s, e) :
              IF k \in DOMAIN s THEN Append(s, e)[k] = s[k] ELSE Append(s, e)[k] = e
OBVIOUS

LEMMA Taking ==
  ASSUME EventsInv, NEW t, Takes(t), UNCHANGED globals
  PROVE  /\ EventsInv'
         /\ Head(events) \in Event
         /\ t # "sync" => Head(events).name \in Names
<1>1. /\ Head(events) = events[1] /\ 1 \in DOMAIN events
      /\ Tail(events) \in Seq(Event)
      /\ \A k \in DOMAIN Tail(events) : k + 1 \in DOMAIN events /\ Tail(events)[k] = events[k + 1]
  BY DEF Takes, EventsInv
<1>2. \A k \in DOMAIN Tail(events) :
         Tail(events)[k].type # "sync" => Tail(events)[k].name \in Names
  BY <1>1 DEF EventsInv
<1> QED
  BY <1>1, <1>2 DEF Takes, EventsInv, Names

LEMMA Sending ==
  ASSUME EventsInv, NEW e \in Event, e.type # "sync" => e.name \in Names',
         Names \subseteq Names', events' = Append(events, e)
  PROVE  EventsInv'
<1>1. /\ events' \in Seq(Event)
      /\ \A k \in DOMAIN events' : IF k \in DOMAIN events THEN events'[k] = events[k]
                                                          ELSE events'[k] = e
  BY DEF EventsInv
<1> QED
  BY <1>1 DEF EventsInv

LEMMA AddGlobalType ==
  ASSUME TypeInv, NEW i \in Interfaces, AddGlobal(i)
  PROVE  TypeInv'
<1> DEFINE g == [interface |-> i, alive |-> TRUE]
<1>1. /\ globals' \in Seq(Global) /\ Len(globals') = Len(globals) + 1
      /\ Len(globals') <= MaxGlobals
  BY Constants DEF TypeInv, TypeOK, AddGlobal, Global
<1>2. Names' = Names \union {Len(globals) + 1} /\ Len(globals) + 1 \in Nat
  BY <1>1 DEF TypeInv, TypeOK, Names
<1>3. EventsInv'
  <2>1. CASE resource = 0
    BY <1>2, <2>1 DEF AddGlobal, TypeInv, EventsInv
  <2>2. CASE resource # 0
    <3>1. Announce(Len(globals) + 1) \in Event /\ Announce(Len(globals) + 1).name \in Names'
      BY <1>2 DEF Announce, Event, TypeInv, TypeOK
    <3>2. events' = Append(events, Announce(Len(globals) + 1))
      BY <2>2 DEF AddGlobal
    <3> QED
      BY <1>2, <3>1, <3>2, Sending DEF TypeInv
  <2> QED
    BY <2>1, <2>2
<1> QED
  BY <1>1, <1>2, <1>3 DEF TypeInv, TypeOK, AddGlobal, registryVars

LEMMA RemoveGlobalType ==
  ASSUME TypeInv, NEW n \in Names, RemoveGlobal(n)
  PROVE  TypeInv'
<1>1. globals[n] \in Global /\ n \in Nat
  BY DEF TypeInv, TypeOK, Names
<1>2. /\ globals' \in Seq(Global) /\ Len(globals') = Len(globals) /\ Names' = Names
  <2>1. globals \in Seq(Global) /\ n \in DOMAIN globals
    BY DEF TypeInv, TypeOK, Names
  <2>2. globals' = [globals EXCEPT ![n].alive = FALSE]
    BY DEF RemoveGlobal
  <2>3. /\ DOMAIN globals' = DOMAIN globals /\ Len(globals') = Len(globals)
        /\ \A m \in DOMAIN globals : m # n => globals'[m] = globals[m]
    BY <2>1, <2>2
  <2>4. globals'[n] = [globals[n] EXCEPT !.alive = FALSE]
    BY <2>1, <2>2
  <2>5. globals'[n] \in Global
    BY <1>1, <2>4 DEF Global
  <2>6. \A m \in DOMAIN globals : globals'[m] \in Global
    BY <2>1, <2>3, <2>5
  <2>7. globals' \in [1 .. Len(globals) -> Global]
    <3>1. globals' = [m \in DOMAIN globals |-> globals'[m]]
      BY <2>1, <2>2
    <3>2. DOMAIN globals = 1 .. Len(globals)
      BY <2>1
    <3> QED
      BY <2>6, <3>1, <3>2
  <2> QED
    BY <2>1, <2>3, <2>7 DEF Names
<1>3. EventsInv'
  <2>1. CASE resource = 0
    BY <1>2, <2>1 DEF RemoveGlobal, TypeInv, EventsInv
  <2>2. CASE resource # 0
    <3> DEFINE e == [type |-> "remove", reg |-> resource, name |-> n]
    <3>1. e \in Event /\ e.name \in Names'
      BY <1>1, <1>2 DEF Event, TypeInv, TypeOK
    <3>2. events' = Append(events, e)
      BY <2>2 DEF RemoveGlobal
    <3> HIDE DEF e
    <3> QED
      BY <1>2, <3>1, <3>2, Sending DEF TypeInv
  <2> QED
    BY <2>1, <2>2
<1> QED
  BY <1>2, <1>3 DEF TypeInv, TypeOK, RemoveGlobal, registryVars

LEMMA ServeGetRegistryType ==
  ASSUME TypeInv, ServeGetRegistry
  PROVE  TypeInv'
<1> PICK names \in Orders :
       events' = (events \o [k \in DOMAIN names |->
                               [type |-> "announce", reg |-> asked, name |-> names[k]]])
                   \o <<[type |-> "sync", reg |-> asked, name |-> 0]>>
  BY DEF ServeGetRegistry
<1> DEFINE answer == [k \in DOMAIN names |->
                        [type |-> "announce", reg |-> asked, name |-> names[k]]]
           sync == [type |-> "sync", reg |-> asked, name |-> 0]
<1>1. AliveNames \subseteq Names /\ Names \subseteq Nat /\ asked \in Nat /\ Names' = Names
  BY DEF AliveNames, Names, TypeInv, TypeOK, ServeGetRegistry
<1>2. DOMAIN names = 1 .. Cardinality(AliveNames) /\ \A k \in DOMAIN names : names[k] \in Names
  BY <1>1 DEF Orders
<1>3. Cardinality(AliveNames) \in Nat
  <2>1. IsFiniteSet(Names)
    BY FS_Interval DEF Names, TypeInv, TypeOK
  <2> QED
    BY <1>1, <2>1, FS_Subset, FS_CardinalityType
<1>4. /\ answer \in Seq(Event)
      /\ \A k \in DOMAIN answer : answer[k].name \in Names
  <2>1. /\ \A k \in DOMAIN names : names[k] \in Names /\ names[k] \in Nat
        /\ DOMAIN answer = 1 .. Cardinality(AliveNames)
        /\ DOMAIN names = DOMAIN answer
    BY <1>1, <1>2
  <2>2. \A k \in DOMAIN names : /\ [type |-> "announce", reg |-> asked, name |-> names[k]] \in Event
                                /\ answer[k] = [type |-> "announce", reg |-> asked, name |-> names[k]]
    BY <1>1, <2>1 DEF Event
  <2>3. \A k \in DOMAIN answer : answer[k] \in Event /\ answer[k].name \in Names
    BY <2>1, <2>2
  <2>4. answer \in [1 .. Cardinality(AliveNames) -> Event]
    BY <2>1, <2>2
  <2> HIDE DEF answer
  <2> QED
    BY <1>3, <2>3, <2>4
<1>5. sync \in Event /\ sync.type = "sync"
  BY <1>1 DEF Event
<1> HIDE DEF answer, sync
<1>6. /\ events \o answer \in Seq(Event)
      /\ \A k \in DOMAIN (events \o answer) :
           IF k \in DOMAIN events THEN (events \o answer)[k] = events[k]
           ELSE \E j \in DOMAIN answer : (events \o answer)[k] = answer[j]
  <2>1. events \in Seq(Event) /\ answer \in Seq(Event)
    BY <1>4 DEF TypeInv, EventsInv
  <2> QED
    BY <2>1, ConcatFacts
<1>7. /\ events' \in Seq(Event)
      /\ \A k \in DOMAIN events' : IF k \in DOMAIN (events \o answer)
                                     THEN events'[k] = (events \o answer)[k]
                                     ELSE events'[k] = sync
  <2>1. events' = Append(events \o answer, sync)
    BY <1>5, <1>6 DEF answer, sync
  <2> DEFINE t == events \o answer
  <2>2. t \in Seq(Event)
    BY <1>6
  <2> HIDE DEF t
  <2>3. /\ Append(t, sync) \in Seq(Event)
        /\ \A k \in DOMAIN Append(t, sync) :
             IF k \in DOMAIN t THEN Append(t, sync)[k] = t[k] ELSE Append(t, sync)[k] = sync
    BY <1>5, <2>2, AppendFacts
  <2> QED
    BY <2>1, <2>3 DEF t
<1>8. EventsInv'
  <2>1. \A k \in DOMAIN (events \o answer) :
          (events \o answer)[k].type # "sync" => (events \o answer)[k].name \in Names
    BY <1>4, <1>6 DEF EventsInv, TypeInv
  <2> QED
    BY <1>1, <1>5, <1>7, <2>1 DEF EventsInv
<1> QED
  BY <1>1, <1>8 DEF TypeInv, TypeOK, ServeGetRegistry, registryVars
\* What the end of a connection makes of the objects.
LEMMA ObjectsEnd ==
  ASSUME objects \in Seq(Object), NEW os, os = ObjectsDestroyed \/ os = ObjectsDangling
  PROVE  /\ os \in Seq(Object) /\ DOMAIN os = DOMAIN objects
         /\ \A k \in DOMAIN os : os[k].phase # "bound"
         /\ os = ObjectsDestroyed => \A k \in DOMAIN os : os[k].phase # "dangling"
<1>1. ASSUME NEW k \in DOMAIN objects
      PROVE  /\ os[k] \in Object /\ os[k].phase # "bound"
             /\ os = ObjectsDestroyed => os[k].phase # "dangling"
  <2>1. objects[k] \in Object
    OBVIOUS
  <2>2. CASE os = ObjectsDestroyed
    <3>1. os[k] = IF objects[k].phase \in {"bound", "dangling"}
                    THEN [objects[k] EXCEPT !.phase = "destroyed"] ELSE objects[k]
      BY <2>2 DEF ObjectsDestroyed
    <3> QED
      BY <2>1, <3>1 DEF Object
  <2>3. CASE os = ObjectsDangling /\ os # ObjectsDestroyed
    <3>1. os[k] = IF objects[k].phase = "bound"
                    THEN [objects[k] EXCEPT !.phase = "dangling"] ELSE objects[k]
      BY <2>3 DEF ObjectsDangling
    <3> QED
      BY <2>1, <2>3, <3>1 DEF Object
  <2> QED
    BY <2>2, <2>3
<1>2. DOMAIN objects = 1 .. Len(objects) /\ Len(objects) \in Nat
  OBVIOUS
<1>3. os = [k \in DOMAIN objects |-> os[k]]
  BY DEF ObjectsDestroyed, ObjectsDangling
<1>4. DOMAIN os = DOMAIN objects
  BY <1>3
<1>5. os \in [1 .. Len(objects) -> Object]
  BY <1>1, <1>2, <1>3
<1> QED
  BY <1>1, <1>2, <1>4, <1>5

LEMMA ConnectionDiesType ==
  ASSUME TypeInv, ConnectionDies
  PROVE  TypeInv'
<1>1. objects' \in Seq(Object)
  BY ObjectsEnd DEF ConnectionDies, Destroyed, TypeInv, TypeOK
<1>2. EventsInv'
  BY DEF ConnectionDies, EventsInv
<1>3. globals' = <<>> /\ globals' \in Seq(Global) /\ Len(globals') <= MaxGlobals
  BY Constants DEF ConnectionDies
<1>4. /\ asked' \in 0 .. creates /\ resource' \in 0 .. creates /\ registry' \in 0 .. creates
      /\ callback' => registry' # 0
  BY DEF ConnectionDies, Destroyed, TypeInv, TypeOK
<1>5. up' \in BOOLEAN /\ callback' \in BOOLEAN /\ fixes' \in BOOLEAN
  BY DEF ConnectionDies, Destroyed, TypeInv, TypeOK
<1> QED
  BY <1>1, <1>2, <1>3, <1>4, <1>5 DEF TypeInv, TypeOK, ConnectionDies

LEMMA DestroyType ==
  ASSUME TypeInv, Destroy
  PROVE  TypeInv'
<1>1. objects' \in Seq(Object)
  BY ObjectsEnd DEF Destroy, Destroyed, TypeInv, TypeOK
<1>2. registry' = 0 /\ registry' \in 0 .. creates /\ callback' = FALSE /\ fixes' = FALSE
  BY DEF Destroy, Destroyed, TypeInv, TypeOK
<1>3. UNCHANGED <<serverVars, events, exists, creates, connected, cache, seen, done>>
  BY DEF Destroy
<1> QED
  BY <1>1, <1>2, <1>3 DEF TypeInv, TypeOK, EventsInv, serverVars, Names

LEMMA DeleteType ==
  ASSUME TypeInv, Delete
  PROVE  TypeInv'
<1>1. /\ registry' = 0 /\ registry' \in 0 .. creates /\ resource' \in 0 .. creates
      /\ callback' = FALSE /\ fixes' = FALSE /\ connected' = FALSE /\ exists' = FALSE
  BY DEF Delete, TypeInv, TypeOK
<1>2. /\ cache' = <<>> /\ seen' = {}
      /\ UNCHANGED <<up, globals, asked, initial, events, creates, done, objects>>
  BY DEF Delete
<1>3. cache' \in Seq(Entry)
  BY <1>2
<1> QED
  BY <1>1, <1>2, <1>3 DEF TypeInv, TypeOK, EventsInv, Names

\* The objects of a sequence with one field of some of them changed.
LEMMA ObjectsRemovedType ==
  ASSUME objects \in Seq(Object), NEW n
  PROVE  ObjectsRemoved(n) \in Seq(Object)
<1>1. ASSUME NEW k \in DOMAIN objects PROVE ObjectsRemoved(n)[k] \in Object
  <2>1. objects[k] \in Object
    OBVIOUS
  <2>2. ObjectsRemoved(n)[k] = objects[k]
          \/ ObjectsRemoved(n)[k] = [objects[k] EXCEPT !.removed = objects[k].removed + 1]
    BY DEF ObjectsRemoved
  <2>3. objects[k].removed + 1 \in Nat
    BY <2>1 DEF Object
  <2> QED
    BY <2>1, <2>2, <2>3 DEF Object
<1>2. DOMAIN objects = 1 .. Len(objects) /\ Len(objects) \in Nat
  OBVIOUS
<1> QED
  BY <1>1, <1>2 DEF ObjectsRemoved

LEMMA handleAnnounceType ==
  ASSUME TypeInv, handleAnnounce
  PROVE  TypeInv'
<1> DEFINE n == Head(events).name
           e == [interface |-> globals[n].interface, name |-> n,
                 version |-> ServerVersion[globals[n].interface]]
<1>1. EventsInv' /\ n \in Names
  <2>1. Takes("announce") /\ UNCHANGED globals
    BY DEF handleAnnounce, Dispatch, serverVars
  <2> QED
    BY <2>1, Taking DEF TypeInv
<1>2. globals[n].interface \in Interfaces /\ n \in 1 .. MaxGlobals
  <2>1. globals \in Seq(Global) /\ n \in 1 .. Len(globals) /\ Len(globals) <= MaxGlobals
    BY <1>1 DEF TypeInv, TypeOK, Names
  <2>2. globals[n] \in Global
    BY <2>1
  <2> QED
    BY <2>1, <2>2, Constants DEF Global
<1>3. e \in Entry /\ <<e.interface, n>> \in Interfaces \X (1 .. MaxGlobals)
  BY <1>2, Constants DEF Entry
<1>4. /\ cache' \in Seq(Entry)
      /\ seen' \subseteq Interfaces \X (1 .. MaxGlobals)
      /\ fixes' \in BOOLEAN
  <2>1. /\ cache' = Append(cache, e) \/ cache' = cache
        /\ seen' = seen \union {<<e.interface, n>>} \/ seen' = seen
    BY DEF handleAnnounce
  <2>2. fixes' \in BOOLEAN
    BY DEF handleAnnounce
  <2> HIDE DEF e, n
  <2>3. cache' \in Seq(Entry)
    <3>1. cache \in Seq(Entry) /\ e \in Entry
      BY <1>3 DEF TypeInv, TypeOK
    <3> QED
      BY <2>1, <3>1
  <2>4. seen' \subseteq Interfaces \X (1 .. MaxGlobals)
    BY <1>3, <2>1 DEF TypeInv, TypeOK
  <2> QED
    BY <2>2, <2>3, <2>4
<1> QED
  BY <1>1, <1>4 DEF TypeInv, TypeOK, handleAnnounce, serverVars, Names

LEMMA RemoveAtFacts ==
  ASSUME NEW S, NEW s \in Seq(S), NEW k \in DOMAIN s
  PROVE  /\ RemoveAt(s, k) \in Seq(S)
         /\ \A j \in DOMAIN RemoveAt(s, k) : \E m \in DOMAIN s : RemoveAt(s, k)[j] = s[m]
<1>1. /\ SubSeq(s, 1, k - 1) \in Seq(S) /\ Len(SubSeq(s, 1, k - 1)) = k - 1
      /\ \A j \in 1 .. k - 1 : SubSeq(s, 1, k - 1)[j] = s[j] /\ j \in DOMAIN s
  OBVIOUS
<1>2. /\ SubSeq(s, k + 1, Len(s)) \in Seq(S) /\ Len(SubSeq(s, k + 1, Len(s))) = Len(s) - k
      /\ \A j \in 1 .. Len(s) - k :
           SubSeq(s, k + 1, Len(s))[j] = s[j + k] /\ j + k \in DOMAIN s
  OBVIOUS
<1>3. k \in 1 .. Len(s) /\ Len(s) \in Nat
  OBVIOUS
<1> DEFINE a == SubSeq(s, 1, k - 1)
           b == SubSeq(s, k + 1, Len(s))
<1>4. a \in Seq(S) /\ Len(a) = k - 1 /\ b \in Seq(S) /\ Len(b) = Len(s) - k
  BY <1>1, <1>2
<1>5. /\ \A j \in 1 .. k - 1 : a[j] = s[j] /\ j \in DOMAIN s
      /\ \A j \in 1 .. Len(s) - k : b[j] = s[j + k] /\ j + k \in DOMAIN s
  BY <1>1, <1>2
<1> HIDE DEF a, b
<1>7. /\ a \o b \in Seq(S)
      /\ \A j \in DOMAIN (a \o b) :
           IF j \in 1 .. Len(a) THEN (a \o b)[j] = a[j]
           ELSE j - Len(a) \in 1 .. Len(b) /\ (a \o b)[j] = b[j - Len(a)]
  BY <1>4
<1>6. ASSUME NEW j \in DOMAIN (a \o b)
      PROVE  \E m \in DOMAIN s : (a \o b)[j] = s[m]
  <2>1. CASE j \in 1 .. k - 1
    BY <1>4, <1>5, <1>7, <2>1
  <2>2. CASE j \notin 1 .. k - 1
    <3>1. j - (k - 1) \in 1 .. Len(s) - k /\ (a \o b)[j] = b[j - (k - 1)]
      BY <1>4, <1>7, <2>2
    <3> QED
      BY <1>5, <3>1
  <2> QED
    BY <2>1, <2>2
<1> QED
  BY <1>6, <1>7 DEF RemoveAt, a, b

LEMMA handleRemoveType ==
  ASSUME TypeInv, handleRemove
  PROVE  TypeInv'
<1>1. EventsInv'
  <2>1. Takes("remove") /\ UNCHANGED globals
    BY DEF handleRemove, Dispatch, serverVars
  <2> QED
    BY <2>1, Taking DEF TypeInv
<1>2. objects' \in Seq(Object)
  BY ObjectsRemovedType DEF handleRemove, TypeInv, TypeOK
<1>3. cache' \in Seq(Entry) /\ seen' \subseteq seen
  <2>1. CASE UNCHANGED <<cache, seen>>
    BY <2>1 DEF TypeInv, TypeOK
  <2>2. ASSUME NEW k \in DOMAIN cache, NEW e,
               cache' = RemoveAt(cache, k), seen' = seen \ {e}
        PROVE  cache' \in Seq(Entry) /\ seen' \subseteq seen
    BY <2>2, RemoveAtFacts DEF TypeInv, TypeOK
  <2> QED
    BY <2>1, <2>2 DEF handleRemove
<1> QED
  BY <1>1, <1>2, <1>3 DEF TypeInv, TypeOK, handleRemove, serverVars, Names

LEMMA CreateObjectType ==
  ASSUME TypeInv, NEW i \in Interfaces, NEW n \in 1 .. MaxGlobals, NEW v \in Versions,
         CreateObject(i, n, v)
  PROVE  TypeInv'
<1> DEFINE o == [interface |-> i, name |-> n, version |-> BoundVersion(i, v),
                 phase |-> "bound", removed |-> 0]
<1>1. o \in Object
  BY BoundVersions DEF Object
<1>2. objects' = Append(objects, o)
  BY DEF CreateObject
<1> HIDE DEF o
<1>3. objects' \in Seq(Object)
  BY <1>1, <1>2 DEF TypeInv, TypeOK
<1> QED
  BY <1>3 DEF TypeInv, TypeOK, EventsInv, CreateObject, serverVars, registryVars, Names

LEMMA DeleteObjectType ==
  ASSUME TypeInv, NEW k \in DOMAIN objects, DeleteObject(k)
  PROVE  TypeInv'
<1>1. objects' \in Seq(Object)
  <2>1. objects \in Seq(Object) /\ objects[k] \in Object
    BY DEF TypeInv, TypeOK
  <2>2. objects' = [objects EXCEPT ![k].phase = "deleted"]
    BY DEF DeleteObject
  <2>3. objects' = [m \in DOMAIN objects |-> objects'[m]]
    BY <2>1, <2>2
  <2>4. \A m \in DOMAIN objects : m # k => objects'[m] = objects[m]
    BY <2>1, <2>2
  <2>5. objects'[k] = [objects[k] EXCEPT !.phase = "deleted"]
    BY <2>1, <2>2
  <2>6. objects'[k] \in Object
    BY <2>1, <2>5 DEF Object
  <2>7. DOMAIN objects = 1 .. Len(objects) /\ \A m \in DOMAIN objects : objects'[m] \in Object
    BY <2>1, <2>4, <2>6
  <2> QED
    BY <2>1, <2>3, <2>7
<1> QED
  BY <1>1 DEF TypeInv, TypeOK, EventsInv, DeleteObject, serverVars, registryVars, Names

LEMMA TypeInvNext ==
  ASSUME TypeInv, [Next]_vars
  PROVE  TypeInv'
<1> USE DEF TypeInv, TypeOK, EventsInv, Names
<1>1. CASE Connect
  BY <1>1 DEF Connect, registryVars
<1>2. CASE Create
  <2>1. /\ creates' \in 0 .. MaxCreates /\ resource' \in 0 .. creates'
        /\ asked' \in 0 .. creates' /\ registry' \in 0 .. creates' /\ registry' # 0
    BY <1>2, Constants DEF Create
  <2>2. callback' \in BOOLEAN /\ connected' \in BOOLEAN /\ done' \in BOOLEAN
    BY <1>2 DEF Create, TypeOK
  <2>3. UNCHANGED <<up, globals, initial, events, exists, fixes, cache, seen, objects>>
    BY <1>2 DEF Create
  <2> QED
    BY <2>1, <2>2, <2>3
<1>3. CASE Release
  <2>1. /\ resource' \in 0 .. creates /\ registry' \in 0 .. creates
        /\ callback' = FALSE /\ fixes' = FALSE
    BY <1>3 DEF Release
  <2>2. UNCHANGED <<up, globals, asked, initial, events, exists, creates, connected, cache,
                    seen, done, objects>>
    BY <1>3 DEF Release
  <2> QED
    BY <2>1, <2>2
<1>4. CASE Dropped
  <2>1. EventsInv'
    <3>1. Tail(events) \in Seq(Event)
      BY <1>4 DEF Dropped
    <3>2. \A k \in DOMAIN Tail(events) :
            k + 1 \in DOMAIN events /\ Tail(events)[k] = events[k + 1]
      BY <1>4 DEF Dropped
    <3> QED
      BY <1>4, <3>1, <3>2 DEF Dropped, serverVars
  <2> QED
    BY <1>4, <2>1 DEF Dropped, serverVars, registryVars
<1>5. CASE handleGlobalSync
  <2>1. EventsInv'
    <3>1. Takes("sync") /\ UNCHANGED globals
      BY <1>5 DEF handleGlobalSync, Dispatch, serverVars
    <3> QED
      BY <3>1, Taking
  <2> QED
    BY <1>5, <2>1 DEF handleGlobalSync, serverVars
<1>6. CASE UNCHANGED vars
  BY <1>6 DEF vars, serverVars, registryVars
<1>7. CASE ServerNext
  BY <1>1, <1>7, AddGlobalType, RemoveGlobalType, ServeGetRegistryType, ConnectionDiesType
  DEF ServerNext
<1>8. CASE DispatchEvent
  BY <1>4, <1>5, <1>8, handleAnnounceType, handleRemoveType DEF DispatchEvent
<1>9. CASE UserNext
  BY <1>2, <1>3, <1>9, DeleteType, DestroyType, CreateObjectType, DeleteObjectType DEF UserNext
<1> QED
  BY <1>6, <1>7, <1>8, <1>9 DEF Next

LEMMA InitTyped == Init => TypeInv
<1> SUFFICES ASSUME Init PROVE TypeInv
  OBVIOUS
<1>1. /\ globals = <<>> /\ events = <<>> /\ cache = <<>> /\ objects = <<>>
      /\ initial = {} /\ seen = {}
      /\ up = TRUE /\ callback = FALSE /\ fixes = FALSE /\ connected = FALSE /\ done = FALSE
      /\ exists = TRUE /\ creates = 0 /\ asked = 0 /\ resource = 0 /\ registry = 0
  BY DEF Init
<1>2. EventsInv /\ Len(globals) <= MaxGlobals
  BY <1>1, Constants DEF EventsInv
<1>3. creates \in 0 .. MaxCreates /\ asked \in 0 .. creates /\ resource \in 0 .. creates
        /\ registry \in 0 .. creates
  BY <1>1, Constants
<1>4. globals \in Seq(Global) /\ cache \in Seq(Entry) /\ objects \in Seq(Object)
  BY <1>1
<1>5. initial \subseteq Names /\ seen \subseteq Interfaces \X (1 .. MaxGlobals)
  BY <1>1
<1>6. /\ up \in BOOLEAN /\ callback \in BOOLEAN /\ fixes \in BOOLEAN
      /\ connected \in BOOLEAN /\ exists \in BOOLEAN /\ done \in BOOLEAN
      /\ (callback => registry # 0)
  BY <1>1
<1> QED
  BY <1>2, <1>3, <1>4, <1>5, <1>6 DEF TypeInv, TypeOK

(* The cache, the objects and the events on their way have their types in  *)
(* every state, whatever servers and users do (Registry::Private).         *)
THEOREM TypeCorrect == Spec => []TypeOK
<1>1. Init => TypeInv
  BY InitTyped
<1>2. TypeInv /\ [Next]_vars => TypeInv'
  BY TypeInvNext
<1>3. TypeInv => TypeOK
  BY DEF TypeInv
<1> QED
  BY <1>1, <1>2, <1>3, PTL DEF Spec
-----------------------------------------------------------------------------
(* Proxies and connections.                                                *)

LEMMA LifeInvNext ==
  ASSUME TypeInv, LifeInv, [Next]_vars
  PROVE  LifeInv'
<1> USE DEF LifeInv, NoProxyOutlivesConnection
<1>0. /\ objects \in Seq(Object) /\ up \in BOOLEAN /\ connected \in BOOLEAN
      /\ events \in Seq(Event)
  BY DEF TypeInv, TypeOK, EventsInv
<1>1. CASE UNCHANGED <<up, connected, objects>> /\ (~up => events' = <<>>)
  BY <1>1
<1>2. CASE Connect
  BY <1>2 DEF Connect, registryVars
<1>3. CASE ConnectionDies
  <2>1. /\ up' = FALSE /\ events' = <<>> /\ connected' = connected
        /\ objects' = ObjectsDestroyed \/ objects' = ObjectsDangling
        /\ connected => objects' = ObjectsDestroyed
    BY <1>3 DEF ConnectionDies, Destroyed
  <2> QED
    BY <1>0, <2>1, ObjectsEnd
<1>4. CASE Destroy
  <2>1. objects' = ObjectsDestroyed /\ UNCHANGED <<up, connected, events>>
    BY <1>4 DEF Destroy, Destroyed, serverVars
  <2> QED
    BY <1>0, <2>1, ObjectsEnd
<1>5. CASE Delete \/ Create
  BY <1>5 DEF Delete, Create
<1>6. CASE handleRemove
  <2>1. PICK n : objects' = ObjectsRemoved(n)
    BY <1>6 DEF handleRemove
  <2>2. UNCHANGED <<up, connected>> /\ events # <<>>
    BY <1>6 DEF handleRemove, serverVars, Dispatch, Takes
  <2>3. ASSUME NEW k \in DOMAIN objects'
        PROVE  k \in DOMAIN objects /\ objects'[k].phase = objects[k].phase
    <3>1. k \in DOMAIN objects /\ objects[k] \in Object
      BY <1>0, <2>1 DEF ObjectsRemoved
    <3> QED
      BY <2>1, <3>1 DEF ObjectsRemoved, Object
  <2> QED
    BY <2>2, <2>3
<1>7. ASSUME NEW i \in Interfaces, NEW n \in 1 .. MaxGlobals, NEW v \in Versions,
             CreateObject(i, n, v)
      PROVE  LifeInv'
  <2>1. up /\ UNCHANGED up
    BY <1>7 DEF CreateObject, serverVars
  <2> QED
    BY <2>1
<1>8. ASSUME NEW k \in DOMAIN objects, DeleteObject(k)
      PROVE  LifeInv'
  <2>1. objects' = [objects EXCEPT ![k].phase = "deleted"]
          /\ UNCHANGED <<up, connected, events>>
    BY <1>8 DEF DeleteObject, serverVars, registryVars
  <2>2. objects[k] \in Object
    BY <1>0
  <2>3. DOMAIN objects' = DOMAIN objects /\ \A m \in DOMAIN objects : m # k => objects'[m] = objects[m]
    BY <1>0, <2>1
  <2>4. objects'[k].phase = "deleted"
    BY <1>0, <2>1, <2>2 DEF Object
  <2> QED
    BY <2>1, <2>3, <2>4
<1>9. CASE ServerNext
  BY <1>1, <1>2, <1>3, <1>9 DEF ServerNext, AddGlobal, RemoveGlobal, ServeGetRegistry, registryVars
<1>10. CASE DispatchEvent
  <2>1. CASE Dropped \/ handleAnnounce \/ handleGlobalSync
    <3>1. events # <<>> /\ UNCHANGED <<up, connected, objects>>
      BY <2>1 DEF Dropped, handleAnnounce, handleGlobalSync, Dispatch, Takes, serverVars,
                  registryVars
    <3> QED
      BY <1>1, <3>1
  <2> QED
    BY <1>6, <1>10, <2>1 DEF DispatchEvent
<1>11. CASE UserNext
  BY <1>1, <1>4, <1>5, <1>7, <1>8, <1>11 DEF UserNext, Release
<1>12. CASE UNCHANGED vars
  BY <1>1, <1>12 DEF vars, serverVars, registryVars
<1> QED
  BY <1>9, <1>10, <1>11, <1>12 DEF Next

(***************************************************************************)
(* As long as connectionDied() is connected to destroy(), no object keeps  *)
(* a proxy of a connection that died, also if its Registry was released    *)
(* before (Registry::create(ConnectionThread), release and destroy).  Of a *)
(* Registry that was deleted, or created from a wl_display alone, nothing  *)
(* of the kind holds.                                                      *)
(***************************************************************************)
THEOREM ProxiesEndWithConnection == Spec => []NoProxyOutlivesConnection
<1>1. Init => TypeInv /\ LifeInv
  <2>1. Init => LifeInv
    BY DEF Init, LifeInv, NoProxyOutlivesConnection
  <2> QED
    BY <2>1, InitTyped
<1>2. TypeInv /\ LifeInv /\ [Next]_vars => (TypeInv /\ LifeInv)'
  BY TypeInvNext, LifeInvNext
<1>3. LifeInv => NoProxyOutlivesConnection
  BY DEF LifeInv
<1> QED
  BY <1>1, <1>2, <1>3, PTL DEF Spec
-----------------------------------------------------------------------------
(* What the registry asks the server for.                                  *)

\* The server only adds names: what is known of one stays true.
LEMMA GlobalsKept ==
  ASSUME TypeInv, LifeInv, CacheInv, BindsAreLegal,
         Names \subseteq Names', \A n \in Names : globals'[n].interface = globals[n].interface,
         UNCHANGED <<up, registry, creates, cache, objects>>
  PROVE  CacheInv' /\ BindsAreLegal'
<1>1. CacheInv'
  <2>1. ASSUME NEW k \in DOMAIN cache, EntryIsCurrent(cache[k])
        PROVE  EntryIsCurrent(cache[k])'
    BY <2>1 DEF EntryIsCurrent, Known
  <2> QED
    BY <2>1 DEF CacheInv
<1>2. BindsAreLegal'
  BY DEF BindsAreLegal
<1> QED
  BY <1>1, <1>2

LEMMA ServerKeepsBinds ==
  ASSUME BindInv, ServerNext
  PROVE  CacheInv' /\ BindsAreLegal'
<1>1. TypeInv /\ LifeInv /\ CacheInv /\ BindsAreLegal
  BY DEF BindInv
<1>2. globals \in Seq(Global) /\ Names = 1 .. Len(globals)
  BY <1>1 DEF TypeInv, TypeOK, Names
<1>3. ASSUME NEW i \in Interfaces, AddGlobal(i)
      PROVE  CacheInv' /\ BindsAreLegal'
  <2> DEFINE g == [interface |-> i, alive |-> TRUE]
  <2>1. globals' = Append(globals, g) /\ UNCHANGED <<up, registry, creates, cache, objects>>
    BY <1>3 DEF AddGlobal, registryVars
  <2> HIDE DEF g
  <2>2. Names \subseteq Names' /\ \A n \in Names : globals'[n] = globals[n]
    BY <1>2, <2>1 DEF Names
  <2> QED
    BY <1>1, <2>1, <2>2, GlobalsKept
<1>4. ASSUME NEW n \in Names, RemoveGlobal(n)
      PROVE  CacheInv' /\ BindsAreLegal'
  <2>1. globals' = [globals EXCEPT ![n].alive = FALSE]
          /\ UNCHANGED <<up, registry, creates, cache, objects>>
    BY <1>4 DEF RemoveGlobal, registryVars
  <2>2. globals[n] \in Global
    BY <1>2
  <2>3. Names' = Names /\ \A m \in Names : m # n => globals'[m] = globals[m]
    BY <1>2, <2>1 DEF Names
  <2>4. globals'[n].interface = globals[n].interface
    BY <1>2, <2>1, <2>2 DEF Global
  <2> QED
    BY <1>1, <2>1, <2>3, <2>4, GlobalsKept
<1>5. CASE ServeGetRegistry
  BY <1>1, <1>5, GlobalsKept DEF ServeGetRegistry, registryVars, Names
<1>6. CASE Connect
  <2>1. registry' = 0 /\ UNCHANGED <<creates, cache, objects>>
    BY <1>6 DEF Connect, registryVars
  <2>2. \A k \in DOMAIN objects : objects[k].phase # "bound"
    BY <1>1, <1>6 DEF Connect, LifeInv
  <2> QED
    BY <1>1, <2>1, <2>2 DEF CacheInv, BindsAreLegal
<1>7. CASE ConnectionDies
  <2>1. up' = FALSE /\ UNCHANGED <<creates, cache>>
    BY <1>7 DEF ConnectionDies
  <2> QED
    BY <1>1, <2>1 DEF CacheInv, BindsAreLegal
<1> QED
  BY <1>3, <1>4, <1>5, <1>6, <1>7 DEF ServerNext

LEMMA DispatchKeepsBinds ==
  ASSUME BindInv, DispatchEvent
  PROVE  CacheInv' /\ BindsAreLegal'
<1>1. TypeInv /\ LifeInv /\ CacheInv /\ BindsAreLegal
  BY DEF BindInv
<1>2. CASE Dropped \/ handleGlobalSync
  BY <1>1, <1>2, GlobalsKept DEF Dropped, handleGlobalSync, serverVars, registryVars, Names
<1>3. CASE handleAnnounce
  <2> DEFINE n == Head(events).name
             e == [interface |-> globals[n].interface, name |-> n,
                   version |-> ServerVersion[globals[n].interface]]
  <2>1. UNCHANGED <<up, globals, registry, creates, objects>> /\ registry # 0 /\ up
    BY <1>1, <1>3 DEF handleAnnounce, serverVars, Dispatch, Takes, LifeInv, TypeInv, TypeOK
  <2>2. n \in Names
    <3>1. Takes("announce")
      BY <1>3 DEF handleAnnounce, Dispatch
    <3> QED
      BY <1>1, <2>1, <3>1, Taking DEF TypeInv
  <2>3. cache' = cache \/ (Known(e.interface) /\ cache' = Append(cache, e))
    BY <1>3 DEF handleAnnounce
  <2>4. Known(e.interface) => EntryIsCurrent(e)
    BY <2>2 DEF EntryIsCurrent
  <2> HIDE DEF e
  <2>5. \A k \in DOMAIN cache' : EntryIsCurrent(cache'[k])
    <3>1. cache \in Seq(Entry) /\ \A k \in DOMAIN cache : EntryIsCurrent(cache[k])
      BY <1>1, <2>1 DEF CacheInv, TypeInv, TypeOK
    <3>2. CASE cache' = cache
      BY <3>1, <3>2
    <3>3. CASE Known(e.interface) /\ cache' = Append(cache, e)
      <4>1. \A k \in DOMAIN cache' : IF k \in DOMAIN cache THEN cache'[k] = cache[k]
                                                           ELSE cache'[k] = e
        BY <3>1, <3>3
      <4> QED
        BY <2>4, <3>1, <3>3, <4>1
    <3> QED
      BY <2>3, <3>2, <3>3
  <2>6. creates # 0
    BY <1>1, <2>1 DEF TypeInv, TypeOK
  <2> QED
    BY <1>1, <2>1, <2>5, <2>6 DEF CacheInv, BindsAreLegal, EntryIsCurrent, Known, Names
<1>4. CASE handleRemove
  <2>1. UNCHANGED <<up, globals, registry, creates>> /\ registry # 0 /\ up
    BY <1>1, <1>4 DEF handleRemove, serverVars, Dispatch, Takes, LifeInv, TypeInv, TypeOK
  <2>2. creates # 0
    BY <1>1, <2>1 DEF TypeInv, TypeOK
  <2>3. cache \in Seq(Entry) /\ \A k \in DOMAIN cache : EntryIsCurrent(cache[k])
    BY <1>1, <2>1 DEF CacheInv, TypeInv, TypeOK
  <2>4. \A k \in DOMAIN cache' : EntryIsCurrent(cache'[k])
    <3>1. CASE UNCHANGED cache
      BY <2>3, <3>1
    <3>2. ASSUME NEW m \in DOMAIN cache, cache' = RemoveAt(cache, m)
          PROVE  \A k \in DOMAIN cache' : EntryIsCurrent(cache'[k])
      <4>1. \A k \in DOMAIN cache' : \E j \in DOMAIN cache : cache'[k] = cache[j]
        BY <2>3, <3>2, RemoveAtFacts
      <4> QED
        BY <2>3, <4>1
    <3> QED
      BY <1>4, <3>1, <3>2 DEF handleRemove
  <2>5. CacheInv'
    BY <2>1, <2>2, <2>4 DEF CacheInv, EntryIsCurrent, Known, Names
  <2>6. PICK n : objects' = ObjectsRemoved(n)
    BY <1>4 DEF handleRemove
  <2>7. ASSUME NEW k \in DOMAIN objects'
        PROVE  /\ k \in DOMAIN objects
               /\ objects'[k].phase = objects[k].phase
               /\ objects'[k].name = objects[k].name
               /\ objects'[k].interface = objects[k].interface
               /\ objects'[k].version = objects[k].version
    <3>1. k \in DOMAIN objects /\ objects[k] \in Object
      BY <1>1, <2>6 DEF ObjectsRemoved, TypeInv, TypeOK
    <3> QED
      BY <2>6, <3>1 DEF ObjectsRemoved, Object
  <2>8. BindsAreLegal'
    BY <1>1, <2>1, <2>7 DEF BindsAreLegal, Names
  <2> QED
    BY <2>5, <2>8
<1> QED
  BY <1>2, <1>3, <1>4 DEF DispatchEvent

LEMMA UserKeepsBinds ==
  ASSUME OneCreate, BindInv, UserNext
  PROVE  CacheInv' /\ BindsAreLegal'
<1>1. TypeInv /\ LifeInv /\ CacheInv /\ BindsAreLegal
  BY DEF BindInv
<1>2. CASE Create
  <2>1. creates = 0 /\ registry = 0 /\ cache' = <<>> /\ creates' = creates + 1
    <3>1. creates \in Nat /\ creates < MaxCreates /\ MaxCreates <= 1 /\ MaxCreates \in Nat
      BY <1>1, <1>2, Constants DEF Create, OneCreate, TypeInv, TypeOK
    <3> QED
      BY <1>1, <1>2, <3>1 DEF Create, CacheInv
  <2>2. UNCHANGED <<up, globals, objects>>
    BY <1>2 DEF Create
  <2> QED
    BY <1>1, <2>1, <2>2 DEF CacheInv, BindsAreLegal, Names
<1>3. CASE Release \/ Delete
  BY <1>1, <1>3 DEF Release, Delete, CacheInv, BindsAreLegal, Names
<1>6. CASE Destroy
  BY <1>1, <1>6 DEF Destroy, Destroyed, serverVars, CacheInv, BindsAreLegal
<1>4. ASSUME NEW i \in Interfaces, NEW n \in 1 .. MaxGlobals, NEW v \in Versions,
             CreateObject(i, n, v)
      PROVE  CacheInv' /\ BindsAreLegal'
  <2> DEFINE o == [interface |-> i, name |-> n, version |-> BoundVersion(i, v),
                   phase |-> "bound", removed |-> 0]
  <2>1. /\ UNCHANGED <<up, globals, registry, creates, cache>> /\ registry # 0 /\ up
        /\ objects' = Append(objects, o)
    BY <1>4 DEF CreateObject, serverVars, registryVars
  <2>2. PICK k \in DOMAIN cache : /\ cache[k].interface = i /\ cache[k].name = n
                                  /\ cache[k].version >= BoundVersion(i, v)
    BY <1>4 DEF CreateObject, Bindable
  <2>3. EntryIsCurrent(cache[k])
    BY <1>1, <2>1 DEF CacheInv
  <2>4. /\ n \in Names /\ globals[n].interface = i
        /\ BoundVersion(i, v) <= ClientVersion[i]
        /\ BoundVersion(i, v) \in 1 .. ServerVersion[i]
    <3>1. Known(i) /\ n \in Names /\ globals[n].interface = i
            /\ BoundVersion(i, v) <= ServerVersion[i]
      BY <2>2, <2>3, BoundVersions, Constants DEF EntryIsCurrent
    <3>2. ServerVersion[i] \in Nat
      BY Constants
    <3> QED
      BY <3>1, <3>2, BoundVersions
  <2>5. /\ o.interface = i /\ o.name = n /\ o.version = BoundVersion(i, v)
    OBVIOUS
  <2> HIDE DEF o
  <2>6. \A m \in DOMAIN objects' :
          (m \in DOMAIN objects /\ objects'[m] = objects[m]) \/ objects'[m] = o
    <3>1. objects \in Seq(Object)
      BY <1>1 DEF TypeInv, TypeOK
    <3> QED
      BY <2>1, <3>1
  <2>7. BindsAreLegal'
    BY <1>1, <2>1, <2>4, <2>5, <2>6 DEF BindsAreLegal, Names
  <2> QED
    BY <1>1, <2>1, <2>7 DEF CacheInv, EntryIsCurrent, Known, Names
<1>5. ASSUME NEW k \in DOMAIN objects, DeleteObject(k)
      PROVE  CacheInv' /\ BindsAreLegal'
  <2>1. /\ UNCHANGED <<up, globals, registry, creates, cache>>
        /\ objects' = [objects EXCEPT ![k].phase = "deleted"]
    BY <1>5 DEF DeleteObject, serverVars, registryVars
  <2>2. objects \in Seq(Object) /\ objects[k] \in Object
    BY <1>1 DEF TypeInv, TypeOK
  <2>3. objects'[k].phase = "deleted"
    BY <2>1, <2>2 DEF Object
  <2>4. DOMAIN objects' = DOMAIN objects
          /\ \A m \in DOMAIN objects : m # k => objects'[m] = objects[m]
    BY <2>1, <2>2
  <2>5. BindsAreLegal'
    BY <1>1, <2>1, <2>3, <2>4 DEF BindsAreLegal, Names
  <2> QED
    BY <1>1, <2>1, <2>5 DEF CacheInv, EntryIsCurrent, Known, Names
<1> QED
  BY <1>2, <1>3, <1>4, <1>5, <1>6 DEF UserNext

LEMMA BindInvNext ==
  ASSUME OneCreate, BindInv, [Next]_vars
  PROVE  CacheInv' /\ BindsAreLegal'
<1>1. CASE ServerNext
  BY <1>1, ServerKeepsBinds
<1>2. CASE DispatchEvent
  BY <1>2, DispatchKeepsBinds
<1>3. CASE UserNext
  BY <1>3, UserKeepsBinds
<1>4. CASE UNCHANGED vars
  BY <1>4, GlobalsKept DEF BindInv, vars, serverVars, registryVars, Names
<1> QED
  BY <1>1, <1>2, <1>3, <1>4 DEF Next

(***************************************************************************)
(* A registry that is created once asks with bind for a global the server  *)
(* announced on this connection, of its own interface, and in a version    *)
(* that both sides have (Registry::Private::bind and the version each      *)
(* bind<Interface>() asks for).                                            *)
(***************************************************************************)
THEOREM BindsStayLegal ==
  ASSUME OneCreate
  PROVE  Spec => []BindsAreLegal
<1>1. Init => BindInv
  <2> SUFFICES ASSUME Init PROVE BindInv
    OBVIOUS
  <2>1. TypeInv
    BY InitTyped
  <2>2. LifeInv /\ CacheInv /\ BindsAreLegal
    BY DEF Init, LifeInv, NoProxyOutlivesConnection, CacheInv, BindsAreLegal
  <2> QED
    BY <2>1, <2>2 DEF BindInv
<1>2. BindInv /\ [Next]_vars => BindInv'
  <2> SUFFICES ASSUME BindInv, [Next]_vars PROVE BindInv'
    OBVIOUS
  <2>1. TypeInv' /\ LifeInv'
    BY TypeInvNext, LifeInvNext DEF BindInv
  <2>2. CacheInv' /\ BindsAreLegal'
    BY BindInvNext
  <2> QED
    BY <2>1, <2>2 DEF BindInv
<1>3. BindInv => BindsAreLegal
  BY DEF BindInv
<1> QED
  BY <1>1, <1>2, <1>3, PTL DEF Spec
-----------------------------------------------------------------------------
(* What the signals say.                                                   *)

IsPending(t, n) == \E k \in DOMAIN events : events[k].type = t /\ events[k].name = n
SyncPending == \E k \in DOMAIN events : events[k].type = "sync"

\* A registry that is not served yet knows nothing, nor does its user.
UnservedInv ==
  /\ creates = 0 \/ asked # 0 =>
       /\ resource = 0 /\ events = <<>> /\ initial = {} /\ cache = <<>> /\ seen = {}
       /\ objects = <<>> /\ ~done
  /\ up /\ registry # 0 => (asked = 0 <=> resource # 0)
  /\ ~up => initial = {}

\* No event comes twice; a global is announced before it is removed, and those
\* there were at the start before the answer to the sync.
OrderInv ==
  \A j, k \in DOMAIN events :
    /\ events[j].reg = 1
    /\ /\ events[j].type = events[k].type
       /\ events[j].type = "sync" \/ events[j].name = events[k].name
       => j = k
    /\ /\ events[j].type = "announce" /\ events[k].type = "remove"
       /\ events[j].name = events[k].name
       => j < k
    /\ /\ events[j].type = "announce" /\ events[j].name \in initial
       /\ events[k].type = "sync"
       => j < k

\* Each global is where the events have brought it: on its way into the cache, in
\* it, or on its way out.
FlowOf(n) ==
  /\ IsPending("announce", n) => ~Cached(n)
  /\ IsPending("remove", n) => ~globals[n].alive
  /\ globals[n].alive /\ Known(globals[n].interface) /\ resource # 0 =>
       IsPending("announce", n) \/ Cached(n)
  /\ ~globals[n].alive /\ (IsPending("announce", n) \/ Cached(n)) => IsPending("remove", n)

\* The answer to the sync comes once, after what was there at the start.
SyncInv ==
  /\ done => ~SyncPending
  /\ \A n \in initial : IsPending("announce", n) => SyncPending

\* Nothing is handled any more once the registry is released or destroyed.
FlowInv == registry # 0 => OrderInv /\ SyncInv /\ \A n \in Names : FlowOf(n)

\* An object was announced, and emits removed() when the event of its global comes.
ObjectsInv ==
  \A k \in DOMAIN objects :
    LET o == objects[k]
    IN  up /\ o.phase = "bound" =>
          /\ o.removed <= 1
          /\ o.removed = 1 => ~globals[o.name].alive
          /\ registry # 0 =>
               /\ ~IsPending("announce", o.name)
               /\ IsPending("remove", o.name) => o.removed = 0
               /\ ~globals[o.name].alive /\ o.removed = 0 => IsPending("remove", o.name)

SignalInv ==
  BindInv /\ UnservedInv /\ FlowInv /\ ObjectsInv /\ SignalsMatchCache
-----------------------------------------------------------------------------
LEMMA SendingEvent ==
  ASSUME events \in Seq(Event), NEW e \in Event, events' = Append(events, e)
  PROVE  /\ DOMAIN events = 1 .. Len(events) /\ Len(events) \in Nat
         /\ DOMAIN events' = DOMAIN events \union {Len(events) + 1}
         /\ \A k \in DOMAIN events : events'[k] = events[k]
         /\ events'[Len(events) + 1] = e
         /\ \A t, n : IsPending(t, n)' <=> IsPending(t, n) \/ (e.type = t /\ e.name = n)
         /\ SyncPending' <=> SyncPending \/ e.type = "sync"
<1>1. /\ DOMAIN events = 1 .. Len(events) /\ Len(events) \in Nat
      /\ DOMAIN events' = DOMAIN events \union {Len(events) + 1}
      /\ \A k \in DOMAIN events : events'[k] = events[k]
      /\ events'[Len(events) + 1] = e
  OBVIOUS
<1> QED
  BY <1>1 DEF IsPending, SyncPending

\* An event that comes behind the others keeps the order.
LEMMA OrderedWhenSent ==
  ASSUME events \in Seq(Event), OrderInv, NEW e \in Event, events' = Append(events, e),
         e.reg = 1, e.type \in {"announce", "remove"}, ~IsPending(e.type, e.name),
         e.type = "announce" => ~IsPending("remove", e.name) /\ e.name \notin initial,
         initial' = initial
  PROVE  OrderInv'
<1>1. /\ DOMAIN events = 1 .. Len(events) /\ Len(events) \in Nat
      /\ DOMAIN events' = DOMAIN events \union {Len(events) + 1}
      /\ \A k \in DOMAIN events : events'[k] = events[k]
      /\ events'[Len(events) + 1] = e
  BY SendingEvent
<1>2. \A k \in DOMAIN events : events[k].type = e.type => events[k].name # e.name
  BY DEF IsPending
<1>3. e.type = "announce" =>
        \A k \in DOMAIN events : events[k].type = "remove" => events[k].name # e.name
  BY DEF IsPending
<1> QED
  BY <1>1, <1>2, <1>3 DEF OrderInv

LEMMA TakingEvent ==
  ASSUME events \in Seq(Event), OrderInv, events # <<>>, events' = Tail(events),
         initial' = initial
  PROVE  /\ OrderInv'
         /\ \A t, n : t # "sync" =>
              (IsPending(t, n)' <=> IsPending(t, n) /\ ~(Head(events).type = t /\ Head(events).name = n))
         /\ SyncPending' <=> SyncPending /\ Head(events).type # "sync"
         /\ IsPending(Head(events).type, Head(events).name)
         /\ Head(events).type = "sync" => SyncPending
         /\ Head(events).reg = 1
         /\ Head(events).type = "remove" => ~IsPending("announce", Head(events).name)
         /\ Head(events).type = "sync" => \A n \in initial : ~IsPending("announce", n)
<1>1. /\ Head(events) = events[1] /\ 1 \in DOMAIN events
      /\ DOMAIN events = 1 .. Len(events) /\ Len(events) \in Nat
      /\ DOMAIN events' = 1 .. Len(events) - 1
      /\ \A k \in DOMAIN events' : k + 1 \in DOMAIN events /\ events'[k] = events[k + 1]
      /\ \A k \in DOMAIN events : k # 1 => k - 1 \in DOMAIN events' /\ k = (k - 1) + 1
  OBVIOUS
<1>2. OrderInv'
  BY <1>1 DEF OrderInv
<1>3. ASSUME NEW t, NEW n, t # "sync"
      PROVE  IsPending(t, n)' <=> IsPending(t, n) /\ ~(Head(events).type = t /\ Head(events).name = n)
  <2>1. ASSUME IsPending(t, n)'
        PROVE  IsPending(t, n) /\ ~(Head(events).type = t /\ Head(events).name = n)
    <3>1. PICK k \in DOMAIN events' : events'[k].type = t /\ events'[k].name = n
      BY <2>1 DEF IsPending
    <3>2. k + 1 \in DOMAIN events /\ events'[k] = events[k + 1] /\ k + 1 # 1
      BY <1>1
    <3>3. IsPending(t, n)
      BY <3>1, <3>2 DEF IsPending
    <3>4. events[1].type = t /\ events[1].name = n => k + 1 = 1
      BY <1>1, <3>1, <3>2 DEF OrderInv
    <3> QED
      BY <1>1, <3>2, <3>3, <3>4
  <2>2. ASSUME IsPending(t, n), ~(Head(events).type = t /\ Head(events).name = n)
        PROVE  IsPending(t, n)'
    <3>1. PICK k \in DOMAIN events : events[k].type = t /\ events[k].name = n
      BY <2>2 DEF IsPending
    <3>2. k # 1
      BY <1>1, <2>2, <3>1
    <3>3. k - 1 \in DOMAIN events' /\ events'[k - 1] = events[(k - 1) + 1] /\ k = (k - 1) + 1
      BY <1>1, <3>2
    <3> QED
      BY <3>1, <3>3 DEF IsPending
  <2> QED
    BY <2>1, <2>2
<1>4. SyncPending' <=> SyncPending /\ Head(events).type # "sync"
  BY <1>1 DEF OrderInv, SyncPending
<1>5. /\ IsPending(Head(events).type, Head(events).name)
      /\ Head(events).type = "sync" => SyncPending
      /\ Head(events).reg = 1
  BY <1>1 DEF OrderInv, IsPending, SyncPending
<1>6. \A k \in DOMAIN events : ~(k < 1)
  BY <1>1
<1>7. Head(events).type = "remove" => ~IsPending("announce", Head(events).name)
  BY <1>1, <1>6 DEF OrderInv, IsPending
<1>8. Head(events).type = "sync" => \A n \in initial : ~IsPending("announce", n)
  BY <1>1, <1>6 DEF OrderInv, IsPending
<1> QED
  BY <1>2, <1>3, <1>4, <1>5, <1>7, <1>8
-----------------------------------------------------------------------------
\* What the invariant says, in the form the steps below use it.
LEMMA SignalFacts ==
  ASSUME OneCreate, SignalInv
  PROVE  /\ events \in Seq(Event) /\ globals \in Seq(Global)
         /\ cache \in Seq(Entry) /\ objects \in Seq(Object)
         /\ Names = 1 .. Len(globals) /\ Len(globals) \in Nat
         /\ initial \subseteq Names
         /\ registry \in {0, 1} /\ resource \in {0, 1} /\ asked \in {0, 1}
         /\ creates \in {0, 1}
         /\ \A t, n : t # "sync" /\ IsPending(t, n) => n \in Names
         /\ up /\ registry # 0 =>
              \A k \in DOMAIN cache : EntryIsCurrent(cache[k])
         /\ \A k \in DOMAIN objects :
              up /\ objects[k].phase = "bound" => objects[k].name \in Names
         /\ events # <<>> => up
<1>1. /\ events \in Seq(Event) /\ globals \in Seq(Global)
      /\ cache \in Seq(Entry) /\ objects \in Seq(Object)
      /\ Names = 1 .. Len(globals) /\ Len(globals) \in Nat
      /\ initial \subseteq Names
  BY DEF SignalInv, BindInv, TypeInv, TypeOK, EventsInv, Names
<1>2. /\ registry \in {0, 1} /\ resource \in {0, 1} /\ asked \in {0, 1}
      /\ creates \in {0, 1}
  <2>1. /\ registry \in 0 .. creates /\ resource \in 0 .. creates /\ asked \in 0 .. creates
        /\ creates \in 0 .. MaxCreates
    BY DEF SignalInv, BindInv, TypeInv, TypeOK
  <2> QED
    BY <2>1, Constants DEF OneCreate
<1>3. ASSUME NEW t, NEW n, t # "sync", IsPending(t, n)
      PROVE  n \in Names
  BY <1>3 DEF IsPending, SignalInv, BindInv, TypeInv, EventsInv
<1>4. up /\ registry # 0 => \A k \in DOMAIN cache : EntryIsCurrent(cache[k])
  BY DEF SignalInv, BindInv, CacheInv
<1>5. \A k \in DOMAIN objects :
        up /\ objects[k].phase = "bound" => objects[k].name \in Names
  BY DEF SignalInv, BindInv, BindsAreLegal
<1>6. events # <<>> => up
  BY DEF SignalInv, BindInv, LifeInv, TypeInv, TypeOK
<1> QED
  BY <1>1, <1>2, <1>3, <1>4, <1>5, <1>6

\* What the steps below show besides what BindInvNext does.
SignalsKept == UnservedInv /\ FlowInv /\ ObjectsInv /\ SignalsMatchCache

LEMMA AddGlobalSignals ==
  ASSUME OneCreate, SignalInv, NEW i \in Interfaces, AddGlobal(i)
  PROVE  SignalsKept'
<1> DEFINE g == [interface |-> i, alive |-> TRUE]
           new == Len(globals) + 1
<1>1. /\ UNCHANGED <<up, asked, resource, initial, registry, creates, cache, seen, done, objects>>
      /\ globals' = Append(globals, g)
  BY DEF AddGlobal, registryVars
<1>2. g.alive
  OBVIOUS
<1> HIDE DEF g
<1>3. /\ Names' = Names \union {new} /\ new \notin Names
      /\ \A n \in Names : globals'[n] = globals[n]
      /\ globals'[new] = g /\ new \in Nat
  BY <1>1, SignalFacts DEF Names
<1>4. UnservedInv' /\ SignalsMatchCache'
  <2>1. events' = events \/ resource # 0
    BY DEF AddGlobal
  <2> QED
    BY <1>1, <2>1 DEF SignalInv, UnservedInv, SignalsMatchCache
<1>5. \A n : ~IsPending("announce", new) /\ ~IsPending("remove", new)
  BY <1>3, SignalFacts
<1>6. registry # 0 => ~Cached(new)
  <2>1. up
    BY DEF AddGlobal
  <2> QED
    BY <1>3, <2>1, SignalFacts DEF Cached, EntryIsCurrent
<1>7. CASE resource = 0
  <2>1. events' = events
    BY <1>7 DEF AddGlobal
  <2>2. \A t, n : IsPending(t, n)' <=> IsPending(t, n)
    BY <2>1 DEF IsPending
  <2>3. \A n : Cached(n)' <=> Cached(n)
    BY <1>1 DEF Cached
  <2>4. FlowInv'
    <3> SUFFICES ASSUME registry # 0 PROVE OrderInv' /\ SyncInv' /\ \A n \in Names' : FlowOf(n)'
      BY <1>1 DEF FlowInv
    <3>1. OrderInv /\ SyncInv /\ \A n \in Names : FlowOf(n)
      BY DEF SignalInv, FlowInv
    <3>2. OrderInv' /\ SyncInv'
      BY <1>1, <2>1, <3>1 DEF OrderInv, SyncInv, SyncPending, IsPending
    <3>3. ASSUME NEW n \in Names PROVE FlowOf(n)'
      BY <1>1, <1>3, <2>2, <2>3, <3>1 DEF FlowOf
    <3>4. ASSUME NEW n, n = new PROVE FlowOf(n)'
      BY <3>4, <1>1, <1>2, <1>3, <1>5, <1>6, <1>7, <2>2, <2>3 DEF FlowOf
    <3> QED
      BY <1>3, <3>2, <3>3, <3>4
  <2>5. ObjectsInv'
    BY <1>1, <1>3, <2>2, SignalFacts DEF SignalInv, ObjectsInv
  <2> QED
    BY <1>4, <2>4, <2>5 DEF SignalsKept
<1>8. CASE resource # 0
  <2> DEFINE e == Announce(new)
  <2>1. events' = Append(events, e) /\ resource = 1
    BY <1>8, SignalFacts DEF AddGlobal
  <2>2. e \in Event /\ e.type = "announce" /\ e.name = new /\ e.reg = 1
    BY <1>3, <2>1 DEF Announce, Event
  <2> HIDE DEF e
  <2>3. /\ \A t, n : IsPending(t, n)' <=> IsPending(t, n) \/ (e.type = t /\ e.name = n)
        /\ SyncPending' <=> SyncPending
    BY <2>1, <2>2, SendingEvent, SignalFacts
  <2>4. \A n : Cached(n)' <=> Cached(n)
    BY <1>1 DEF Cached
  <2>5. FlowInv'
    <3> SUFFICES ASSUME registry # 0 PROVE OrderInv' /\ SyncInv' /\ \A n \in Names' : FlowOf(n)'
      BY <1>1 DEF FlowInv
    <3>1. OrderInv /\ SyncInv /\ \A n \in Names : FlowOf(n)
      BY DEF SignalInv, FlowInv
    <3>2. new \notin initial
      BY <1>3, SignalFacts
    <3>3. OrderInv'
      BY <1>1, <1>5, <2>1, <2>2, <3>1, <3>2, OrderedWhenSent, SignalFacts
    <3>4. SyncInv'
      BY <1>1, <2>2, <2>3, <3>1, <3>2 DEF SyncInv
    <3>5. ASSUME NEW n \in Names PROVE FlowOf(n)'
      BY <1>1, <1>3, <2>2, <2>3, <2>4, <3>1 DEF FlowOf
    <3>6. ASSUME NEW n, n = new PROVE FlowOf(n)'
      BY <3>6, <1>1, <1>2, <1>3, <1>5, <1>6, <2>2, <2>3, <2>4 DEF FlowOf
    <3> QED
      BY <1>3, <3>3, <3>4, <3>5, <3>6
  <2>6. ObjectsInv'
    BY <1>1, <1>3, <2>2, <2>3, SignalFacts DEF SignalInv, ObjectsInv
  <2> QED
    BY <1>4, <2>5, <2>6 DEF SignalsKept
<1> QED
  BY <1>7, <1>8

LEMMA RemoveGlobalSignals ==
  ASSUME OneCreate, SignalInv, NEW m \in Names, RemoveGlobal(m)
  PROVE  SignalsKept'
<1>1. /\ UNCHANGED <<up, asked, resource, initial, registry, creates, cache, seen, done, objects>>
      /\ globals' = [globals EXCEPT ![m].alive = FALSE]
      /\ globals[m].alive
  BY DEF RemoveGlobal, AliveNames, registryVars
<1>2. /\ Names' = Names /\ m \in Nat
      /\ \A n \in Names : n # m => globals'[n] = globals[n]
      /\ ~globals'[m].alive /\ globals'[m].interface = globals[m].interface
  <2>1. globals \in Seq(Global) /\ m \in DOMAIN globals /\ globals[m] \in Global
    BY SignalFacts DEF Names
  <2>2. globals'[m] = [globals[m] EXCEPT !.alive = FALSE]
    BY <1>1, <2>1
  <2> QED
    BY <1>1, <2>1, <2>2 DEF Global, Names
<1>3. UnservedInv' /\ SignalsMatchCache'
  <2>1. events' = events \/ resource # 0
    BY DEF RemoveGlobal
  <2> QED
    BY <1>1, <2>1 DEF SignalInv, UnservedInv, SignalsMatchCache
<1>4. \A n : Cached(n)' <=> Cached(n)
  BY <1>1 DEF Cached
<1>5. registry # 0 => ~IsPending("remove", m)
  BY <1>1 DEF SignalInv, FlowInv, FlowOf
<1>6. CASE resource = 0
  <2>1. events' = events
    BY <1>6 DEF RemoveGlobal
  <2>2. \A t, n : IsPending(t, n)' <=> IsPending(t, n)
    BY <2>1 DEF IsPending
  <2>3. registry # 0 => events = <<>> /\ cache = <<>> /\ objects = <<>>
    BY <1>6 DEF SignalInv, UnservedInv, RemoveGlobal
  <2>4. FlowInv'
    <3> SUFFICES ASSUME registry # 0 PROVE OrderInv' /\ SyncInv' /\ \A n \in Names' : FlowOf(n)'
      BY <1>1 DEF FlowInv
    <3>1. OrderInv /\ SyncInv /\ \A n \in Names : FlowOf(n)
      BY DEF SignalInv, FlowInv
    <3>2. OrderInv' /\ SyncInv'
      BY <1>1, <2>1, <3>1 DEF OrderInv, SyncInv, SyncPending, IsPending
    <3>3. \A n : ~IsPending("announce", n) /\ ~IsPending("remove", n) /\ ~Cached(n)
      BY <2>3 DEF IsPending, Cached
    <3> QED
      BY <1>1, <1>4, <1>6, <2>2, <3>2, <3>3 DEF FlowOf
  <2>5. ObjectsInv'
    <3>1. CASE registry # 0
      BY <1>1, <2>3, <3>1 DEF ObjectsInv
    <3>2. CASE registry = 0
      BY <1>1, <1>2, <3>2, SignalFacts DEF SignalInv, ObjectsInv
    <3> QED
      BY <3>1, <3>2
  <2> QED
    BY <1>3, <2>4, <2>5 DEF SignalsKept
<1>7. CASE resource # 0
  <2> DEFINE e == [type |-> "remove", reg |-> resource, name |-> m]
  <2>1. events' = Append(events, e) /\ resource = 1
    BY <1>7, SignalFacts DEF RemoveGlobal
  <2>2. e \in Event /\ e.type = "remove" /\ e.name = m /\ e.reg = 1
    BY <1>2, <2>1 DEF Event
  <2> HIDE DEF e
  <2>3. /\ \A t, n : IsPending(t, n)' <=> IsPending(t, n) \/ (e.type = t /\ e.name = n)
        /\ SyncPending' <=> SyncPending
    BY <2>1, <2>2, SendingEvent, SignalFacts
  <2>4. FlowInv'
    <3> SUFFICES ASSUME registry # 0 PROVE OrderInv' /\ SyncInv' /\ \A n \in Names' : FlowOf(n)'
      BY <1>1 DEF FlowInv
    <3>1. OrderInv /\ SyncInv /\ \A n \in Names : FlowOf(n)
      BY DEF SignalInv, FlowInv
    <3>2. OrderInv'
      BY <1>1, <1>5, <2>1, <2>2, <3>1, OrderedWhenSent, SignalFacts
    <3>3. SyncInv'
      BY <1>1, <2>2, <2>3, <3>1 DEF SyncInv
    <3>4. ASSUME NEW n \in Names PROVE FlowOf(n)'
      BY <1>1, <1>2, <1>4, <2>2, <2>3, <3>1 DEF FlowOf
    <3> QED
      BY <1>2, <3>2, <3>3, <3>4
  <2>5. ObjectsInv'
    <3> SUFFICES ASSUME NEW k \in DOMAIN objects, up, objects[k].phase = "bound"
                 PROVE  /\ objects[k].removed <= 1
                        /\ objects[k].removed = 1 => ~globals'[objects[k].name].alive
                        /\ registry # 0 =>
                             /\ ~IsPending("announce", objects[k].name)'
                             /\ IsPending("remove", objects[k].name)' => objects[k].removed = 0
                             /\ ~globals'[objects[k].name].alive /\ objects[k].removed = 0 =>
                                  IsPending("remove", objects[k].name)'
      BY <1>1 DEF ObjectsInv
    <3> DEFINE o == objects[k]
    <3>1. /\ o.removed <= 1
          /\ o.removed = 1 => ~globals[o.name].alive
          /\ registry # 0 =>
               /\ ~IsPending("announce", o.name)
               /\ IsPending("remove", o.name) => o.removed = 0
               /\ ~globals[o.name].alive /\ o.removed = 0 => IsPending("remove", o.name)
          /\ o.name \in Names /\ o.removed \in Nat
      <4>1. ObjectsInv /\ o.name \in Names /\ o \in Object
        BY SignalFacts DEF SignalInv
      <4> QED
        BY <4>1 DEF ObjectsInv, Object
    <3>2. PICK n : n = o.name
      OBVIOUS
    <3>3. PICK r : r = o.removed
      OBVIOUS
    <3>4. CASE n = m
      BY <1>1, <1>2, <2>2, <2>3, <3>1, <3>2, <3>3, <3>4
    <3>5. CASE n # m
      BY <1>1, <1>2, <2>2, <2>3, <3>1, <3>2, <3>3, <3>5
    <3> QED
      BY <3>4, <3>5
  <2> QED
    BY <1>3, <2>4, <2>5 DEF SignalsKept
<1> QED
  BY <1>6, <1>7

\* The order in which a server announces its globals has all of them.
LEMMA OrdersFacts ==
  ASSUME globals \in Seq(Global), NEW names \in Orders
  PROVE  /\ Cardinality(AliveNames) \in Nat
         /\ DOMAIN names = 1 .. Cardinality(AliveNames)
         /\ \A k \in DOMAIN names : names[k] \in AliveNames
         /\ \A j, k \in DOMAIN names : names[j] = names[k] => j = k
         /\ \A n \in AliveNames : \E k \in DOMAIN names : names[k] = n
<1> DEFINE m == Cardinality(AliveNames)
<1>1. IsFiniteSet(AliveNames) /\ m \in Nat
  <2>1. IsFiniteSet(Names) /\ AliveNames \in SUBSET Names
    BY FS_Interval DEF Names, AliveNames
  <2> QED
    BY <2>1, FS_Subset, FS_CardinalityType
<1>2. /\ names \in [1 .. m -> AliveNames]
      /\ \A j, k \in DOMAIN names : names[j] = names[k] => j = k
  BY DEF Orders
<1>3. names \in Injection(1 .. m, AliveNames)
  BY <1>2 DEF Injection, IsInjective
<1>4. Cardinality(1 .. m) = m
  BY <1>1, FS_Interval
<1>5. names \in Surjection(1 .. m, AliveNames)
  BY <1>1, <1>3, <1>4, FS_Injection
<1> QED
  BY <1>1, <1>2, <1>5 DEF Surjection

LEMMA ServeGetRegistrySignals ==
  ASSUME OneCreate, SignalInv, ServeGetRegistry
  PROVE  SignalsKept'
<1> PICK names \in Orders :
       events' = (events \o [k \in DOMAIN names |->
                               [type |-> "announce", reg |-> asked, name |-> names[k]]])
                   \o <<[type |-> "sync", reg |-> asked, name |-> 0]>>
  BY DEF ServeGetRegistry
<1> DEFINE m == Cardinality(AliveNames)
           answer == [k \in DOMAIN names |->
                        [type |-> "announce", reg |-> asked, name |-> names[k]]]
           sync == [type |-> "sync", reg |-> asked, name |-> 0]
<1>1. /\ UNCHANGED <<up, globals, registry, creates, cache, seen, done, objects>>
      /\ asked # 0 /\ resource' = asked /\ asked' = 0 /\ initial' = AliveNames
      /\ Names' = Names
  BY DEF ServeGetRegistry, registryVars, Names
<1>2. /\ resource = 0 /\ events = <<>> /\ initial = {} /\ cache = <<>> /\ seen = {}
      /\ objects = <<>> /\ ~done /\ asked = 1 /\ creates # 0
  <2>1. creates # 0
    <3>1. asked \in 0 .. creates
      BY DEF SignalInv, BindInv, TypeInv, TypeOK
    <3> QED
      BY <1>1, <3>1, SignalFacts
  <2> QED
    BY <1>1, <2>1, SignalFacts DEF SignalInv, UnservedInv
<1>3. /\ m \in Nat /\ DOMAIN names = 1 .. m
      /\ \A k \in DOMAIN names : names[k] \in AliveNames
      /\ \A j, k \in DOMAIN names : names[j] = names[k] => j = k
      /\ \A n \in AliveNames : \E k \in DOMAIN names : names[k] = n
  BY OrdersFacts, SignalFacts
<1> HIDE DEF m
<1>4. /\ DOMAIN events' = 1 .. m + 1
      /\ \A k \in 1 .. m : /\ events'[k].type = "announce" /\ events'[k].reg = 1
                           /\ events'[k].name = names[k]
      /\ events'[m + 1].type = "sync" /\ events'[m + 1].reg = 1
  <2> DEFINE E == [type : {"announce", "sync"}, reg : {1}, name : AliveNames \union {0}]
  <2>1. /\ answer \in [1 .. m -> E]
        /\ \A k \in 1 .. m : /\ answer[k].type = "announce" /\ answer[k].reg = 1
                             /\ answer[k].name = names[k]
    BY <1>2, <1>3
  <2>2. sync \in E /\ sync.type = "sync" /\ sync.reg = 1
    BY <1>2
  <2>3. events' = (<<>> \o answer) \o <<sync>>
    BY <1>2
  <2> HIDE DEF answer, sync, E
  <2>4. answer \in Seq(E) /\ Len(answer) = m
    BY <1>3, <2>1
  <2>5. events' = Append(answer, sync)
    <3>1. <<>> \o answer = answer
      BY <2>4
    <3>2. answer \o <<sync>> = Append(answer, sync)
      BY <2>2, <2>4
    <3> QED
      BY <2>3, <3>1, <3>2
  <2>6. /\ DOMAIN events' = 1 .. m + 1 /\ events'[m + 1] = sync
        /\ \A k \in 1 .. m : events'[k] = answer[k]
    <3>1. /\ DOMAIN Append(answer, sync) = 1 .. m + 1 /\ Append(answer, sync)[m + 1] = sync
          /\ \A k \in 1 .. m : Append(answer, sync)[k] = answer[k]
      BY <1>3, <2>2, <2>4
    <3> QED
      BY <2>5, <3>1
  <2> QED
    BY <2>1, <2>2, <2>6
<1> HIDE DEF answer, sync
<1>5. /\ \A n : IsPending("announce", n)' <=> n \in AliveNames
      /\ \A n : ~IsPending("remove", n)'
      /\ SyncPending'
  <2>1. \A k \in DOMAIN events' : k \in 1 .. m \/ k = m + 1
    BY <1>3, <1>4
  <2>2. m + 1 \in DOMAIN events' /\ \A k \in 1 .. m : k \in DOMAIN events'
    BY <1>3, <1>4
  <2>3. ASSUME NEW n, IsPending("announce", n)' PROVE n \in AliveNames
    BY <1>3, <1>4, <2>1, <2>3 DEF IsPending
  <2>4. ASSUME NEW n, n \in AliveNames PROVE IsPending("announce", n)'
    <3>1. PICK k \in 1 .. m : names[k] = n
      BY <1>3, <2>4
    <3> QED
      BY <1>4, <2>2, <3>1 DEF IsPending
  <2>5. ASSUME NEW n PROVE ~IsPending("remove", n)'
    BY <1>4, <2>1 DEF IsPending
  <2>6. SyncPending'
    BY <1>4, <2>2 DEF SyncPending
  <2> QED
    BY <2>3, <2>4, <2>5, <2>6
<1>6. OrderInv'
  <2> SUFFICES ASSUME NEW j \in DOMAIN events', NEW k \in DOMAIN events'
               PROVE  /\ events'[j].reg = 1
                      /\ /\ events'[j].type = events'[k].type
                         /\ events'[j].type = "sync" \/ events'[j].name = events'[k].name
                         => j = k
                      /\ /\ events'[j].type = "announce" /\ events'[k].type = "remove"
                         /\ events'[j].name = events'[k].name
                         => j < k
                      /\ /\ events'[j].type = "announce" /\ events'[j].name \in initial'
                         /\ events'[k].type = "sync"
                         => j < k
    BY DEF OrderInv
  <2>1. j \in 1 .. m \/ j = m + 1
    BY <1>3, <1>4
  <2>2. k \in 1 .. m \/ k = m + 1
    BY <1>3, <1>4
  <2>3. j \in 1 .. m /\ k = m + 1 => j < k
    BY <1>3
  <2> QED
    BY <1>3, <1>4, <2>1, <2>2, <2>3
<1>7. UnservedInv' /\ SignalsMatchCache' /\ ObjectsInv'
  <2>1. up /\ up'
    BY DEF ServeGetRegistry
  <2> QED
    BY <1>1, <1>2, <2>1 DEF UnservedInv, SignalInv, SignalsMatchCache, ObjectsInv
<1>8. FlowInv'
  <2>1. SyncInv'
    BY <1>1, <1>2, <1>5 DEF SyncInv
  <2>2. ASSUME NEW n \in Names PROVE FlowOf(n)'
    <3>1. n \in AliveNames <=> globals[n].alive
      BY DEF AliveNames
    <3>2. ~Cached(n)'
      BY <1>1, <1>2 DEF Cached
    <3> QED
      BY <1>1, <1>5, <3>1, <3>2 DEF FlowOf
  <2> QED
    BY <1>1, <1>6, <2>1, <2>2 DEF FlowInv
<1> QED
  BY <1>7, <1>8 DEF SignalsKept

LEMMA ConnectionSignals ==
  ASSUME OneCreate, SignalInv, Connect \/ ConnectionDies
  PROVE  SignalsKept'
<1>1. CASE Connect
  <2>1. /\ UNCHANGED <<globals, asked, resource, initial, events, creates, registry, cache,
                       seen, done, objects>>
        /\ up' /\ registry = 0
        /\ \A k \in DOMAIN objects : objects[k].phase # "bound"
    BY <1>1 DEF Connect, registryVars, SignalInv, BindInv, LifeInv
  <2>2. UnservedInv' /\ SignalsMatchCache' /\ FlowInv'
    BY <2>1 DEF SignalInv, UnservedInv, SignalsMatchCache, FlowInv
  <2>3. ObjectsInv'
    BY <2>1 DEF ObjectsInv
  <2> QED
    BY <2>2, <2>3 DEF SignalsKept
<1>2. CASE ConnectionDies
  <2>1. /\ UNCHANGED <<creates, cache, seen, done>>
        /\ ~up' /\ asked' = 0 /\ resource' = 0 /\ initial' = {} /\ events' = <<>>
        /\ globals' = <<>>
    BY <1>2 DEF ConnectionDies
  <2>2. objects = <<>> => objects' = <<>>
    BY <1>2 DEF ConnectionDies, Destroyed, ObjectsDestroyed, ObjectsDangling
  <2>3. FlowInv'
    <3>1. DOMAIN events' = {} /\ Names' = {}
      BY <2>1 DEF Names
    <3> QED
      BY <2>1, <3>1 DEF FlowInv, OrderInv, SyncInv, SyncPending
  <2>4. UnservedInv' /\ SignalsMatchCache' /\ ObjectsInv'
    BY <2>1, <2>2 DEF SignalInv, UnservedInv, SignalsMatchCache, ObjectsInv
  <2> QED
    BY <2>3, <2>4 DEF SignalsKept
<1> QED
  BY <1>1, <1>2

LEMMA DroppedSignals ==
  ASSUME OneCreate, SignalInv, Dropped
  PROVE  SignalsKept'
<1>1. /\ UNCHANGED <<up, globals, asked, resource, initial, creates, registry, cache, seen,
                     done, objects>>
      /\ events # <<>> /\ events' = Tail(events)
      /\ registry = 0 \/ Head(events).reg # registry
  BY DEF Dropped, serverVars, registryVars
<1>2. registry = 0
  <2> SUFFICES ASSUME registry # 0 PROVE FALSE
    OBVIOUS
  <2>1. registry = 1 /\ events \in Seq(Event)
    BY SignalFacts
  <2>2. OrderInv
    BY DEF SignalInv, FlowInv
  <2>3. 1 \in DOMAIN events /\ Head(events) = events[1]
    BY <1>1, <2>1
  <2> QED
    BY <1>1, <2>1, <2>2, <2>3 DEF OrderInv
<1>3. ~(creates = 0 \/ asked # 0)
  BY <1>1 DEF SignalInv, UnservedInv
<1> QED
  BY <1>1, <1>2, <1>3 DEF SignalInv, UnservedInv, SignalsMatchCache, FlowInv, ObjectsInv, SignalsKept

\* What every handler finds.
LEMMA Handling ==
  ASSUME OneCreate, SignalInv, NEW t, Dispatch(t), UNCHANGED initial
  PROVE  /\ registry = 1 /\ up /\ creates # 0 /\ asked = 0 /\ resource # 0
         /\ Head(events).type = t /\ Head(events).name \in Nat
         /\ t # "sync" => Head(events).name \in Names
         /\ SyncInv /\ \A n \in Names : FlowOf(n)
         /\ OrderInv'
         /\ \A u, n : u # "sync" =>
              (IsPending(u, n)' <=> IsPending(u, n) /\ ~(t = u /\ Head(events).name = n))
         /\ SyncPending' <=> SyncPending /\ t # "sync"
         /\ IsPending(t, Head(events).name)
         /\ t = "sync" => SyncPending
         /\ t = "remove" => ~IsPending("announce", Head(events).name)
         /\ t = "sync" => \A n \in initial : ~IsPending("announce", n)
<1>1. /\ events # <<>> /\ events' = Tail(events) /\ Head(events).type = t /\ registry # 0
      /\ events \in Seq(Event)
  BY SignalFacts DEF Dispatch, Takes
<1>2. OrderInv /\ SyncInv /\ \A n \in Names : FlowOf(n)
  BY <1>1 DEF SignalInv, FlowInv
<1>3. creates # 0 /\ asked = 0 /\ resource # 0
  BY <1>1, SignalFacts DEF SignalInv, UnservedInv
<1>4. IsPending(t, Head(events).name)
  BY <1>1, <1>2, TakingEvent
<1>5. Head(events).name \in Nat
  <2>1. Head(events) \in Event
    BY <1>1
  <2> QED
    BY <2>1 DEF Event
<1>6. t # "sync" => Head(events).name \in Names
  BY <1>4, SignalFacts
<1> QED
  BY <1>1, <1>2, <1>3, <1>4, <1>5, <1>6, SignalFacts, TakingEvent

LEMMA handleAnnounceSignals ==
  ASSUME OneCreate, SignalInv, handleAnnounce
  PROVE  SignalsKept'
<1> DEFINE n == Head(events).name
           i == globals[n].interface
           e == [interface |-> i, name |-> n, version |-> ServerVersion[i]]
<1>1. /\ UNCHANGED <<up, globals, asked, resource, initial, creates, registry, done, objects>>
      /\ Dispatch("announce") /\ Names' = Names
  BY DEF handleAnnounce, serverVars, Names
<1>2. /\ registry = 1 /\ up /\ creates # 0 /\ asked = 0 /\ resource # 0 /\ n \in Names
      /\ SyncInv /\ (\A k \in Names : FlowOf(k)) /\ OrderInv'
      /\ \A u, k : u # "sync" => (IsPending(u, k)' <=> IsPending(u, k) /\ ~(u = "announce" /\ n = k))
      /\ SyncPending' <=> SyncPending
      /\ IsPending("announce", n)
  BY <1>1, Handling
<1>3. \/ ~Known(i) /\ UNCHANGED <<cache, seen>>
      \/ Known(i) /\ cache' = Append(cache, e) /\ seen' = seen \union {<<i, n>>}
  BY DEF handleAnnounce
<1>4. e.name = n /\ e.interface = i
  OBVIOUS
<1> HIDE DEF e
<1>5. ~Cached(n)
  BY <1>2 DEF FlowOf
<1>6. Known(i) => /\ DOMAIN cache' = DOMAIN cache \union {Len(cache) + 1}
                  /\ Len(cache) + 1 \notin DOMAIN cache
                  /\ \A k \in DOMAIN cache : cache'[k] = cache[k]
                  /\ cache'[Len(cache) + 1] = e
  <2>1. cache \in Seq(Entry)
    BY SignalFacts
  <2> QED
    BY <1>3, <2>1
<1> HIDE DEF n, i
<1>7. \A k : Cached(k)' <=> Cached(k) \/ (Known(i) /\ k = n)
  BY <1>3, <1>4, <1>6 DEF Cached
<1>8. SignalsMatchCache'
  <2>1. SignalsMatchCache
    BY DEF SignalInv
  <2>2. CASE ~Known(i)
    BY <1>3, <2>1, <2>2 DEF SignalsMatchCache
  <2>3. CASE Known(i)
    <3>1. seen' = {<<cache'[k].interface, cache'[k].name>> : k \in DOMAIN cache'}
      BY <1>3, <1>4, <1>6, <2>1, <2>3 DEF SignalsMatchCache
    <3>2. \A j, k \in DOMAIN cache' : cache'[j].name = cache'[k].name => j = k
      BY <1>4, <1>5, <1>6, <2>1, <2>3 DEF SignalsMatchCache, Cached
    <3> QED
      BY <3>1, <3>2 DEF SignalsMatchCache
  <2> QED
    BY <2>2, <2>3
<1>9. FlowInv'
  <2>1. SyncInv'
    BY <1>1, <1>2 DEF SyncInv
  <2>2. ASSUME NEW k \in Names PROVE FlowOf(k)'
    <3>1. CASE k = n
      BY <1>1, <1>2, <1>7, <3>1 DEF FlowOf, Known, i
    <3>2. CASE k # n
      BY <1>1, <1>2, <1>7, <3>2 DEF FlowOf
    <3> QED
      BY <3>1, <3>2
  <2> QED
    BY <1>1, <1>2, <2>1, <2>2 DEF FlowInv
<1>10. ObjectsInv'
  <2>1. \A k \in DOMAIN objects : objects[k].phase = "bound" => objects[k].name # n
    BY <1>2 DEF SignalInv, ObjectsInv
  <2> QED
    BY <1>1, <1>2, <2>1 DEF SignalInv, ObjectsInv
<1> QED
  BY <1>1, <1>2, <1>8, <1>9, <1>10 DEF SignalsKept, UnservedInv

\* What is left when one entry goes.
LEMMA RemoveAtLeaves ==
  ASSUME NEW S, NEW s \in Seq(S), NEW k \in DOMAIN s
  PROVE  /\ DOMAIN RemoveAt(s, k) = 1 .. Len(s) - 1 /\ DOMAIN s = 1 .. Len(s) /\ Len(s) \in Nat
         /\ \A j \in DOMAIN RemoveAt(s, k) :
              RemoveAt(s, k)[j] = IF j < k THEN s[j] ELSE s[j + 1]
<1> DEFINE a == SubSeq(s, 1, k - 1)
           b == SubSeq(s, k + 1, Len(s))
<1>1. /\ a \in Seq(S) /\ Len(a) = k - 1
      /\ \A j \in 1 .. k - 1 : a[j] = s[j]
  OBVIOUS
<1>2. /\ b \in Seq(S) /\ Len(b) = Len(s) - k
      /\ \A j \in 1 .. Len(s) - k : b[j] = s[j + k]
  OBVIOUS
<1>3. k \in 1 .. Len(s) /\ Len(s) \in Nat /\ DOMAIN s = 1 .. Len(s)
  OBVIOUS
<1> HIDE DEF a, b
<1> DEFINE c == a \o b
<1>4. /\ DOMAIN c = 1 .. Len(s) - 1
      /\ \A j \in DOMAIN c : IF j < k THEN c[j] = a[j] ELSE c[j] = b[j - (k - 1)]
  <2>1. /\ DOMAIN c = 1 .. Len(a) + Len(b)
        /\ \A j \in DOMAIN c : IF j <= Len(a) THEN c[j] = a[j] ELSE c[j] = b[j - Len(a)]
    <3>1. a \in Seq(S) /\ b \in Seq(S)
      BY <1>1, <1>2
    <3>2. DOMAIN (a \o b) = 1 .. Len(a) + Len(b) /\ Len(a) \in Nat
      BY <3>1
    <3>3. \A j \in DOMAIN (a \o b) : IF j \in 1 .. Len(a) THEN (a \o b)[j] = a[j]
                                     ELSE (a \o b)[j] = b[j - Len(a)]
      BY <3>1
    <3> QED
      BY <3>2, <3>3
  <2> HIDE DEF c
  <2>2. Len(a) + Len(b) = Len(s) - 1
    BY <1>1, <1>2, <1>3
  <2> QED
    BY <1>1, <1>3, <2>1, <2>2
<1> HIDE DEF c
<1>5. ASSUME NEW j \in DOMAIN c
      PROVE  c[j] = IF j < k THEN s[j] ELSE s[j + 1]
  <2>1. CASE j < k
    BY <1>1, <1>3, <1>4, <2>1
  <2>2. CASE ~(j < k)
    <3>1. j - (k - 1) \in 1 .. Len(s) - k /\ (j - (k - 1)) + k = j + 1
      BY <1>3, <1>4, <2>2
    <3>2. c[j] = b[j - (k - 1)]
      BY <1>4, <2>2
    <3>3. b[j - (k - 1)] = s[(j - (k - 1)) + k]
      BY <1>2, <3>1
    <3> QED
      BY <2>2, <3>1, <3>2, <3>3
  <2> QED
    BY <2>1, <2>2
<1> QED
  BY <1>3, <1>4, <1>5 DEF RemoveAt, a, b, c

\* With one entry for a name, it is the one that is found.
LEMMA CacheWithout ==
  ASSUME cache \in Seq(Entry), SignalsMatchCache, NEW k \in DOMAIN cache,
         cache' = RemoveAt(cache, k),
         seen' = seen \ {<<cache[k].interface, cache[k].name>>}
  PROVE  /\ SignalsMatchCache'
         /\ \A n : Cached(n)' <=> Cached(n) /\ n # cache[k].name
<1>1. /\ DOMAIN cache' = 1 .. Len(cache) - 1 /\ DOMAIN cache = 1 .. Len(cache) /\ Len(cache) \in Nat
      /\ \A j \in DOMAIN cache' : cache'[j] = IF j < k THEN cache[j] ELSE cache[j + 1]
  BY RemoveAtLeaves
<1>2. \A j \in DOMAIN cache' :
        \E m \in DOMAIN cache : /\ m # k /\ cache'[j] = cache[m]
                                /\ m = IF j < k THEN j ELSE j + 1
  BY <1>1
<1>3. \A m \in DOMAIN cache : m # k => \E j \in DOMAIN cache' : cache'[j] = cache[m]
  <2> SUFFICES ASSUME NEW m \in DOMAIN cache, m # k
               PROVE  \E j \in DOMAIN cache' : cache'[j] = cache[m]
    OBVIOUS
  <2>1. CASE m < k
    <3>1. m \in DOMAIN cache' /\ cache'[m] = cache[m]
      BY <1>1, <2>1
    <3> QED
      BY <3>1
  <2>2. CASE m > k
    <3>1. m - 1 \in DOMAIN cache' /\ ~(m - 1 < k) /\ (m - 1) + 1 = m
      BY <1>1, <2>2
    <3>2. cache'[m - 1] = cache[(m - 1) + 1]
      BY <1>1, <3>1
    <3> QED
      BY <3>1, <3>2
  <2> QED
    BY <1>1, <2>1, <2>2
<1>4. \A j, m \in DOMAIN cache : cache[j].name = cache[m].name => j = m
  BY DEF SignalsMatchCache
<1>5. \A n : Cached(n)' <=> Cached(n) /\ n # cache[k].name
  BY <1>2, <1>3, <1>4 DEF Cached
<1>6. seen' = {<<cache'[j].interface, cache'[j].name>> : j \in DOMAIN cache'}
  <2>1. ASSUME NEW p \in seen' PROVE \E j \in DOMAIN cache' : p = <<cache'[j].interface, cache'[j].name>>
    <3>1. PICK m \in DOMAIN cache : p = <<cache[m].interface, cache[m].name>>
      BY DEF SignalsMatchCache
    <3>2. m # k
      BY <3>1
    <3> QED
      BY <1>3, <3>1, <3>2
  <2>2. ASSUME NEW j \in DOMAIN cache' PROVE <<cache'[j].interface, cache'[j].name>> \in seen'
    <3>1. PICK m \in DOMAIN cache : m # k /\ cache'[j] = cache[m]
      BY <1>2
    <3>2. cache[m].name # cache[k].name
      BY <1>4, <3>1
    <3> QED
      BY <3>1, <3>2 DEF SignalsMatchCache
  <2> QED
    BY <2>1, <2>2
<1>7. \A i, j \in DOMAIN cache' : cache'[i].name = cache'[j].name => i = j
  <2> SUFFICES ASSUME NEW i \in DOMAIN cache', NEW j \in DOMAIN cache',
                      cache'[i].name = cache'[j].name
               PROVE  i = j
    OBVIOUS
  <2>1. PICK m \in DOMAIN cache : cache'[i] = cache[m] /\ m = IF i < k THEN i ELSE i + 1
    BY <1>2
  <2>2. PICK o \in DOMAIN cache : cache'[j] = cache[o] /\ o = IF j < k THEN j ELSE j + 1
    BY <1>2
  <2>3. m = o
    BY <1>4, <2>1, <2>2
  <2> QED
    BY <1>1, <2>1, <2>2, <2>3
<1> QED
  BY <1>5, <1>6, <1>7 DEF SignalsMatchCache

LEMMA handleRemoveSignals ==
  ASSUME OneCreate, SignalInv, handleRemove
  PROVE  SignalsKept'
<1> DEFINE n == Head(events).name
<1>1. /\ UNCHANGED <<up, globals, asked, resource, initial, creates, registry, done>>
      /\ Dispatch("remove") /\ Names' = Names /\ objects' = ObjectsRemoved(n)
      /\ \/ ~Cached(n) /\ UNCHANGED <<cache, seen>>
         \/ \E k \in DOMAIN cache :
              /\ FirstNamed(k, n)
              /\ cache' = RemoveAt(cache, k)
              /\ seen' = seen \ {<<cache[k].interface, n>>}
  BY DEF handleRemove, serverVars, Names
<1>2. /\ registry = 1 /\ up /\ creates # 0 /\ asked = 0 /\ resource # 0 /\ n \in Names
      /\ SyncInv /\ (\A k \in Names : FlowOf(k)) /\ OrderInv'
      /\ \A u, k : u # "sync" => (IsPending(u, k)' <=> IsPending(u, k) /\ ~(u = "remove" /\ n = k))
      /\ SyncPending' <=> SyncPending
      /\ IsPending("remove", n) /\ ~IsPending("announce", n)
  BY <1>1, Handling
<1> HIDE DEF n
<1>3. SignalsMatchCache' /\ \A k : Cached(k)' <=> Cached(k) /\ k # n
  <2>1. SignalsMatchCache /\ cache \in Seq(Entry)
    BY SignalFacts DEF SignalInv
  <2>2. CASE ~Cached(n) /\ UNCHANGED <<cache, seen>>
    BY <2>1, <2>2 DEF SignalsMatchCache, Cached
  <2>3. ASSUME NEW k \in DOMAIN cache, FirstNamed(k, n), cache' = RemoveAt(cache, k),
               seen' = seen \ {<<cache[k].interface, n>>}
        PROVE  SignalsMatchCache' /\ \A m : Cached(m)' <=> Cached(m) /\ m # n
    <3>1. cache[k].name = n
      BY <2>3 DEF FirstNamed
    <3> QED
      BY <2>1, <2>3, <3>1, CacheWithout
  <2> QED
    BY <1>1, <2>2, <2>3
<1>4. FlowInv'
  <2>1. SyncInv'
    BY <1>1, <1>2 DEF SyncInv
  <2>2. ~globals[n].alive
    BY <1>2 DEF FlowOf
  <2>3. ASSUME NEW k \in Names PROVE FlowOf(k)'
    <3>1. CASE k = n
      BY <1>1, <1>2, <1>3, <2>2, <3>1 DEF FlowOf
    <3>2. CASE k # n
      BY <1>1, <1>2, <1>3, <3>2 DEF FlowOf
    <3> QED
      BY <3>1, <3>2
  <2> QED
    BY <1>1, <1>2, <2>1, <2>3 DEF FlowInv
<1>5. ObjectsInv'
  <2> SUFFICES ASSUME NEW k \in DOMAIN objects', objects'[k].phase = "bound",
                      NEW m, m = objects'[k].name, NEW r, r = objects'[k].removed
               PROVE  /\ r <= 1
                      /\ r = 1 => ~globals[m].alive
                      /\ ~IsPending("announce", m)'
                      /\ IsPending("remove", m)' => r = 0
                      /\ ~globals[m].alive /\ r = 0 => IsPending("remove", m)'
    BY <1>1 DEF ObjectsInv
  <2>1. k \in DOMAIN objects /\ objects[k] \in Object
    BY <1>1, SignalFacts DEF ObjectsRemoved
  <2> DEFINE o == objects[k]
  <2>2. /\ o.phase = "bound" /\ o.name = m
        /\ r = IF m = n THEN o.removed + 1 ELSE o.removed
    <3>1. o.phase = "bound" /\ o.name = m
      BY <1>1, <2>1 DEF ObjectsRemoved, Object
    <3> QED
      BY <1>1, <2>1, <3>1 DEF ObjectsRemoved, Object
  <2>3. PICK q : q = o.removed
    OBVIOUS
  <2>7. /\ q <= 1 /\ q \in Nat
        /\ q = 1 => ~globals[m].alive
        /\ ~IsPending("announce", m)
        /\ IsPending("remove", m) => q = 0
        /\ ~globals[m].alive /\ q = 0 => IsPending("remove", m)
    BY <1>2, <2>1, <2>2, <2>3 DEF SignalInv, ObjectsInv, Object
  <2>4. ~globals[n].alive
    BY <1>2 DEF FlowOf
  <2>5. CASE m = n
    BY <1>2, <2>2, <2>3, <2>4, <2>5, <2>7
  <2>6. CASE m # n
    BY <1>2, <2>2, <2>3, <2>6, <2>7
  <2> QED
    BY <2>5, <2>6
<1> QED
  BY <1>1, <1>2, <1>3, <1>4, <1>5 DEF SignalsKept, UnservedInv

LEMMA handleGlobalSyncSignals ==
  ASSUME OneCreate, SignalInv, handleGlobalSync
  PROVE  SignalsKept'
<1>1. /\ UNCHANGED <<up, globals, asked, resource, initial, creates, registry, cache, seen, objects>>
      /\ Dispatch("sync") /\ Names' = Names
  BY DEF handleGlobalSync, serverVars, Names
<1>2. /\ registry = 1 /\ up /\ creates # 0 /\ asked = 0 /\ resource # 0
      /\ SyncInv /\ (\A k \in Names : FlowOf(k)) /\ OrderInv'
      /\ \A u, k : u # "sync" => (IsPending(u, k)' <=> IsPending(u, k))
      /\ ~SyncPending'
      /\ \A n \in initial : ~IsPending("announce", n)
  BY <1>1, Handling
<1>3. \A n : Cached(n)' <=> Cached(n)
  BY <1>1 DEF Cached
<1>4. FlowInv'
  <2>1. SyncInv'
    BY <1>1, <1>2 DEF SyncInv
  <2>2. ASSUME NEW k \in Names PROVE FlowOf(k)'
    BY <1>1, <1>2, <1>3 DEF FlowOf
  <2> QED
    BY <1>1, <1>2, <2>1, <2>2 DEF FlowInv
<1>5. ObjectsInv' /\ SignalsMatchCache'
  BY <1>1, <1>2 DEF SignalInv, ObjectsInv, SignalsMatchCache
<1> QED
  BY <1>1, <1>2, <1>4, <1>5 DEF SignalsKept, UnservedInv

LEMMA CreateSignals ==
  ASSUME OneCreate, SignalInv, Create
  PROVE  SignalsKept'
<1>1. creates = 0 /\ creates' = 1 /\ asked' = 1 /\ registry' = 1 /\ ~done'
  BY SignalFacts, Constants DEF Create, OneCreate
<1>2. /\ UNCHANGED <<up, globals, resource, initial, events, cache, seen, objects>>
      /\ Names' = Names
  BY DEF Create, Names
<1>3. /\ resource = 0 /\ events = <<>> /\ initial = {} /\ cache = <<>> /\ seen = {}
      /\ objects = <<>>
  BY <1>1 DEF SignalInv, UnservedInv
<1>4. FlowInv'
  <2>1. OrderInv' /\ SyncInv'
    BY <1>1, <1>2, <1>3 DEF OrderInv, SyncInv
  <2>2. ASSUME NEW n \in Names PROVE FlowOf(n)'
    <3>1. ~IsPending("announce", n)' /\ ~IsPending("remove", n)' /\ ~Cached(n)'
      BY <1>2, <1>3 DEF IsPending, Cached
    <3> QED
      BY <1>2, <1>3, <3>1 DEF FlowOf
  <2> QED
    BY <1>2, <2>1, <2>2 DEF FlowInv
<1> QED
  BY <1>1, <1>2, <1>3, <1>4 DEF SignalsKept, UnservedInv, ObjectsInv, SignalsMatchCache

LEMMA ReleaseSignals ==
  ASSUME OneCreate, SignalInv, Release
  PROVE  SignalsKept'
BY DEF Release, SignalInv, SignalsKept, UnservedInv, FlowInv, ObjectsInv, SignalsMatchCache

LEMMA DeleteSignals ==
  ASSUME OneCreate, SignalInv, Delete
  PROVE  SignalsKept'
BY DEF Delete, SignalInv, SignalsKept, UnservedInv, FlowInv, ObjectsInv, SignalsMatchCache

LEMMA DestroySignals ==
  ASSUME OneCreate, SignalInv, Destroy
  PROVE  SignalsKept'
<1>1. /\ UNCHANGED <<up, asked, resource, initial, events, creates, cache, seen, done>>
      /\ ~up /\ registry' = 0 /\ (objects = <<>> => objects' = <<>>)
  BY DEF Destroy, Destroyed, serverVars, ObjectsDestroyed
<1> QED
  BY <1>1 DEF SignalInv, SignalsKept, UnservedInv, FlowInv, ObjectsInv, SignalsMatchCache

LEMMA CreateObjectSignals ==
  ASSUME OneCreate, SignalInv, NEW i \in Interfaces, NEW n \in 1 .. MaxGlobals,
         NEW v \in Versions, CreateObject(i, n, v)
  PROVE  SignalsKept'
<1> DEFINE new == [interface |-> i, name |-> n, version |-> BoundVersion(i, v),
                   phase |-> "bound", removed |-> 0]
<1>1. /\ UNCHANGED <<up, globals, asked, resource, initial, events, creates, registry, cache,
                     seen, done>>
      /\ registry # 0 /\ objects' = Append(objects, new) /\ Names' = Names
      /\ new.name = n /\ new.removed = 0
  BY DEF CreateObject, serverVars, registryVars, Names
<1> HIDE DEF new
<1>2. Cached(n) /\ n \in Names
  <2>1. PICK k \in DOMAIN cache : cache[k].name = n
    BY DEF CreateObject, Bindable
  <2>2. up
    BY DEF CreateObject
  <2> QED
    BY <1>1, <2>1, <2>2, SignalFacts DEF Cached, EntryIsCurrent
<1>3. ~(creates = 0 \/ asked # 0)
  BY <1>2 DEF SignalInv, UnservedInv, Cached
<1>4. OrderInv /\ SyncInv /\ (\A k \in Names : FlowOf(k))
  BY <1>1 DEF SignalInv, FlowInv
<1>5. /\ \A u, k : IsPending(u, k)' <=> IsPending(u, k)
      /\ \A k : Cached(k)' <=> Cached(k)
      /\ SyncPending' <=> SyncPending
  BY <1>1 DEF IsPending, Cached, SyncPending
<1>6. FlowInv'
  <2>1. OrderInv' /\ SyncInv'
    BY <1>1, <1>4, <1>5 DEF OrderInv, SyncInv
  <2>2. ASSUME NEW k \in Names PROVE FlowOf(k)'
    BY <1>1, <1>4, <1>5 DEF FlowOf
  <2> QED
    BY <1>1, <2>1, <2>2 DEF FlowInv
<1>7. ObjectsInv'
  <2>1. \A m \in DOMAIN objects' :
          (m \in DOMAIN objects /\ objects'[m] = objects[m]) \/ objects'[m] = new
    <3>1. objects \in Seq(Object)
      BY SignalFacts
    <3> QED
      BY <1>1, <3>1
  <2>2. ~IsPending("announce", n) /\ (~globals[n].alive => IsPending("remove", n))
    BY <1>2, <1>4 DEF FlowOf
  <2>3. IsPending("remove", n) => ~globals[n].alive
    BY <1>2, <1>4 DEF FlowOf
  <2> QED
    BY <1>1, <1>5, <2>1, <2>2 DEF ObjectsInv, SignalInv
<1>8. UnservedInv' /\ SignalsMatchCache'
  BY <1>1, <1>3 DEF SignalInv, UnservedInv, SignalsMatchCache
<1> QED
  BY <1>6, <1>7, <1>8 DEF SignalsKept

LEMMA DeleteObjectSignals ==
  ASSUME OneCreate, SignalInv, NEW k \in DOMAIN objects, DeleteObject(k)
  PROVE  SignalsKept'
<1>1. /\ UNCHANGED <<up, globals, asked, resource, initial, events, creates, registry, cache,
                     seen, done>>
      /\ objects' = [objects EXCEPT ![k].phase = "deleted"]
  BY DEF DeleteObject, serverVars, registryVars
<1>2. objects \in Seq(Object) /\ objects[k] \in Object
  BY SignalFacts
<1>3. objects'[k].phase = "deleted"
  BY <1>1, <1>2 DEF Object
<1>4. DOMAIN objects' = DOMAIN objects
        /\ \A m \in DOMAIN objects : m # k => objects'[m] = objects[m]
  BY <1>1, <1>2
<1>5. objects # <<>>
  BY <1>2
<1>6. /\ \A u, n : IsPending(u, n)' <=> IsPending(u, n)
      /\ \A n : Cached(n)' <=> Cached(n)
      /\ (SyncPending' <=> SyncPending) /\ Names' = Names
  BY <1>1 DEF IsPending, Cached, SyncPending, Names
<1>7. FlowInv'
  <2> SUFFICES ASSUME registry # 0 PROVE OrderInv' /\ SyncInv' /\ \A n \in Names : FlowOf(n)'
    BY <1>1, <1>6 DEF FlowInv
  <2>1. OrderInv /\ SyncInv /\ (\A n \in Names : FlowOf(n))
    BY DEF SignalInv, FlowInv
  <2>2. OrderInv' /\ SyncInv'
    BY <1>1, <1>6, <2>1 DEF OrderInv, SyncInv
  <2>3. ASSUME NEW n \in Names PROVE FlowOf(n)'
    BY <1>1, <1>6, <2>1 DEF FlowOf
  <2> QED
    BY <2>2, <2>3
<1>8. ObjectsInv'
  BY <1>1, <1>3, <1>4, <1>6 DEF SignalInv, ObjectsInv
<1>9. UnservedInv' /\ SignalsMatchCache'
  BY <1>1, <1>5 DEF SignalInv, UnservedInv, SignalsMatchCache
<1> QED
  BY <1>7, <1>8, <1>9 DEF SignalsKept

LEMMA SignalInvNext ==
  ASSUME OneCreate, SignalInv, [Next]_vars
  PROVE  SignalInv'
<1>1. BindInv'
  BY BindInvNext, TypeInvNext, LifeInvNext DEF SignalInv, BindInv
<1>2. SignalsKept'
  <2>1. CASE ServerNext
    BY <2>1, AddGlobalSignals, RemoveGlobalSignals, ServeGetRegistrySignals, ConnectionSignals
    DEF ServerNext
  <2>2. CASE DispatchEvent
    BY <2>2, DroppedSignals, handleAnnounceSignals, handleRemoveSignals, handleGlobalSyncSignals
    DEF DispatchEvent
  <2>3. CASE UserNext
    BY <2>3, CreateSignals, ReleaseSignals, DeleteSignals, DestroySignals, CreateObjectSignals, DeleteObjectSignals DEF UserNext
  <2>4. CASE UNCHANGED vars
    BY <2>4 DEF vars, serverVars, registryVars, SignalInv, SignalsKept, UnservedInv, FlowInv,
                OrderInv, SyncInv, FlowOf, IsPending, SyncPending, Cached, Names, ObjectsInv,
                SignalsMatchCache
  <2> QED
    BY <2>1, <2>2, <2>3, <2>4 DEF Next
<1> QED
  BY <1>1, <1>2 DEF SignalInv, SignalsKept

LEMMA SignalInvAlways ==
  ASSUME OneCreate
  PROVE  Spec => []SignalInv
<1>1. Init => SignalInv
  <2> SUFFICES ASSUME Init PROVE SignalInv
    OBVIOUS
  <2>1. BindInv
    BY InitTyped DEF Init, BindInv, LifeInv, NoProxyOutlivesConnection, CacheInv, BindsAreLegal
  <2> QED
    BY <2>1 DEF Init, SignalInv, UnservedInv, FlowInv, ObjectsInv, SignalsMatchCache
<1>2. SignalInv /\ [Next]_vars => SignalInv'
  BY SignalInvNext
<1> QED
  BY <1>1, <1>2, PTL DEF Spec

(***************************************************************************)
(* With a registry that is created once both views of its user stay true:  *)
(* the signals tell what the cache holds, one entry for a name, and every  *)
(* object emits removed() once, after its global is gone and never before  *)
(* (Registry::Private::handleAnnounce and handleRemove, and the slots on   *)
(* interfaceRemoved).                                                      *)
(***************************************************************************)
THEOREM SignalsStayTrue ==
  ASSUME OneCreate
  PROVE  Spec => []SignalsAreTrue
<1>1. SignalInv => SignalsAreTrue
  <2> SUFFICES ASSUME SignalInv PROVE SignalsAreTrue
    OBVIOUS
  <2>1. RemovedWithGlobal
    <3> SUFFICES ASSUME NEW k \in DOMAIN objects, up, objects[k].phase = "bound"
                 PROVE  LET o == objects[k]
                            gone == o.name \in Names /\ ~globals[o.name].alive
                        IN  /\ o.removed <= 1
                            /\ o.removed = 1 => gone
                            /\ gone /\ events = <<>> /\ registry # 0 => o.removed = 1
      BY DEF RemovedWithGlobal
    <3>1. objects[k] \in Object /\ objects[k].name \in Names
      BY SignalFacts
    <3>2. events = <<>> => ~IsPending("remove", objects[k].name)
      BY DEF IsPending
    <3>3. objects[k].removed \in Nat
      BY <3>1 DEF Object
    <3> QED
      BY <3>1, <3>2, <3>3 DEF SignalInv, ObjectsInv
  <2> QED
    BY <2>1 DEF SignalInv, SignalsAreTrue
<1> QED
  BY <1>1, SignalInvAlways, PTL

(***************************************************************************)
(* interfacesAnnounced() does not come early: when it does, every known    *)
(* global the server had at the start and still has was announced to the   *)
(* user (the sync request that setup() sends behind get_registry).         *)
(***************************************************************************)
THEOREM DoneMeansAll ==
  ASSUME OneCreate
  PROVE  Spec => []DoneMeansAllAnnounced
<1>1. SignalInv => DoneMeansAllAnnounced
  <2> SUFFICES ASSUME SignalInv, done, registry # 0, NEW n \in initial \intersect AliveNames,
                      Known(globals[n].interface)
               PROVE  <<globals[n].interface, n>> \in seen
    BY DEF DoneMeansAllAnnounced
  <2>1. up /\ resource # 0
    BY DEF SignalInv, UnservedInv
  <2>2. n \in Names /\ globals[n].alive /\ FlowOf(n) /\ SyncInv
    BY DEF AliveNames, SignalInv, FlowInv
  <2>3. ~IsPending("announce", n)
    BY <2>2 DEF SyncInv
  <2>4. PICK k \in DOMAIN cache : cache[k].name = n
    BY <2>1, <2>2, <2>3 DEF FlowOf, Cached
  <2>5. cache[k].interface = globals[n].interface
    BY <2>1, <2>4, SignalFacts DEF EntryIsCurrent
  <2> QED
    BY <2>4, <2>5 DEF SignalInv, SignalsMatchCache
<1> QED
  BY <1>1, SignalInvAlways, PTL
=============================================================================
