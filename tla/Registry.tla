------------------------------ MODULE Registry ------------------------------
(***************************************************************************)
(* The Registry: the cache of the globals a server announces, the signals  *)
(* about them, and the objects that are created for them.                  *)
(*                                                                         *)
(* The server is external: it numbers its globals, announces those it has  *)
(* when it serves get_registry, followed by the answer to the sync request *)
(* that comes with it, and keeps the registry up to date.  Events reach    *)
(* the client in order.  A new connection is to a server that numbers its  *)
(* globals from the start.  ConnectionThread is where connectionDied()     *)
(* comes from; here the slots on it run with it.                           *)
(***************************************************************************)
EXTENDS Naturals, Sequences, FiniteSets

CONSTANTS
  Interfaces,      \* interfaces of globals
  Fixes,           \* wl_fixes, which the registry binds for itself
  ClientVersion,   \* maxVersion in s_interfaces; 0 for an unknown interface
  ServerVersion,   \* the version in which servers announce an interface
  MaxGlobals,      \* bound: globals of one server
  MaxCreates,      \* bound: calls of Registry::create()
  MaxObjects       \* bound: objects created for globals

ASSUME RegistryAssumption ==
  /\ Fixes \in Interfaces
  /\ ClientVersion \in [Interfaces -> Nat] /\ ClientVersion[Fixes] = 0
  /\ ServerVersion \in [Interfaces -> Nat \ {0}]
  /\ {MaxGlobals, MaxCreates, MaxObjects} \subseteq Nat

VARIABLES
  \* The server and the connection.
  up,         \* there is a connection
  globals,    \* the globals of the server, by name: interface, alive
  asked,      \* the number of the registry in a get_registry to serve, or 0
  resource,   \* the number of the registry the server keeps up to date, or 0
  initial,    \* the names announced when get_registry was served
  events,     \* events on their way: announce, remove and sync
  \* The Registry.
  exists,     \* the Registry is not deleted
  creates,    \* calls of create(); a registry is known by its number
  registry,   \* the wl_registry proxy, 0 is a null pointer
  callback,   \* the wl_callback proxy is set
  fixes,      \* the wl_fixes proxy is set
  connected,  \* connectionDied() is connected to destroy()
  cache,      \* m_interfaces
  \* Its user.
  seen,       \* announced less removed, by the signals of each interface
  done,       \* interfacesAnnounced() was emitted for this registry
  objects     \* what was created with create<Interface>()

serverVars == <<up, globals, asked, resource, initial>>
registryVars == <<exists, creates, registry, callback, fixes, connected, cache>>
vars == <<serverVars, events, registryVars, seen, done, objects>>

Names == DOMAIN globals
AliveNames == {n \in Names : globals[n].alive}
Known(i) == ClientVersion[i] > 0

\* The versions a user may ask for, whether there is such a version or not.
Versions == UNION {1 .. ServerVersion[i] : i \in Interfaces}

Announce(n) == [type |-> "announce", reg |-> resource, name |-> n]

\* The orders in which a server may announce the globals it has.
Orders ==
  {names \in [1 .. Cardinality(AliveNames) -> AliveNames] :
     \A j, k \in DOMAIN names : names[j] = names[k] => j = k}

Init ==
  /\ up = TRUE
  /\ globals = <<>> /\ asked = 0 /\ resource = 0 /\ initial = {} /\ events = <<>>
  /\ exists = TRUE /\ creates = 0
  /\ registry = 0 /\ callback = FALSE /\ fixes = FALSE /\ connected = FALSE
  /\ cache = <<>> /\ seen = {} /\ done = FALSE /\ objects = <<>>
-----------------------------------------------------------------------------
(* The server.                                                             *)

\* A server has at most one wl_fixes, which it never removes.
AddGlobal(i) ==
  /\ up /\ Len(globals) < MaxGlobals
  /\ i = Fixes => \A n \in Names : globals[n].interface # Fixes
  /\ globals' = Append(globals, [interface |-> i, alive |-> TRUE])
  /\ events' = IF resource = 0 THEN events ELSE Append(events, Announce(Len(globals) + 1))
  /\ UNCHANGED <<up, asked, resource, initial, registryVars, seen, done, objects>>

RemoveGlobal(n) ==
  /\ up /\ n \in AliveNames /\ globals[n].interface # Fixes
  /\ globals' = [globals EXCEPT ![n].alive = FALSE]
  /\ events' = IF resource = 0 THEN events
               ELSE Append(events, [type |-> "remove", reg |-> resource, name |-> n])
  /\ UNCHANGED <<up, asked, resource, initial, registryVars, seen, done, objects>>

\* get_registry and sync, one after the other.
ServeGetRegistry ==
  /\ up /\ asked # 0
  /\ resource' = asked /\ asked' = 0
  /\ initial' = AliveNames
  /\ \E names \in Orders :
       events' = (events \o [k \in DOMAIN names |->
                               [type |-> "announce", reg |-> asked, name |-> names[k]]])
                   \o <<[type |-> "sync", reg |-> asked, name |-> 0]>>
  /\ UNCHANGED <<up, globals, registryVars, seen, done, objects>>

\* A user that has to call destroy() itself does so before it connects again.
Connect ==
  /\ ~up /\ registry = 0
  /\ up' = TRUE
  /\ UNCHANGED <<globals, asked, resource, initial, events, registryVars, seen, done, objects>>
-----------------------------------------------------------------------------
(* The Registry: its set up and its end.                                   *)

\* create() and setup().  Between the two there is no listener, so the user calls
\* the second before it returns to the event loop.  Only create(connection), or
\* the user as registry.h suggests, connects connectionDied() to destroy():
\* create(display) does not.
Create ==
  /\ exists /\ up /\ registry = 0 /\ creates < MaxCreates
  /\ creates' = creates + 1
  /\ registry' = creates + 1
  /\ callback' = TRUE
  /\ connected' \in {connected, TRUE}
  /\ asked' = creates + 1
  /\ done' = FALSE
  /\ UNCHANGED <<up, globals, resource, initial, events, exists, fixes, cache, seen, objects>>

\* Mutant: the callback proxy is forgotten.
ReleaseKeepingCallback ==
  /\ up /\ registry # 0
  /\ registry' = 0 /\ fixes' = FALSE
  /\ resource' = IF fixes THEN 0 ELSE resource
  /\ UNCHANGED <<up, globals, asked, initial, events, exists, creates, callback, connected,
                 cache, seen, done, objects>>

\* release(): only with wl_fixes does the server learn that its resource is
\* of no use any more.  The objects stay, and so do all connections of signals.
Release ==
  /\ up /\ registry # 0
  /\ registry' = 0 /\ callback' = FALSE /\ fixes' = FALSE
  /\ resource' = IF fixes THEN 0 ELSE resource
  /\ UNCHANGED <<up, globals, asked, initial, events, exists, creates, connected, cache, seen,
                 done, objects>>

\* ~Registry: release(), and what QObject does when one is deleted: it is not
\* connected to connectionDied() any more, nor are its objects to its signals.
\* Of a Registry that is set up this needs the connection.
Delete ==
  /\ exists /\ (up \/ registry = 0)
  /\ exists' = FALSE
  /\ registry' = 0 /\ callback' = FALSE /\ fixes' = FALSE
  /\ resource' = IF fixes THEN 0 ELSE resource
  /\ connected' = FALSE
  /\ cache' = <<>> /\ seen' = {}
  /\ UNCHANGED <<up, globals, asked, initial, events, creates, done, objects>>

\* The slot T::destroy of every object on registryDestroyed().
ObjectsDestroyed ==
  [k \in DOMAIN objects |->
     IF objects[k].phase \in {"bound", "dangling"} THEN [objects[k] EXCEPT !.phase = "destroyed"]
                                                   ELSE objects[k]]

\* What nobody destroys when the connection dies has a proxy of it that dangles.
ObjectsDangling ==
  [k \in DOMAIN objects |->
     IF objects[k].phase = "bound" THEN [objects[k] EXCEPT !.phase = "dangling"]
                                   ELSE objects[k]]

\* Mutant: destroy() returns early for a Registry that is not set up.
DestroyedIfValid ==
  /\ registry' = 0 /\ callback' = FALSE /\ fixes' = FALSE
  /\ objects' = IF registry = 0 THEN ObjectsDangling ELSE ObjectsDestroyed

\* destroy(), also of a Registry that was released.
Destroyed ==
  /\ registry' = 0 /\ callback' = FALSE /\ fixes' = FALSE
  /\ objects' = ObjectsDestroyed

\* The user calls destroy() itself once the connection is gone.
Destroy ==
  /\ exists /\ ~up
  /\ Destroyed
  /\ UNCHANGED <<serverVars, events, exists, creates, connected, cache, seen, done>>

\* connectionDied(), and destroy() if it is connected.
ConnectionDies ==
  /\ up
  /\ up' = FALSE
  /\ globals' = <<>> /\ asked' = 0 /\ resource' = 0 /\ initial' = {} /\ events' = <<>>
  /\ \/ connected /\ Destroyed
     \/ ~connected /\ objects' = ObjectsDangling /\ UNCHANGED <<registry, callback, fixes>>
  /\ UNCHANGED <<exists, creates, connected, cache, seen, done>>
-----------------------------------------------------------------------------
(* The Registry: the handlers of events.  libwayland drops the events of a *)
(* proxy that is gone.                                                     *)

Takes(t) == events # <<>> /\ Head(events).type = t /\ events' = Tail(events)
Dispatch(t) == Takes(t) /\ registry # 0 /\ Head(events).reg = registry

Dropped ==
  /\ events # <<>>
  /\ registry = 0 \/ Head(events).reg # registry
  /\ events' = Tail(events)
  /\ UNCHANGED <<serverVars, registryVars, seen, done, objects>>

\* Mutant: only the first global of an interface is kept.
handleAnnounceOnce ==
  /\ Dispatch("announce")
  /\ LET n == Head(events).name
         i == globals[n].interface
     IN  /\ fixes' = (fixes \/ i = Fixes)
         /\ IF Known(i) /\ \A k \in DOMAIN cache : cache[k].interface # i
              THEN /\ cache' = Append(cache, [interface |-> i, name |-> n,
                                              version |-> ServerVersion[i]])
                   /\ seen' = seen \union {<<i, n>>}
              ELSE UNCHANGED <<cache, seen>>
  /\ UNCHANGED <<serverVars, exists, creates, registry, callback, connected, done, objects>>

\* handleAnnounce: an interface the library does not know is not kept.
handleAnnounce ==
  /\ Dispatch("announce")
  /\ LET n == Head(events).name
         g == globals[n]
         known == Known(g.interface)
     IN  /\ fixes' = (fixes \/ g.interface = Fixes)
         /\ cache' = IF known
                       THEN Append(cache, [interface |-> g.interface, name |-> n,
                                           version |-> ServerVersion[g.interface]])
                       ELSE cache
         /\ seen' = IF known THEN seen \union {<<g.interface, n>>} ELSE seen
  /\ UNCHANGED <<serverVars, exists, creates, registry, callback, connected, done, objects>>

Cached(n) == \E k \in DOMAIN cache : cache[k].name = n

\* Entry k of the cache is the first of name n.
FirstNamed(k, n) == cache[k].name = n /\ \A j \in 1 .. k - 1 : cache[j].name # n

RemoveAt(s, k) == SubSeq(s, 1, k - 1) \o SubSeq(s, k + 1, Len(s))

\* Mutant: the slot does not compare the names.
EveryObjectRemoved(n) ==
  [k \in DOMAIN objects |->
     IF objects[k].phase # "deleted" THEN [objects[k] EXCEPT !.removed = @ + 1]
                                     ELSE objects[k]]

\* interfaceRemoved(name) makes every object of this name emit removed().
ObjectsRemoved(n) ==
  [k \in DOMAIN objects |->
     IF objects[k].name = n /\ objects[k].phase # "deleted"
       THEN [objects[k] EXCEPT !.removed = @ + 1]
       ELSE objects[k]]

\* handleRemove: the first entry of the name goes, whatever it is; and the
\* objects of the name hear of it.
handleRemove ==
  /\ Dispatch("remove")
  /\ LET n == Head(events).name
     IN  /\ \/ ~Cached(n) /\ UNCHANGED <<cache, seen>>
            \/ \E k \in DOMAIN cache :
                 /\ FirstNamed(k, n)
                 /\ cache' = RemoveAt(cache, k)
                 /\ seen' = seen \ {<<cache[k].interface, n>>}
         /\ objects' = ObjectsRemoved(n)
  /\ UNCHANGED <<serverVars, exists, creates, registry, callback, fixes, connected, done>>

\* Mutant: interfacesAnnounced() is not emitted.
handleGlobalSyncQuietly ==
  /\ Dispatch("sync")
  /\ callback
  /\ callback' = FALSE
  /\ UNCHANGED <<serverVars, exists, creates, registry, fixes, connected, cache, seen, done, objects>>

\* globalSync: interfacesAnnounced(), and the callback is released.
handleGlobalSync ==
  /\ Dispatch("sync")
  /\ callback
  /\ done' = TRUE
  /\ callback' = FALSE
  /\ UNCHANGED <<serverVars, exists, creates, registry, fixes, connected, cache, seen, objects>>
-----------------------------------------------------------------------------
(* The user: binding and creating objects.                                 *)

\* Mutant: the version is passed on as it is.
VersionAsked(i, v) == v

\* The version that bind<Interface>(name, v) asks for.
BoundVersion(i, v) == IF v < ClientVersion[i] THEN v ELSE ClientVersion[i]

\* bind() finds the global in the cache; otherwise it returns null.
Bindable(i, n, v) ==
  \E k \in DOMAIN cache : /\ cache[k].interface = i
                          /\ cache[k].name = n
                          /\ cache[k].version >= BoundVersion(i, v)

\* create<Interface>(name, v).  The set up of an object with a null proxy is
\* an assertion failure, so it is called for what can be bound.
CreateObject(i, n, v) ==
  /\ up /\ registry # 0 /\ Len(objects) < MaxObjects
  /\ Bindable(i, n, v)
  /\ objects' = Append(objects, [interface |-> i, name |-> n, version |-> BoundVersion(i, v),
                                 phase |-> "bound", removed |-> 0])
  /\ UNCHANGED <<serverVars, events, registryVars, seen, done>>

\* Of an object with a proxy that dangles the user calls destroy() first.
DeleteObject(k) ==
  /\ objects[k].phase # "deleted"
  /\ objects' = [objects EXCEPT ![k].phase = "deleted"]
  /\ UNCHANGED <<serverVars, events, registryVars, seen, done>>
-----------------------------------------------------------------------------
DispatchEvent == Dropped \/ handleAnnounce \/ handleRemove \/ handleGlobalSync

ServerNext ==
  \/ \E i \in Interfaces : AddGlobal(i)
  \/ \E n \in Names : RemoveGlobal(n)
  \/ ServeGetRegistry
  \/ Connect
  \/ ConnectionDies

UserNext ==
  \/ Create
  \/ Release
  \/ Delete
  \/ Destroy
  \/ \E i \in Interfaces, n \in 1 .. MaxGlobals, v \in Versions : CreateObject(i, n, v)
  \/ \E k \in DOMAIN objects : DeleteObject(k)

Next == ServerNext \/ DispatchEvent \/ UserNext

\* The server serves requests and the client's event loop runs.
Fairness == WF_vars(DispatchEvent) /\ WF_vars(ServeGetRegistry)

Spec == Init /\ [][Next]_vars /\ Fairness
-----------------------------------------------------------------------------
Global == [interface : Interfaces, alive : BOOLEAN]
Entry == [interface : Interfaces, name : 1 .. MaxGlobals, version : Versions]
Object == [interface : Interfaces, name : 1 .. MaxGlobals, version : Nat,
           phase : {"bound", "dangling", "destroyed", "deleted"}, removed : Nat]

TypeOK ==
  /\ up \in BOOLEAN /\ callback \in BOOLEAN /\ fixes \in BOOLEAN
  /\ exists \in BOOLEAN /\ connected \in BOOLEAN /\ done \in BOOLEAN
  /\ globals \in Seq(Global) /\ initial \subseteq Names
  /\ creates \in 0 .. MaxCreates
  /\ asked \in 0 .. creates /\ resource \in 0 .. creates /\ registry \in 0 .. creates
  /\ cache \in Seq(Entry) /\ objects \in Seq(Object)
  /\ seen \subseteq Interfaces \X (1 .. MaxGlobals)
  /\ callback => registry # 0

\* A user that goes by the signals of the interfaces knows what the cache
\* holds: each entry was announced and not removed, and there is one entry
\* for a name, so that removing the first one removes it (handleRemove).
SignalsMatchCache ==
  /\ seen = {<<cache[k].interface, cache[k].name>> : k \in DOMAIN cache}
  /\ \A j, k \in DOMAIN cache : cache[j].name = cache[k].name => j = k

\* wl_registry.bind of a name that was never announced, of another interface
\* or of a version the server does not have ends the connection; a version
\* the library was not built for has events it has no handlers for.
BindsAreLegal ==
  \A k \in DOMAIN objects :
    LET o == objects[k]
    IN  up /\ o.phase = "bound" =>
          /\ o.name \in Names /\ globals[o.name].interface = o.interface
          /\ o.version \in 1 .. ServerVersion[o.interface]
          /\ o.version <= ClientVersion[o.interface]

\* An object emits removed() once, and not before its global is gone; with no
\* event on its way every object of a registry that is set up has done so.
RemovedWithGlobal ==
  \A k \in DOMAIN objects :
    LET o == objects[k]
        gone == o.name \in Names /\ ~globals[o.name].alive
    IN  up /\ o.phase = "bound" =>
          /\ o.removed <= 1
          /\ o.removed = 1 => gone
          /\ gone /\ events = <<>> /\ registry # 0 => o.removed = 1

\* Both views of the user, the signals and the objects, agree with the cache and
\* the server (handleRemove, and the slots on interfaceRemoved).
SignalsAreTrue == SignalsMatchCache /\ RemovedWithGlobal

\* When interfacesAnnounced() is emitted, the cache has every known interface
\* the server had at the start and has not removed since.
DoneMeansAllAnnounced ==
  done /\ registry # 0 =>
    \A n \in initial \intersect AliveNames :
      Known(globals[n].interface) => <<globals[n].interface, n>> \in seen

\* As long as connectionDied() is connected to destroy(), no object holds a proxy
\* of a connection that is gone, also if the registry was released before.  That
\* is all the code does: the objects of a Registry that was deleted, and those of
\* one that was created from a wl_display, are told by nobody.
NoProxyOutlivesConnection ==
  ~up /\ connected => \A k \in DOMAIN objects : objects[k].phase \notin {"bound", "dangling"}

\* interfacesAnnounced() comes, unless registry or connection go first.
AnnouncementsEnd == registry # 0 ~> done \/ registry = 0 \/ ~up

\* registry.h, of the bind methods: "If the name does not exist or is not for
\* the compositor interface, null will be returned".  What the cache keeps
\* from an earlier connection is found all the same.
BindFindsExistingNames ==
  up /\ registry # 0 =>
    \A i \in Interfaces, n \in 1 .. MaxGlobals, v \in Versions :
      Bindable(i, n, v) => n \in Names /\ globals[n].interface = i
=============================================================================
