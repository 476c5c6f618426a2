-------------------------- MODULE VirtualDesktops --------------------------
(***************************************************************************)
(* The list of virtual desktops a PlasmaVirtualDesktopManagement keeps     *)
(* from the events of the compositor, and the objects for its desktops.    *)
(* The compositor is external: it handles a request at once and its events *)
(* arrive later, in their order. The interface is set up once.             *)
(***************************************************************************)
EXTENDS Naturals, Sequences, FiniteSets, Subsequences

CONSTANTS
    Desktops,    \* The identifiers of desktops.
    MaxObjects,  \* Bound: how many objects are made.
    MaxEvents    \* Bound: how many events are on their way.

VARIABLES
    announced,  \* The compositor's desktops, in their order.
    active,     \* The compositor's active desktops: at most one.
    bound,      \* Whether the interface is set up.
    events,     \* The events on their way.
    desktops,   \* PlasmaVirtualDesktopManagement's list of objects.
    made        \* The objects made so far: identifier, isActive(), whether deleted.

vars == <<announced, active, bound, events, desktops, made>>

Objects == 1 .. MaxObjects
Event(kind, of, position) == [kind |-> kind, of |-> of, position |-> position]
Ids(list) == [i \in DOMAIN list |-> made[list[i]].id]
Room(more) == Len(events) + more <= MaxEvents

TypeOK ==
    /\ announced \in Seq(Desktops) /\ IsInjective(announced)
    /\ active \in SUBSET Range(announced) /\ Cardinality(active) <= 1
    /\ bound \in BOOLEAN
    /\ \A i \in DOMAIN events :
           events[i] \in [kind : {"created", "removed"}, of : Desktops, position : Nat]
                             \cup [kind : {"activated", "deactivated"}, of : Objects,
                                   position : {0}]
    /\ desktops \in Seq(Objects)
    /\ made \in Seq([id : Desktops, active : BOOLEAN, deleted : BOOLEAN])

Init ==
    /\ announced = <<>> /\ active = {}
    /\ bound = FALSE
    /\ events = <<>>
    /\ desktops = <<>>
    /\ made = <<>>

-----------------------------------------------------------------------------
\* The compositor. Objects whose proxy it has a resource for hear of their desktop.
Alive(id) == {o \in DOMAIN made : made[o].id = id /\ ~made[o].deleted}
ToObjects(kind, id) ==
    LET objects == Listing(Alive(id))
    IN  [i \in DOMAIN objects |-> Event(kind, objects[i], 0)]

\* The events that introduce the desktops there are to a new client.
Introduction == [i \in DOMAIN announced |-> Event("created", announced[i], i - 1)]

AddDesktop ==
    /\ \E id \in Desktops \ Range(announced), i \in 0 .. Len(announced) :
           /\ announced' = Inserted(announced, i, id)
           /\ bound => Room(1)
           /\ events' = IF bound THEN Append(events, Event("created", id, i)) ELSE events
    /\ UNCHANGED <<active, bound, desktops, made>>

RemoveDesktop ==
    /\ \E i \in DOMAIN announced :
           /\ announced' = Kept(announced, DOMAIN announced \ {i})
           /\ active' = active \ {announced[i]}
           /\ bound => Room(1)
           /\ events' = IF bound THEN Append(events, Event("removed", announced[i], 0))
                        ELSE events
    /\ UNCHANGED <<bound, desktops, made>>

Activate ==
    /\ \E id \in Range(announced) \ active :
           LET old == IF active = {} THEN <<>>
                      ELSE ToObjects("deactivated", CHOOSE d \in active : TRUE)
               told == old \o ToObjects("activated", id)
           IN  /\ active' = {id}
               /\ Room(Len(told))
               /\ events' = events \o told
    /\ UNCHANGED <<announced, bound, desktops, made>>

\* get_virtual_desktop, as the compositor handles it: the state of the desktop.
State(o, id) ==
    IF id \in Range(announced)
    THEN <<Event(IF id \in active THEN "activated" ELSE "deactivated", o, 0)>>
    ELSE <<>>

-----------------------------------------------------------------------------
\* PlasmaVirtualDesktopManagement::setup().
Setup ==
    /\ ~bound
    /\ bound' = TRUE
    /\ events' = Introduction
    /\ Room(Len(Introduction))
    /\ UNCHANGED <<announced, active, desktops, made>>

\* The first object of the list for an identifier, 0 when there is none.
Find(id) == LET i == First({k \in DOMAIN desktops : made[desktops[k]].id = id})
            IN  IF i = 0 THEN 0 ELSE desktops[i]

\* getVirtualDesktop(): an object of the list, or a new one that no list has.
Obtained(id) == IF Find(id) # 0 THEN Find(id) ELSE Len(made) + 1
ObjectsWith(id) ==
    IF Find(id) # 0 THEN made
    ELSE Append(made, [id |-> id, active |-> FALSE, deleted |-> FALSE])
CanObtain(id) == Find(id) # 0 \/ Len(made) < MaxObjects

\* getVirtualDesktop(), called by the user. Before createdCallback has put an object for
\* the desktop on the list, each call makes another one.
getVirtualDesktop ==
    /\ bound
    /\ \E id \in Desktops :
           /\ CanObtain(id)
           /\ Room(1)
           /\ made' = ObjectsWith(id)
           /\ events' = IF Find(id) = 0 THEN events \o State(Obtained(id), id) ELSE events
    /\ UNCHANGED <<announced, active, bound, desktops>>

Takes(kind) ==
    /\ events # <<>>
    /\ Head(events).kind = kind
    /\ UNCHANGED <<announced, active, bound>>

\* Mutant: the position is not looked at.
createdAtTheEnd ==
    /\ Takes("created")
    /\ LET e == Head(events)
       IN  /\ CanObtain(e.of)
           /\ desktops' = Append(desktops, Obtained(e.of))
           /\ made' = ObjectsWith(e.of)
           /\ events' = Tail(events) \o State(Obtained(e.of), e.of)

\* createdCallback.
createdCallback ==
    /\ Takes("created")
    /\ LET e == Head(events)
       IN  /\ CanObtain(e.of)
           /\ desktops' = Inserted(desktops, e.position, Obtained(e.of))
           /\ made' = ObjectsWith(e.of)
           /\ events' = Tail(events) \o State(Obtained(e.of), e.of)

\* removedCallback: the object of the list goes, an unlisted one of the desktop stays.
\* Its proxy is destroyed, so events for it are dropped.
removedCallback ==
    /\ Takes("removed")
    /\ LET o == Find(Head(events).of)
       IN  /\ desktops' = Kept(desktops, {k \in DOMAIN desktops : desktops[k] # o})
           /\ made' = [made EXCEPT ![o].deleted = TRUE]
           /\ events' = Kept(Tail(events), {k \in DOMAIN Tail(events) :
                             \/ Tail(events)[k].kind \in {"created", "removed"}
                             \/ Tail(events)[k].of # o})

\* activatedCallback and deactivatedCallback of a desktop.
activeCallback ==
    /\ \E kind \in {"activated", "deactivated"} :
           /\ Takes(kind)
           /\ made' = [made EXCEPT ![Head(events).of].active = (kind = "activated")]
    /\ events' = Tail(events)
    /\ UNCHANGED desktops

Next ==
    \/ AddDesktop
    \/ RemoveDesktop
    \/ Activate
    \/ Setup
    \/ getVirtualDesktop
    \/ createdCallback
    \/ removedCallback
    \/ activeCallback

Spec == Init /\ [][Next]_vars

-----------------------------------------------------------------------------
\* The events for the list go where they point, whatever the user asks for between
\* them: insert() is within the list, erase() finds the desktop.
ListEventsFit ==
    events # <<>> =>
        /\ Head(events).kind = "created" => Head(events).position <= Len(desktops)
        /\ Head(events).kind = "removed" => Find(Head(events).of) # 0

\* Once all events have arrived the list is the compositor's, and its objects say
\* which desktop is active (createdCallback, removedCallback).
ListFollows ==
    bound /\ events = <<>> =>
        /\ Ids(desktops) = announced
        /\ \A i \in DOMAIN desktops :
               made[desktops[i]].active = (announced[i] \in active)

\* The list holds no deleted object, and none twice. That is about the list: it is not
\* true that an object "is guaranteed to be unique for each id" (plasmavirtualdesktop.h,
\* getVirtualDesktop), for those made before the announcement are on no list.
ListIsLive == IsInjective(desktops) /\ \A i \in DOMAIN desktops : ~made[desktops[i]].deleted

=============================================================================
