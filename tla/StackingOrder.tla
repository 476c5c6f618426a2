--------------------------- MODULE StackingOrder ---------------------------
(***************************************************************************)
(* The stacking order of the windows: the compositor says that it changed, *)
(* PlasmaWindowManagement asks for it with an object of its own, and the   *)
(* compositor names the windows to that object one by one and then says    *)
(* that these were all. Several such objects may be on their way at a      *)
(* time. The compositor is external; it handles requests in their order.   *)
(***************************************************************************)
EXTENDS Naturals, Sequences, FiniteSets, Subsequences

CONSTANTS
    Windows,     \* The windows of the compositor.
    MaxChanges   \* Bound: how often the order changes.

VARIABLES
    history,      \* Every order the compositor has had; the last one is the order.
    wm,           \* PlasmaWindowManagement: "unset", "valid", "released", "deleted".
    requests,     \* The objects made by requests the compositor has not handled.
    events,       \* The events on their way: changed, window, done.
    lists,        \* StackingOrderData of each object, by its number.
    order,        \* stackingOrderUuids().
    announced     \* How often stackingOrderUuidsChanged() was emitted.

vars == <<history, wm, requests, events, lists, order, announced>>

Orders == UNION {Injection(1 .. n, Windows) : n \in 0 .. Cardinality(Windows)}
Changed == [kind |-> "changed"]
Window(o, w) == [kind |-> "window", object |-> o, window |-> w]
Done(o) == [kind |-> "done", object |-> o]

TypeOK ==
    /\ history \in Seq(Orders) /\ history # <<>>
    /\ wm \in {"unset", "valid", "released", "deleted"}
    /\ requests \in Seq(DOMAIN lists)
    /\ \A i \in DOMAIN events : events[i].kind # "changed" => events[i].object \in DOMAIN lists
    /\ \A i \in DOMAIN lists : lists[i] \in Seq(Windows)
    /\ order \in Orders
    /\ announced \in Nat

Init ==
    /\ history = <<<<>>>>
    /\ wm = "unset"
    /\ requests = <<>>
    /\ events = <<>>
    /\ lists = <<>>
    /\ order = <<>>
    /\ announced = 0

-----------------------------------------------------------------------------
\* The compositor.
Restack ==
    /\ Len(history) <= MaxChanges
    /\ \E s \in Orders \ {history[Len(history)]} : history' = Append(history, s)
    /\ events' = IF wm = "valid" THEN Append(events, Changed) ELSE events
    /\ UNCHANGED <<wm, requests, lists, order, announced>>

ServeGetStackingOrder ==
    /\ requests # <<>>
    /\ LET o == Head(requests)
           now == history[Len(history)]
       IN  events' = events \o [i \in DOMAIN now |-> Window(o, now[i])] \o <<Done(o)>>
    /\ requests' = Tail(requests)
    /\ UNCHANGED <<history, wm, lists, order, announced>>

\* get_stacking_order with a new list.
Ask ==
    /\ lists' = Append(lists, <<>>)
    /\ requests' = Append(requests, Len(lists) + 1)

\* What is on its way to the lists.
ForLists == Kept(events, {k \in DOMAIN events : events[k].kind # "changed"})

\* PlasmaWindowManagement::Private::setup().
Setup ==
    /\ wm = "unset"
    /\ wm' = "valid"
    /\ Ask
    /\ UNCHANGED <<history, events, order, announced>>

\* release(): the events for its proxy are dropped, those for the lists are not.
Release ==
    /\ wm = "valid"
    /\ wm' = "released"
    /\ events' = ForLists
    /\ UNCHANGED <<history, requests, lists, order, announced>>

\* The destructor.
Delete ==
    /\ wm \in {"valid", "released"}
    /\ wm' = "deleted"
    /\ events' = ForLists
    /\ UNCHANGED <<history, requests, lists, order, announced>>

Takes(kind) ==
    /\ events # <<>>
    /\ Head(events).kind = kind
    /\ events' = Tail(events)

\* stackingOrder2Callback.
stackingOrder2Callback ==
    /\ Takes("changed")
    /\ Ask
    /\ UNCHANGED <<history, wm, order, announced>>

\* stackingOrderWindow.
stackingOrderWindow ==
    /\ Takes("window")
    /\ lists' = [lists EXCEPT ![Head(events).object] = Append(@, Head(events).window)]
    /\ UNCHANGED <<history, wm, requests, order, announced>>

\* stackingOrderDone and setStackingOrder. The list of a deleted management is only
\* freed: its QPointer is null.
stackingOrderDone ==
    /\ Takes("done")
    /\ LET list == lists[Head(events).object]
       IN  IF wm # "deleted" /\ list # order
           THEN order' = list /\ announced' = announced + 1
           ELSE UNCHANGED <<order, announced>>
    /\ UNCHANGED <<history, wm, requests, lists>>

Next ==
    \/ Restack
    \/ ServeGetStackingOrder
    \/ Setup
    \/ Release
    \/ Delete
    \/ stackingOrder2Callback
    \/ stackingOrderWindow
    \/ stackingOrderDone

Spec == Init /\ [][Next]_vars

-----------------------------------------------------------------------------
\* However many requests overlap, the order is always one the compositor had, in
\* full; and once everything has arrived it is the one it has.
OrderFollows ==
    /\ order \in Range(history)
    /\ wm = "valid" /\ events = <<>> /\ requests = <<>> => order = history[Len(history)]

=============================================================================
