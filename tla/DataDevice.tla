------------------------------ MODULE DataDevice ------------------------------
(***************************************************************************)
(* A DataDevice: offers the compositor announces for the selection and for *)
(* drags, which the device keeps until they are replaced, withdrawn or     *)
(* taken by the user.  The assertions of the code are compiled out, as in  *)
(* a release build: an internal drag, which has no offer, would dereference*)
(* a null pointer in one of them.  The compositor is external.             *)
(***************************************************************************)
EXTENDS Naturals, Sequences, FiniteSets, Subsequences

CONSTANTS
    Types,      \* Names of types.
    Known,      \* Those the database of types knows.
    MaxOffers,  \* Bound: how many offers are announced.
    MaxEvents   \* Bound: how many events are on their way.

None == 0

VARIABLES
    server,     \* The compositor: types of each offer, selection, drag.
    events,     \* The events on their way.
    device,     \* "unset", "valid", "ended".
    lastOffer, selectionOffer, dragOffer,
    users,      \* The offers the user has taken and not deleted.
    taken,      \* Every offer the user has taken.
    mimeTypes   \* The types each DataOffer that exists has heard of.

vars == <<server, events, device, lastOffer, selectionOffer, dragOffer, users, taken,
          mimeTypes>>

Offers == 1 .. MaxOffers
Drags == {"none", "over", "dropped"}

TypeOK ==
    /\ server \in [types : Seq(SUBSET Types), selection : 0 .. MaxOffers,
                   dragOffer : 0 .. MaxOffers, drag : Drags]
    /\ \A i \in DOMAIN events :
           events[i].kind \in {"dataOffer", "offer", "enter", "leave", "drop", "selection"}
    /\ device \in {"unset", "valid", "ended"}
    /\ {lastOffer, selectionOffer, dragOffer} \subseteq 0 .. MaxOffers
    /\ users \subseteq taken /\ taken \subseteq Offers
    /\ DOMAIN mimeTypes \subseteq Offers
    /\ \A o \in DOMAIN mimeTypes : mimeTypes[o] \in SUBSET Known

Init ==
    /\ server = [types |-> <<>>, selection |-> None, dragOffer |-> None, drag |-> "none"]
    /\ events = <<>>
    /\ device = "unset"
    /\ lastOffer = None /\ selectionOffer = None /\ dragOffer = None
    /\ users = {} /\ taken = {}
    /\ mimeTypes = <<>>

clientVars == <<device, lastOffer, selectionOffer, dragOffer, users, taken, mimeTypes>>

-----------------------------------------------------------------------------
\* The compositor.
Send(batch) ==
    /\ device = "valid"
    /\ Len(events) + Len(batch) <= MaxEvents
    /\ events' = events \o batch
    /\ UNCHANGED clientVars

\* A new offer with its types is followed by the event that says what it is for.
Announce(types, last) ==
    LET o == Len(server.types) + 1
        Offer(t) == [kind |-> "offer", offer |-> o, type |-> t]
    IN  Send(<<[kind |-> "dataOffer", offer |-> o]>>
             \o [i \in 1 .. Cardinality(types) |-> Offer(Listing(types)[i])]
             \o <<[kind |-> last, offer |-> o]>>)

OfferSelection ==
    /\ Len(server.types) < MaxOffers
    /\ \E types \in SUBSET Types :
           /\ Announce(types, "selection")
           /\ server' = [server EXCEPT !.types = Append(@, types),
                                       !.selection = Len(server.types) + 1]

ClearSelection ==
    /\ Send(<<[kind |-> "selection", offer |-> None]>>)
    /\ server' = [server EXCEPT !.selection = None]

DragEnters ==
    /\ server.drag # "over"
    /\ Len(server.types) < MaxOffers
    /\ \E types \in SUBSET Types :
           /\ Announce(types, "enter")
           /\ server' = [server EXCEPT !.types = Append(@, types), !.drag = "over",
                                       !.dragOffer = Len(server.types) + 1]

\* A drag that startDragInternally() began comes without an offer.
InternalDragEnters ==
    /\ server.drag # "over"
    /\ Send(<<[kind |-> "enter", offer |-> None]>>)
    /\ server' = [server EXCEPT !.drag = "over", !.dragOffer = None]

\* After a drop the compositor may send a leave as well.
DragLeaves ==
    /\ server.drag # "none"
    /\ Send(<<[kind |-> "leave"]>>)
    /\ server' = [server EXCEPT !.drag = "none", !.dragOffer = None]

Drop ==
    /\ server.drag = "over"
    /\ Send(<<[kind |-> "drop"]>>)
    /\ server' = [server EXCEPT !.drag = "dropped"]

-----------------------------------------------------------------------------
\* An event for the device or for an offer that is gone is not dispatched.
Takes(kind) ==
    /\ events # <<>>
    /\ Head(events).kind = kind
    /\ events' = Tail(events)
    /\ UNCHANGED <<server, device, users, taken>>

\* The DataOffer that a std::unique_ptr held is deleted when it gets another.
Without(offers) == [o \in DOMAIN mimeTypes \ offers |-> mimeTypes[o]]

dataOfferCallback ==
    /\ Takes("dataOffer")
    /\ LET o == Head(events).offer
       IN  /\ lastOffer' = o
           /\ mimeTypes' = [x \in (DOMAIN mimeTypes \ {lastOffer}) \cup {o} |->
                                IF x = o THEN {} ELSE mimeTypes[x]]
    /\ UNCHANGED <<selectionOffer, dragOffer>>

\* DataOffer::offer(): a type the database does not know is not kept.
offerCallback ==
    /\ Takes("offer")
    /\ LET e == Head(events)
       IN  mimeTypes' = IF e.offer \in DOMAIN mimeTypes /\ e.type \in Known
                        THEN [mimeTypes EXCEPT ![e.offer] = @ \cup {e.type}]
                        ELSE mimeTypes
    /\ UNCHANGED <<lastOffer, selectionOffer, dragOffer>>

\* dragEnter(): it takes the last offer, whatever the event names.
enterCallback ==
    /\ Takes("enter")
    /\ dragOffer' = lastOffer
    /\ lastOffer' = None
    /\ mimeTypes' = Without({dragOffer})
    /\ UNCHANGED selectionOffer

\* dragLeft()
leaveCallback ==
    /\ Takes("leave")
    /\ dragOffer' = None
    /\ mimeTypes' = Without({dragOffer})
    /\ UNCHANGED <<lastOffer, selectionOffer>>

dropCallback ==
    /\ Takes("drop")
    /\ UNCHANGED <<lastOffer, selectionOffer, dragOffer, mimeTypes>>

\* Mutant: a selection without an offer is not told apart.
selectionAlwaysTaken ==
    /\ Takes("selection")
    /\ selectionOffer' = IF lastOffer = None THEN selectionOffer ELSE lastOffer
    /\ lastOffer' = None
    /\ mimeTypes' = Without({selectionOffer} \ {selectionOffer'})
    /\ UNCHANGED dragOffer

\* selection()
selectionCallback ==
    /\ Takes("selection")
    /\ IF Head(events).offer = None
       THEN selectionOffer' = None /\ UNCHANGED lastOffer
       ELSE selectionOffer' = lastOffer /\ lastOffer' = None
    /\ mimeTypes' = Without({selectionOffer})
    /\ UNCHANGED dragOffer

-----------------------------------------------------------------------------
\* The user.
Setup ==
    /\ device = "unset"
    /\ device' = "valid"
    /\ UNCHANGED <<server, events, lastOffer, selectionOffer, dragOffer, users, taken,
                   mimeTypes>>

\* release() and destroy(): the offers are left to the device; the compositor ends the
\* drag and the selection for it.
End ==
    /\ device = "valid"
    /\ device' = "ended"
    /\ events' = Kept(events, {i \in DOMAIN events : events[i].kind = "offer"})
    /\ UNCHANGED <<server, lastOffer, selectionOffer, dragOffer, users, taken, mimeTypes>>

Take(offer) ==
    /\ offer # None
    /\ users' = users \cup {offer}
    /\ taken' = taken \cup {offer}
    /\ UNCHANGED <<server, events, device, lastOffer, mimeTypes>>

takeOfferedSelection ==
    /\ Take(selectionOffer)
    /\ selectionOffer' = None
    /\ UNCHANGED dragOffer

takeDragOffer ==
    /\ Take(dragOffer)
    /\ dragOffer' = None
    /\ UNCHANGED selectionOffer

DeleteTaken ==
    \E o \in users :
        /\ users' = users \ {o}
        /\ mimeTypes' = Without({o})
        /\ UNCHANGED <<server, events, device, lastOffer, selectionOffer, dragOffer, taken>>

Next ==
    \/ OfferSelection
    \/ ClearSelection
    \/ DragEnters
    \/ InternalDragEnters
    \/ DragLeaves
    \/ Drop
    \/ dataOfferCallback
    \/ offerCallback
    \/ enterCallback
    \/ leaveCallback
    \/ dropCallback
    \/ selectionCallback
    \/ Setup
    \/ End
    \/ takeOfferedSelection
    \/ takeDragOffer
    \/ DeleteTaken

Spec == Init /\ [][Next]_vars

-----------------------------------------------------------------------------
\* With no event on its way a device that is set up has the compositor's selection and
\* the offer of the drag, unless the user has taken them: a drag within the client gets
\* none, however selections and drags were mixed.  An offer the user can see has all
\* the known types it was announced with, each has one owner, and none that lost its
\* owner is left (lastOffer, std::move in dragEnter and selection).
OffersFollow ==
    /\ device = "valid" /\ events = <<>> =>
           /\ selectionOffer = (IF server.selection \in taken THEN None ELSE server.selection)
           /\ dragOffer = (IF server.dragOffer \in taken THEN None ELSE server.dragOffer)
    /\ \A o \in {selectionOffer, dragOffer} \cup users :
           o # None => mimeTypes[o] = server.types[o] \cap Known
    /\ DOMAIN mimeTypes = ({lastOffer, selectionOffer, dragOffer} \cup users) \ {None}
    /\ \A o \in DOMAIN mimeTypes :
           Cardinality({h \in {<<"last", lastOffer>>, <<"selection", selectionOffer>>,
                               <<"drag", dragOffer>>} : h[2] = o})
               + (IF o \in users THEN 1 ELSE 0) = 1

=============================================================================
