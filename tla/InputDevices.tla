----------------------------- MODULE InputDevices -----------------------------
(***************************************************************************)
(* A Seat, the Keyboard, Pointer or TextInput made from it, and the        *)
(* Surfaces the focus goes to.  The compositor's events name surfaces by   *)
(* their proxies; an event that names one the client has destroyed since   *)
(* carries a null proxy (libwayland), and every Surface that is released   *)
(* holds a null proxy too.  The compositor is external.                    *)
(***************************************************************************)
EXTENDS Naturals, Sequences, Subsequences

CONSTANTS
    MaxSurfaces, \* Bound: how many Surfaces are made.
    MaxSerial,   \* Bound: how many enter and leave events are sent.
    MaxEvents    \* Bound: how many events are on their way.

Capabilities == {"keyboard", "pointer"}
TextInputs == {"textInputV0", "textInputV2"}
Kinds == Capabilities \cup TextInputs
None == 0   \* No surface, and the null proxy.

VARIABLES
    kind,      \* What is made from the seat.
    server,    \* The compositor's capabilities, surfaces, focus and serials.
    events,    \* The events on their way.
    seat,      \* The Seat: "unset", "valid", "ended"; its capabilities.
    device,    \* The device: "none", "valid", "ended"; where it says the focus is.
    surfaces   \* The Surfaces so far: "valid", "released", "deleted".

vars == <<kind, server, events, seat, device, surfaces>>

TypeOK ==
    /\ kind \in Kinds
    /\ server \in [capabilities : SUBSET Capabilities, known : SUBSET (1 .. MaxSurfaces),
                   focus : 0 .. MaxSurfaces, resource : BOOLEAN,
                   serial : 0 .. MaxSerial, entered : 0 .. MaxSerial]
    /\ \A i \in DOMAIN events : events[i].kind \in {"capabilities", "enter", "leave"}
    /\ seat \in [state : {"unset", "valid", "ended"}, capabilities : SUBSET Capabilities]
    /\ device \in [state : {"none", "valid", "ended"},
                   enteredSurface : 0 .. Len(surfaces), serial : 0 .. MaxSerial]
    /\ surfaces \in Seq({"valid", "released", "deleted"})

Init ==
    /\ kind \in Kinds
    /\ server = [capabilities |-> {}, known |-> {}, focus |-> None, resource |-> FALSE,
                 serial |-> 0, entered |-> 0]
    /\ events = <<>>
    /\ seat = [state |-> "unset", capabilities |-> {}]
    /\ device = [state |-> "none", enteredSurface |-> None, serial |-> 0]
    /\ surfaces = <<>>

-----------------------------------------------------------------------------
\* Whether a device can be made from the seat; a text input needs no capability.
Serves(capabilities) == kind \in TextInputs \/ kind \in capabilities

\* The compositor.  It ends a device with its capability.
Send(event) ==
    /\ Len(events) < MaxEvents
    /\ events' = Append(events, event)
    /\ UNCHANGED <<kind, seat, device, surfaces>>

ChangeCapabilities ==
    \E c \in SUBSET Capabilities \ {server.capabilities} :
        /\ server' = [server EXCEPT !.capabilities = c,
                                    !.resource = @ /\ Serves(c),
                                    !.focus = IF Serves(c) THEN @ ELSE None]
        /\ IF seat.state = "valid"
           THEN Send([kind |-> "capabilities", capabilities |-> c])
           ELSE UNCHANGED <<kind, events, seat, device, surfaces>>

Enter ==
    /\ server.resource /\ server.focus = None /\ server.serial < MaxSerial
    /\ \E s \in server.known :
           /\ server' = [server EXCEPT !.focus = s, !.serial = @ + 1, !.entered = server.serial + 1]
           /\ Send([kind |-> "enter", surface |-> s, serial |-> server.serial + 1])

Leave ==
    /\ server.resource /\ server.focus # None /\ server.serial < MaxSerial
    /\ server' = [server EXCEPT !.focus = None, !.serial = @ + 1]
    /\ Send([kind |-> "leave", serial |-> server.serial + 1])

\* It learns that a surface is destroyed; no leave is sent for it.
ServeDestroySurface ==
    \E s \in server.known :
        /\ surfaces[s] # "valid"
        /\ server' = [server EXCEPT !.known = @ \ {s},
                                    !.focus = IF @ = s THEN None ELSE @]
        /\ UNCHANGED <<kind, events, seat, device, surfaces>>

-----------------------------------------------------------------------------
\* Surface::get(): the first Surface that holds the proxy.
Holds(s, proxy) ==
    IF proxy = None THEN surfaces[s] = "released" ELSE surfaces[s] = "valid" /\ s = proxy

get(proxy) == First({s \in DOMAIN surfaces : Holds(s, proxy)})

\* The proxy an event carries.
Carried(surface) == IF surfaces[surface] = "valid" THEN surface ELSE None

Takes(what) ==
    /\ events # <<>>
    /\ Head(events).kind = what
    /\ events' = Tail(events)
    /\ UNCHANGED <<kind, server, surfaces>>

\* capabilitiesChanged(), setHasKeyboard() and the others.
capabilitiesCallback ==
    /\ Takes("capabilities")
    /\ seat' = [seat EXCEPT !.capabilities = Head(events).capabilities]
    /\ UNCHANGED device

\* A keyboard has no use for the serial, and a text input of V0 is sent none; one of V2
\* keeps that of any enter or leave. (That of input_method_changed it does not look at.)
enterCallback ==
    /\ Takes("enter")
    /\ device' = [device EXCEPT
           !.enteredSurface = get(Carried(Head(events).surface)),
           !.serial = IF kind \in {"pointer", "textInputV2"}
                    THEN Head(events).serial ELSE @]
    /\ UNCHANGED seat

\* Mutant: leave is not handled.
leaveIgnored == Takes("leave") /\ UNCHANGED <<seat, device>>

leaveCallback ==
    /\ Takes("leave")
    /\ device' = [device EXCEPT
           !.enteredSurface = None,
           !.serial = IF kind = "textInputV2" THEN Head(events).serial ELSE @]
    /\ UNCHANGED seat

-----------------------------------------------------------------------------
\* The user.
SetupSeat ==
    /\ seat.state = "unset"
    /\ seat' = [seat EXCEPT !.state = "valid"]
    /\ events' = Append(events,
                        [kind |-> "capabilities", capabilities |-> server.capabilities])
    /\ UNCHANGED <<kind, server, device, surfaces>>

\* createKeyboard() and createPointer(), which assert the capability, and
\* createTextInput() of a manager.  A compositor that has withdrawn the capability
\* makes a device that never hears of anything.
CreateDevice ==
    /\ seat.state = "valid" /\ device.state = "none"
    /\ Serves(seat.capabilities)
    /\ device' = [device EXCEPT !.state = "valid"]
    /\ server' = [server EXCEPT !.resource = Serves(server.capabilities)]
    /\ UNCHANGED <<kind, events, seat, surfaces>>

\* Where the events of some kinds are.
Places(kinds) == {i \in DOMAIN events : events[i].kind \in kinds}

\* The proxy of the device is gone, and with it the events for it.
DeviceEnds ==
    /\ server' = [server EXCEPT !.resource = FALSE, !.focus = None]
    /\ device' = [device EXCEPT !.state = IF @ = "valid" THEN "ended" ELSE @]

ReleaseDevice ==
    /\ device.state = "valid"
    /\ DeviceEnds
    /\ events' = Kept(events, Places({"capabilities"}))
    /\ UNCHANGED <<kind, seat, surfaces>>

\* release() and destroy() of the seat take its devices along (a text input is its
\* manager's).
SeatEnds ==
    /\ seat.state = "valid"
    /\ IF kind \in TextInputs
       THEN /\ events' = Kept(events, Places({"enter", "leave"}))
            /\ UNCHANGED <<server, device>>
       ELSE events' = <<>> /\ DeviceEnds
    /\ UNCHANGED <<kind, surfaces>>

\* With resetSeat().
EndSeat ==
    /\ SeatEnds
    /\ seat' = [state |-> "ended", capabilities |-> {}]

CreateSurface ==
    /\ Len(surfaces) < MaxSurfaces
    /\ surfaces' = Append(surfaces, "valid")
    /\ server' = [server EXCEPT !.known = @ \cup {Len(surfaces')}]
    /\ UNCHANGED <<kind, events, seat, device>>

ReleaseSurface ==
    \E s \in DOMAIN surfaces :
        /\ surfaces[s] = "valid"
        /\ surfaces' = [surfaces EXCEPT ![s] = "released"]
        /\ UNCHANGED <<kind, server, events, seat, device>>

\* The QPointers to it are cleared; a text input keeps a plain pointer.
DeleteSurface ==
    \E s \in DOMAIN surfaces :
        /\ surfaces[s] # "deleted"
        /\ surfaces' = [surfaces EXCEPT ![s] = "deleted"]
        /\ device' = [device EXCEPT !.enteredSurface =
                          IF @ = s /\ kind \notin TextInputs THEN None ELSE @]
        /\ UNCHANGED <<kind, server, events, seat>>

Next ==
    \/ ChangeCapabilities
    \/ Enter
    \/ Leave
    \/ ServeDestroySurface
    \/ capabilitiesCallback
    \/ enterCallback
    \/ leaveCallback
    \/ SetupSeat
    \/ CreateDevice
    \/ ReleaseDevice
    \/ EndSeat
    \/ CreateSurface
    \/ ReleaseSurface
    \/ DeleteSurface

Spec == Init /\ [][Next]_vars

-----------------------------------------------------------------------------
\* With no event on its way the seat has the compositor's capabilities, none once it
\* has ended, and a device the compositor still serves says where the focus is, in
\* every order of enter, leave and the end of surfaces: a surface that is still valid
\* is the entered one exactly when the focus is on it (Surface::get), and setCursor()
\* and reset() of V2 send the serial of the event the compositor sent last.
InputFollows ==
    /\ seat.capabilities = {} \/ seat.state = "valid"
    /\ events = <<>> =>
           /\ seat.state = "valid" => seat.capabilities = server.capabilities
           /\ device.state = "valid" /\ server.resource =>
                  /\ \A s \in DOMAIN surfaces :
                         surfaces[s] = "valid" =>
                             (device.enteredSurface = s <=> server.focus = s)
                  /\ kind = "pointer" /\ server.focus # None =>
                         device.serial = server.entered
                  /\ kind = "textInputV2" => device.serial = server.serial

\* Whatever a device calls the entered surface is the one its focus is on, or was on
\* when it was destroyed.  It is not so: an enter event for a destroyed surface finds
\* any other released Surface (Surface::get(nullptr)).
EnteredWasNamed ==
    events = <<>> /\ device.state = "valid" /\ server.resource /\ server.focus # None
        => device.enteredSurface \in {None, server.focus}

=============================================================================
