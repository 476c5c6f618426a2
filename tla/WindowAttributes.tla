-------------------------- MODULE WindowAttributes --------------------------
(***************************************************************************)
(* What a PlasmaWindow knows of its window, and what a view of a           *)
(* PlasmaWindowModel shows of it: the view reads a role anew only when the *)
(* model says that it changed. State flags come together in one number,    *)
(* virtual desktops and activities are entered and left one at a time, an  *)
(* icon is read in another thread. The compositor is external, and so is   *)
(* the view. The window is mapped and has its row; the windows themselves  *)
(* are the subject of PlasmaWindowManagement.                              *)
(***************************************************************************)
EXTENDS Naturals, Sequences, FiniteSets, Subsequences

CONSTANTS
    Flags,       \* The states of a window looked at, "on_all_desktops" among them.
    Desktops,    \* Virtual desktops, and activities.
    Fields,      \* What is one value each: title, appId, geometry, and "pid".
    Titles,      \* The values these have.
    MaxIcons,    \* Bound: how often the icon changes.
    MaxEvents    \* Bound: how many events are on their way.

Toggles == {"keep_above", "keep_below", "minimized", "maximized", "fullscreen", "shaded"}
Fallback == 0   \* The icon "wayland" of the theme, when an icon could not be read.

VARIABLES
    version,     \* The version of the proxy: below 8 or not.
    server,      \* The compositor's window: flags, desktops, attributes, icon.
    requests,    \* set_state requests on their way.
    events,      \* Events on their way.
    window,      \* The PlasmaWindow.
    fetches,     \* Icons being read, in the order they were asked for.
    view         \* What the view shows.

vars == <<version, server, requests, events, window, fetches, view>>

\* PlasmaWindow::isOnAllDesktops().
isOnAllDesktops(w) ==
    IF version < 8 THEN "on_all_desktops" \in w.flags ELSE w.desktops = <<>>

\* The roles of the model, one for each flag and each attribute. (The role Uuid is left
\* out: a window keeps its uuid.)
Roles == Flags \cup Fields \cup {"on_all_desktops", "desktops", "icon"}

\* PlasmaWindowModel::data(), by role.
data(w) ==
    [role \in Roles |->
        CASE role = "on_all_desktops" -> isOnAllDesktops(w)
          [] role = "desktops" -> w.desktops
          [] role = "icon" -> w.icon
          [] role \in Fields -> w.attributes[role]
          [] role \in Flags \ {"on_all_desktops"} -> role \in w.flags]

Icons == 0 .. MaxIcons
TypeOK ==
    /\ version \in {7, 8}
    /\ server.flags \subseteq Flags
    /\ server.desktops \in SUBSET Desktops
    /\ server.attributes \in [Fields -> Titles]
    /\ server.icon \in Icons
    /\ \A i \in DOMAIN requests : requests[i] \in [flag : Flags \cap Toggles, set : BOOLEAN]
    /\ window.flags \subseteq Flags
    /\ window.desktops \in Seq(Desktops)
    /\ window.attributes \in [Fields -> Titles]
    /\ window.icon \in Icons
    /\ \A i \in DOMAIN fetches : fetches[i] \in Icons
    /\ DOMAIN view = Roles

Init ==
    /\ version \in {7, 8}
    /\ server = [flags |-> {}, desktops |-> {}, icon |-> Fallback,
                 attributes |-> [a \in Fields |-> CHOOSE t \in Titles : TRUE]]
    /\ window = [server EXCEPT !.desktops = <<>>]
    /\ requests = <<>>
    /\ events = <<>>
    /\ fetches = <<>>
    /\ view = data(window)

-----------------------------------------------------------------------------
\* The compositor.
Send(event) ==
    /\ Len(events) < MaxEvents
    /\ events' = Append(events, event)
    /\ UNCHANGED <<version, window, fetches, view>>

StateEvent(flags) == [kind |-> "state", flags |-> flags]
ChangeFlags ==
    \E flags \in SUBSET Flags \ {server.flags} :
        /\ server' = [server EXCEPT !.flags = flags]
        /\ Send(StateEvent(flags))
        /\ UNCHANGED requests

ServeSetState ==
    /\ requests # <<>>
    /\ requests' = Tail(requests)
    /\ LET r == Head(requests)
           flags == IF r.set THEN server.flags \cup {r.flag} ELSE server.flags \ {r.flag}
       IN  /\ server' = [server EXCEPT !.flags = flags]
           /\ Send(StateEvent(flags))

ChangeDesktops ==
    \E d \in Desktops :
        /\ LET entered == d \notin server.desktops
           IN  /\ server' = [server EXCEPT !.desktops =
                                 IF entered THEN @ \cup {d} ELSE @ \ {d}]
               /\ Send([kind |-> IF entered THEN "entered" ELSE "left", desktop |-> d])
        /\ UNCHANGED requests

ChangeAttribute ==
    \E a \in Fields, t \in Titles :
        /\ server' = [server EXCEPT !.attributes[a] = t]
        /\ Send([kind |-> "attribute", attribute |-> a, value |-> t])
        /\ UNCHANGED requests

\* A new icon: its name of the theme, or to be fetched.
ChangeIcon ==
    /\ server.icon < MaxIcons
    /\ server' = [server EXCEPT !.icon = @ + 1]
    /\ Send([kind |-> "icon", icon |-> server.icon + 1])
    /\ UNCHANGED requests

-----------------------------------------------------------------------------
\* requestToggleKeepAbove() and its like: set or unset, by the state the client knows.
Toggle ==
    /\ Len(requests) < 2
    /\ \E f \in Flags \cap Toggles :
           requests' = Append(requests, [flag |-> f, set |-> f \notin window.flags])
    /\ UNCHANGED <<version, server, events, window, fetches, view>>

Takes(kind) ==
    /\ events # <<>>
    /\ Head(events).kind = kind
    /\ events' = Tail(events)
    /\ UNCHANGED <<version, server, requests>>

\* The view reads the roles the model names in dataChanged().
Refreshed(w, roles) == [r \in Roles |-> IF r \in roles THEN data(w)[r] ELSE view[r]]

\* stateChangedCallback and its setters: each signals when its flag changes.
stateChangedCallback ==
    /\ Takes("state")
    /\ LET old == window.flags
           new == Head(events).flags
       IN  /\ window' = [window EXCEPT !.flags = new]
           /\ view' = Refreshed(window', (old \ new) \cup (new \ old))
    /\ UNCHANGED fetches

\* Mutant: onAllDesktopsChanged is not emitted.
virtualDesktopEnteredQuietly ==
    /\ Takes("entered")
    /\ window' = [window EXCEPT !.desktops = Append(@, Head(events).desktop)]
    /\ view' = Refreshed(window', {"desktops"})
    /\ UNCHANGED fetches

\* virtualDesktopEnteredCallback and virtualDesktopLeftCallback.
virtualDesktopEnteredCallback ==
    /\ Takes("entered")
    /\ window' = [window EXCEPT !.desktops = Append(@, Head(events).desktop)]
    /\ view' = Refreshed(window',
                  {"desktops"} \cup (IF Len(window'.desktops) = 1
                                     THEN {"on_all_desktops"} ELSE {}))
    /\ UNCHANGED fetches

virtualDesktopLeftCallback ==
    /\ Takes("left")
    /\ window' = [window EXCEPT !.desktops =
                      Kept(@, {i \in DOMAIN @ : @[i] # Head(events).desktop})]
    /\ view' = Refreshed(window',
                  {"desktops"} \cup (IF window'.desktops = <<>>
                                     THEN {"on_all_desktops"} ELSE {}))
    /\ UNCHANGED fetches

\* titleChangedCallback, appIdChangedCallback, windowGeometryCallback: each signals
\* a change.
attributeCallback ==
    /\ Takes("attribute")
    /\ LET e == Head(events)
       IN  /\ e.attribute # "pid"
           /\ IF e.value = window.attributes[e.attribute]
              THEN UNCHANGED <<window, view>>
              ELSE /\ window' = [window EXCEPT !.attributes[e.attribute] = e.value]
                   /\ view' = Refreshed(window', {e.attribute})
    /\ UNCHANGED fetches

\* pidChangedCallback: it has no signal, and the model none to connect.
pidChangedCallback ==
    /\ Takes("attribute")
    /\ Head(events).attribute = "pid"
    /\ window' = [window EXCEPT !.attributes["pid"] = Head(events).value]
    /\ UNCHANGED <<view, fetches>>

\* themedIconNameChangedCallback: the icon is there at once.
themedIconNameChangedCallback ==
    /\ Takes("icon")
    /\ window' = [window EXCEPT !.icon = Head(events).icon]
    /\ view' = Refreshed(window', {"icon"})
    /\ UNCHANGED fetches

\* iconChangedCallback: a pipe and a thread that reads from it. The compositor writes
\* the icon it has by then.
iconChangedCallback ==
    /\ Takes("icon")
    /\ \E icon \in Head(events).icon .. server.icon : fetches' = Append(fetches, icon)
    /\ UNCHANGED <<window, view>>

\* The slot of the watcher: any of the threads may be the first to end, and a read
\* may fail.
IconFetched ==
    \E i \in DOMAIN fetches :
        /\ fetches' = Kept(fetches, DOMAIN fetches \ {i})
        /\ \E icon \in {fetches[i], Fallback} : window' = [window EXCEPT !.icon = icon]
        /\ view' = Refreshed(window', {"icon"})
        /\ UNCHANGED <<version, server, requests, events>>

Next ==
    \/ ChangeFlags
    \/ ServeSetState
    \/ ChangeDesktops
    \/ ChangeAttribute
    \/ ChangeIcon
    \/ Toggle
    \/ stateChangedCallback
    \/ virtualDesktopEnteredCallback
    \/ virtualDesktopLeftCallback
    \/ attributeCallback
    \/ pidChangedCallback
    \/ themedIconNameChangedCallback
    \/ iconChangedCallback
    \/ IconFetched

Spec == Init /\ [][Next]_vars

-----------------------------------------------------------------------------
\* What the view shows is what the window says at any time, in every role that has a
\* signal, though it reads a role only after that signal (PlasmaWindowModel::addWindow).
\* The role Pid has none: it stays what it was when the view read it last.
ViewIsFresh == \A r \in Roles \ {"pid"} : view[r] = data(window)[r]

\* Once everything has arrived the window is the compositor's, its icon excepted.
WindowFollows ==
    events = <<>> =>
        /\ window.flags = server.flags
        /\ window.attributes = server.attributes
        /\ Range(window.desktops) = server.desktops

\* The same of the icon, which fails: of two fetches the later may end first.
IconFollows == events = <<>> /\ fetches = <<>> => window.icon \in {server.icon, Fallback}

=============================================================================
