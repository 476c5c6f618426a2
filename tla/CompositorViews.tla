-------------------------- MODULE CompositorViews --------------------------
(***************************************************************************)
(* The interfaces that show what the compositor has: desktops, the order   *)
(* of the windows, the objects of the shell, a window's attributes, touch  *)
(* points, and the seat with its devices.  They share no state: a behaviour*)
(* is about one of them at most, the others keep their initial state.      *)
(***************************************************************************)
EXTENDS Naturals, Sequences, FiniteSets

\* The constants of each module, under the names they have there; what several modules
\* have is shared, or named for what it is of.
CONSTANTS
    Addresses, MaxSurfaces, MaxShellSurfaces
CONSTANTS
    Desktops, MaxDesktops, MaxDesktopEvents
CONSTANTS
    Windows, MaxChanges
CONSTANTS
    Flags, Fields, Titles, MaxIcons, MaxWindowEvents
CONSTANTS
    TouchIds, MaxPoints, MaxTouchEvents
CONSTANTS
    MaxInputSurfaces, MaxInputSerial, MaxInputEvents

\* The bounds are numbers, the windows can be listed, a window has a title, and a role
\* of a view is one thing.
ASSUME ViewsAssumption ==
    /\ {MaxSurfaces, MaxShellSurfaces, MaxDesktops, MaxIcons, MaxPoints,
        MaxInputSurfaces, MaxInputSerial} \subseteq Nat
    /\ IsFiniteSet(Windows)
    /\ Titles # {}
    /\ Flags \cap (Fields \cup {"desktops", "icon"}) = {}
    /\ Fields \cap {"on_all_desktops", "desktops", "icon"} = {}

VARIABLE component
VARIABLES
    plasmaSurfaces, shell, shellSurfaces, given, created
VARIABLES
    desktopAnnounced, desktopActive, bound, desktopEvents, desktops, made
VARIABLES
    history, wm, stackRequests, stackEvents, lists, order, stackAnnounced
VARIABLES
    windowVersion, windowServer, windowRequests, windowEvents, window, fetches, view
VARIABLES
    down, serial, touchEvents, sequence, touchActive, deleted, signal
VARIABLES
    kind, inputServer, inputEvents, seat, inputDevice, inputSurfaces

plasmaVars == <<plasmaSurfaces, shell, shellSurfaces, given, created>>
desktopVars == <<desktopAnnounced, desktopActive, bound, desktopEvents, desktops, made>>
stackVars == <<history, wm, stackRequests, stackEvents, lists, order, stackAnnounced>>
windowVars == <<windowVersion, windowServer, windowRequests, windowEvents, window,
                fetches, view>>
touchVars == <<down, serial, touchEvents, sequence, touchActive, deleted, signal>>
inputVars == <<kind, inputServer, inputEvents, seat, inputDevice, inputSurfaces>>

viewVars == <<plasmaVars, desktopVars, stackVars, windowVars, touchVars, inputVars>>

-----------------------------------------------------------------------------
S == INSTANCE PlasmaShell WITH surfaces <- plasmaSurfaces
V == INSTANCE VirtualDesktops WITH
    MaxObjects <- MaxDesktops, MaxEvents <- MaxDesktopEvents,
    announced <- desktopAnnounced, active <- desktopActive, events <- desktopEvents
O == INSTANCE StackingOrder WITH
    requests <- stackRequests, events <- stackEvents, announced <- stackAnnounced
A == INSTANCE WindowAttributes WITH
    MaxEvents <- MaxWindowEvents,
    version <- windowVersion, server <- windowServer, requests <- windowRequests,
    events <- windowEvents
T == INSTANCE Touch WITH
    Ids <- TouchIds, MaxEvents <- MaxTouchEvents, events <- touchEvents, active <- touchActive
I == INSTANCE InputDevices WITH
    MaxSurfaces <- MaxInputSurfaces, MaxSerial <- MaxInputSerial,
    MaxEvents <- MaxInputEvents, server <- inputServer, events <- inputEvents,
    device <- inputDevice, surfaces <- inputSurfaces

-----------------------------------------------------------------------------
\* What is not looked at has one initial state.
ViewsInit ==
    /\ S!Init
    /\ V!Init
    /\ O!Init
    /\ A!Init /\ (component = "WindowAttributes" \/ windowVersion = 8)
    /\ T!Init
    /\ I!Init /\ (component = "InputDevices" \/ kind = "keyboard")

ViewsNext ==
    /\ UNCHANGED component
    /\ IF component = "PlasmaShell" THEN S!Next ELSE UNCHANGED plasmaVars
    /\ IF component = "VirtualDesktops" THEN V!Next ELSE UNCHANGED desktopVars
    /\ IF component = "StackingOrder" THEN O!Next ELSE UNCHANGED stackVars
    /\ IF component = "WindowAttributes" THEN A!Next ELSE UNCHANGED windowVars
    /\ IF component = "Touch" THEN T!Next ELSE UNCHANGED touchVars
    /\ IF component = "InputDevices" THEN I!Next ELSE UNCHANGED inputVars

ViewsSpec == ViewsInit /\ [][ViewsNext]_<<component, viewVars>>

-----------------------------------------------------------------------------
\* Each state is of its type.
ViewsTypeOK ==
    /\ component = "PlasmaShell" => S!TypeOK
    /\ component = "VirtualDesktops" => V!TypeOK
    /\ component = "StackingOrder" => O!TypeOK
    /\ component = "WindowAttributes" => A!TypeOK
    /\ component = "Touch" => T!TypeOK
    /\ component = "InputDevices" => I!TypeOK

\* The desktops, the windows' order, the objects of the shell and a window's attributes
\* follow the compositor whatever the user asks for meanwhile (createdCallback,
\* stackingOrder2Callback, PlasmaShell::createSurface, PlasmaWindow). Two headers promise
\* more than the code does and than is said here: one object for each desktop, also before
\* it is announced (plasmavirtualdesktop.h:107), and one for each wl_surface, also if no
\* Surface wraps it (plasmashell.h:106-115).
ListsFollow ==
    /\ component = "VirtualDesktops" => V!ListEventsFit /\ V!ListFollows /\ V!ListIsLive
    /\ component = "StackingOrder" => O!OrderFollows
    /\ component = "PlasmaShell" => S!OneForEachSurface
    /\ component = "WindowAttributes" => A!WindowFollows

\* A view shows what the window says, in every role but Pid, whose changes are not
\* signalled (PlasmaWindowModel::addWindow, pidChangedCallback).
ViewIsFresh == component = "WindowAttributes" => A!ViewIsFresh

\* The seat, its devices and the touch points are those of the compositor
\* (Surface::get, Touch::Private::down, up, cancelCallback).
InputFollows ==
    /\ component = "InputDevices" => I!InputFollows
    /\ component = "Touch" => T!TouchFollows

=============================================================================
