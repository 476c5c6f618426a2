---------------------------- MODULE MCInterfaces ----------------------------
(***************************************************************************)
(* Instances of the interfaces. Bounds: two of whatever there can be any   *)
(* number of, three where one is replaced while another is held, and       *)
(* queues long enough for events to overtake what the user does.           *)
(***************************************************************************)
EXTENDS Interfaces

\* The families whose classes can free all they hold.
Of(manager, children) == {[manager |-> manager, child |-> c] : c \in children}

MCFamilies ==
    UNION {
        Of("Compositor", {"Surface", "Region"}),
        Of("SubCompositor", {"SubSurface"}),
        Of("DataDeviceManager", {"DataSource", "DataDevice"}),
        Of("DataDevice", {"DataOffer"}),
        Of("Seat", {"Keyboard", "Pointer", "Touch"}),
        Of("Shell", {"ShellSurface"}),
        Of("PlasmaShell", {"PlasmaShellSurface"}),
        Of("PlasmaVirtualDesktopManagement", {"PlasmaVirtualDesktop"}),
        Of("IdleInhibitManager", {"IdleInhibitor"}),
        Of("AppMenuManager", {"AppMenu"}),
        Of("BlurManager", {"Blur"}),
        Of("ContrastManager", {"Contrast"}),
        Of("SlideManager", {"Slide"}),
        Of("ShadowManager", {"Shadow"}),
        Of("RelativePointerManager", {"RelativePointer"}),
        Of("PointerGestures", {"PointerSwipeGesture", "PointerPinchGesture"}),
        Of("PointerConstraints", {"LockedPointer", "ConfinedPointer"}),
        Of("XdgDecorationManager", {"XdgDecoration"}),
        Of("DpmsManager", {"Dpms"}),
        Of("XdgOutputManager", {"XdgOutput"}),
        Of("XdgExporter", {"XdgExported"}),
        Of("XdgImporter", {"XdgImported"}),
        Of("XdgShellStable", {"XdgTopLevelStable"}),
        Of("XdgShellUnstableV6", {"XdgTopLevelUnstableV6"}),
        Of("XdgShellUnstableV5", {"XdgShellSurfaceUnstableV5", "XdgShellPopupUnstableV5"}),
        Of("FakeInput", {"None"}), Of("None", {"None"}), Of("Output", {"None"}),
        Of("TextInputManagerUnstableV0", {"None"}),
        Of("TextInputManagerUnstableV2", {"None"}),
        Of("PlasmaActivationFeedback", {"None"})}

Sides == {"Top", "Bottom", "Left", "Right"}

\* Every set of edges as anchor; gravity and constraints take the same ways.
MCPositioners ==
    [size : {1}, anchorRect : {2}, anchorOffset : {0, 1}, anchorEdge : SUBSET Sides,
     gravity : {{}, {"Left"}, {"Right", "Bottom"}}, constraints : {{}, {"flip"}}]

=============================================================================
