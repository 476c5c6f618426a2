------------------------------ MODULE Wrappers ------------------------------
(***************************************************************************)
(* The life cycle of the library's wrapper classes. A wrapper owns one or  *)
(* two proxies; setup() takes them, release() frees them and tells the     *)
(* compositor, destroy() frees them without telling it, for a connection   *)
(* that is gone, and the destructor releases. Most wrappers are made by a  *)
(* manager. What a class owns and sends is its row of the table Class; the *)
(* actions are the life cycle of one manager and one child of one family,  *)
(* chosen in Init. The user keeps to the documentation: a wrapper is used  *)
(* while it is valid, set up when it is not, and destroyed when its        *)
(* connection dies.                                                        *)
(***************************************************************************)
EXTENDS Naturals, Sequences, Subsequences

CONSTANTS
    Families,        \* The families looked at: records of a manager and a child.
    MaxConnections,  \* How many connections there are.
    Cells            \* A region is a set of cells; other values are named by such sets.

-----------------------------------------------------------------------------
\* The requests of a class, each with the proxy it is made on.
On(proxy, requests) == [r \in requests |-> proxy]
OnBoth(role, requests, surface, others) ==
    [r \in requests \cup others |-> IF r \in requests THEN role ELSE surface]

(***************************************************************************)
(* The common form of a class: the proxies in the order they are freed in, *)
(* those release() frees, those destroy() frees (the sets are empty when   *)
(* the class does not offer the function) and those isValid() looks at;    *)
(* whether the manager's end ends it, whether it may wrap a proxy of the   *)
(* application's own connection, whether an event ends it, whether setup() *)
(* can be called again, whether its manager deletes it; which requests set *)
(* something the class remembers, whether it keeps such a request to       *)
(* itself when nothing changes, and whether setup() sends what it          *)
(* remembers.                                                              *)
(***************************************************************************)
Wrapper(proxies, requests) ==
    [proxies |-> proxies, requests |-> requests,
     released |-> Range(proxies), destroyed |-> Range(proxies), looksAt |-> Range(proxies),
     follows |-> FALSE, foreign |-> FALSE, ended |-> FALSE, renewable |-> TRUE,
     owned |-> FALSE, remembers |-> <<>>, skipsSame |-> FALSE, reinstalls |-> FALSE]

\* A class with one proxy.
Single(proxy, requests) == Wrapper(<<proxy>>, On(proxy, requests))

\* A class whose objects are released and destroyed with their manager.
Following(row) == [row EXCEPT !.follows = TRUE]

\* Managers and other globals.
Compositor == [Single("wl_compositor", {}) EXCEPT !.foreign = TRUE]
SubCompositor == Single("wl_subcompositor", {})
DataDeviceManager == Single("wl_data_device_manager", {})
IdleInhibitManager == Single("zwp_idle_inhibit_manager_v1", {})
AppMenuManager == Single("appmenu_manager", {})
BlurManager == Single("blur_manager", {"unset"})
ContrastManager == Single("contrast_manager", {"unset"})
SlideManager == Single("slide_manager", {"unset"})
ShadowManager == Single("shadow_manager", {"unset"})
RelativePointerManager == Single("zwp_relative_pointer_manager_v1", {})
PointerGestures == Single("zwp_pointer_gestures_v1", {})
PointerConstraints == Single("zwp_pointer_constraints_v1", {})
XdgDecorationManager == Single("zxdg_decoration_manager_v1", {})
DpmsManager == Single("dpms_manager", {})
XdgOutputManager == Single("zxdg_output_manager_v1", {})
XdgExporter == Single("zxdg_exporter_v2", {})
XdgImporter == Single("zxdg_importer_v2", {})
TextInputManagerUnstableV0 == Single("wl_text_input_manager", {})
TextInputManagerUnstableV2 == Single("zwp_text_input_manager_v2", {})
XdgShellStable == Single("xdg_wm_base", {"pong"})
XdgShellUnstableV6 == Single("zxdg_shell_v6", {"pong"})
XdgShellUnstableV5 == Single("xdg_shell", {"pong"})
PlasmaShell == Single("plasma_shell", {})
Shell == Single("wl_shell", {})
Seat == Single("wl_seat", {})
PlasmaActivationFeedback == Single("plasma_activation_feedback", {})
FakeInput ==
    Single("fake_input",
           {"authenticate", "pointer_motion", "pointer_motion_absolute", "button", "axis",
            "touch_down", "touch_motion", "touch_up", "touch_cancel", "touch_frame",
            "keyboard_key"})

\* The objects they make.
Surface ==
    [Single("wl_surface",
            {"frame", "commit", "damage", "damage_buffer", "attach", "set_input_region",
             "set_opaque_region", "set_buffer_scale"})
        EXCEPT !.foreign = TRUE]
Region == [Single("wl_region", {"add", "subtract"})
              EXCEPT !.remembers = [add |-> "region", subtract |-> "region"],
                     !.reinstalls = TRUE]
SubSurface ==
    [Single("wl_subsurface", {"set_mode", "set_position", "place_above", "place_below"})
        EXCEPT !.remembers = [set_mode |-> "mode", set_position |-> "pos"],
               !.skipsSame = TRUE]
DataSource == Single("wl_data_source", {"offer", "set_actions"})
DataDevice == Single("wl_data_device", {"start_drag", "set_selection"})
IdleInhibitor == Single("zwp_idle_inhibitor_v1", {})
AppMenu == Single("appmenu", {"set_address"})
Blur == Single("blur", {"commit", "set_region"})
Contrast ==
    Single("contrast",
           {"commit", "set_region", "set_contrast", "set_intensity", "set_saturation",
            "set_frost", "unset_frost"})
Slide == Single("slide", {"commit", "set_location", "set_offset"})
Shadow == Single("shadow", {"commit", "attach", "set_offsets"})
RelativePointer == Single("zwp_relative_pointer_v1", {})
PointerSwipeGesture == Single("zwp_pointer_gesture_swipe_v1", {})
PointerPinchGesture == Single("zwp_pointer_gesture_pinch_v1", {})
LockedPointer == Single("zwp_locked_pointer_v1", {"set_cursor_position_hint", "set_region"})
ConfinedPointer == Single("zwp_confined_pointer_v1", {"set_region"})
XdgDecoration == Single("zxdg_toplevel_decoration_v1", {"set_mode", "unset_mode"})
Dpms == Single("dpms", {"set"})
XdgOutput == Single("zxdg_output_v1", {})
XdgExported == Single("zxdg_exported_v2", {})
XdgImported == [Single("zxdg_imported_v2", {"set_parent_of"}) EXCEPT !.ended = TRUE]
Keyboard == Following(Single("wl_keyboard", {}))
Pointer == Following(Single("wl_pointer", {"set_cursor"}))
Touch == Following(Single("wl_touch", {}))
DataOffer == [Single("wl_data_offer", {"accept", "receive", "finish", "set_actions"})
                 EXCEPT !.renewable = FALSE, !.owned = TRUE]
ShellSurface ==
    [Following(Single("wl_shell_surface",
                      {"pong", "set_fullscreen", "set_maximized", "set_toplevel",
                       "set_transient", "set_popup", "move", "resize", "set_title",
                       "set_class"}))
        EXCEPT !.foreign = TRUE]
PlasmaShellSurface ==
    Following(Single("plasma_surface",
                     {"set_position", "open_under_cursor", "set_role", "set_panel_behavior",
                      "set_skip_taskbar", "set_skip_switcher", "panel_auto_hide_hide",
                      "panel_auto_hide_show", "set_panel_takes_focus"}))
PlasmaVirtualDesktopManagement ==
    Single("plasma_virtual_desktop_management",
           {"request_create_virtual_desktop", "request_remove_virtual_desktop"})
PlasmaVirtualDesktop ==
    [Single("plasma_virtual_desktop", {"request_activate"}) EXCEPT !.owned = TRUE]
Output == [Single("wl_output", {}) EXCEPT !.released = {}]

\* Objects no user can destroy: their classes offer neither release() nor destroy().
Unreachable(row) ==
    [row EXCEPT !.released = {}, !.destroyed = {}, !.renewable = FALSE]
PlasmaActivation == [Unreachable(Single("plasma_activation", {}))
                        EXCEPT !.owned = TRUE, !.ended = TRUE]
TextInputUnstableV2 ==
    Unreachable(Single("zwp_text_input_v2",
                       {"enable", "disable", "show_input_panel", "hide_input_panel",
                        "set_cursor_rectangle", "set_preferred_language",
                        "set_surrounding_text", "update_state", "set_content_type"}))
TextInputUnstableV0 ==
    Unreachable(Single("wl_text_input",
                       {"activate", "deactivate", "show_input_panel", "hide_input_panel",
                        "set_cursor_rectangle", "set_preferred_language",
                        "set_surrounding_text", "reset", "set_content_type"}))

\* A row whose class frees the role and leaves the xdg surface alone.
RoleOnly(row, role) ==
    [row EXCEPT !.released = {role}, !.destroyed = {role}, !.looksAt = {role}]
\* The role of an xdg surface, wrapped together with the surface it is given to.
ToplevelRequests ==
    {"set_parent", "set_title", "set_app_id", "show_window_menu", "move", "resize",
     "set_maximized", "unset_maximized", "set_fullscreen", "unset_fullscreen",
     "set_minimized", "set_max_size", "set_min_size"}
\* Mutant: the surface is freed before its role.
XdgTopLevelSurfaceFirst ==
    Wrapper(<<"xdg_surface", "xdg_toplevel">>,
            OnBoth("xdg_toplevel", ToplevelRequests,
                   "xdg_surface", {"ack_configure", "set_window_geometry"}))
XdgTopLevelStable ==
    Wrapper(<<"xdg_toplevel", "xdg_surface">>,
            OnBoth("xdg_toplevel", ToplevelRequests,
                   "xdg_surface", {"ack_configure", "set_window_geometry"}))
\* Mutant: release() leaves the xdg surface.
XdgTopLevelHalfReleased ==
    [Wrapper(<<"zxdg_toplevel_v6", "zxdg_surface_v6">>, On("zxdg_toplevel_v6", ToplevelRequests))
        EXCEPT !.released = {"zxdg_toplevel_v6"}]
XdgTopLevelUnstableV6 ==
    Wrapper(<<"zxdg_toplevel_v6", "zxdg_surface_v6">>,
            OnBoth("zxdg_toplevel_v6", ToplevelRequests,
                   "zxdg_surface_v6", {"ack_configure"}))
XdgShellSurfaceUnstableV5 ==
    Single("xdg_surface",
           (ToplevelRequests \ {"set_max_size", "set_min_size"}) \cup {"ack_configure"})
XdgShellPopupUnstableV5 == Single("xdg_popup", {})

\* Neither release() nor destroy() of a popup frees its xdg surface.
XdgShellPopupStable ==
    RoleOnly(Wrapper(<<"xdg_popup", "xdg_surface">>,
                     OnBoth("xdg_popup", {"grab"},
                            "xdg_surface", {"ack_configure", "set_window_geometry"})),
             "xdg_popup")
XdgShellPopupUnstableV6 ==
    RoleOnly(Wrapper(<<"zxdg_popup_v6", "zxdg_surface_v6">>,
                     OnBoth("zxdg_popup_v6", {"grab"},
                            "zxdg_surface_v6", {"ack_configure"})),
             "zxdg_popup_v6")

\* No object: the child of a manager that makes none.
None == Single("none", {})

Class ==
    [Compositor |-> Compositor, SubCompositor |-> SubCompositor,
     DataDeviceManager |-> DataDeviceManager, IdleInhibitManager |-> IdleInhibitManager,
     AppMenuManager |-> AppMenuManager, BlurManager |-> BlurManager,
     ContrastManager |-> ContrastManager, SlideManager |-> SlideManager,
     ShadowManager |-> ShadowManager, RelativePointerManager |-> RelativePointerManager,
     PointerGestures |-> PointerGestures, PointerConstraints |-> PointerConstraints,
     XdgDecorationManager |-> XdgDecorationManager, DpmsManager |-> DpmsManager,
     XdgOutputManager |-> XdgOutputManager, XdgExporter |-> XdgExporter,
     XdgImporter |-> XdgImporter,
     TextInputManagerUnstableV0 |-> TextInputManagerUnstableV0,
     TextInputManagerUnstableV2 |-> TextInputManagerUnstableV2,
     XdgShellStable |-> XdgShellStable, XdgShellUnstableV6 |-> XdgShellUnstableV6,
     XdgShellUnstableV5 |-> XdgShellUnstableV5, PlasmaShell |-> PlasmaShell,
     Shell |-> Shell, Seat |-> Seat, FakeInput |-> FakeInput, Output |-> Output,
     PlasmaActivationFeedback |-> PlasmaActivationFeedback,
     PlasmaVirtualDesktopManagement |-> PlasmaVirtualDesktopManagement,
     Surface |-> Surface, Region |-> Region, SubSurface |-> SubSurface,
     DataSource |-> DataSource, DataDevice |-> DataDevice, DataOffer |-> DataOffer,
     IdleInhibitor |-> IdleInhibitor, AppMenu |-> AppMenu, Blur |-> Blur,
     Contrast |-> Contrast, Slide |-> Slide, Shadow |-> Shadow,
     RelativePointer |-> RelativePointer, PointerSwipeGesture |-> PointerSwipeGesture,
     PointerPinchGesture |-> PointerPinchGesture, LockedPointer |-> LockedPointer,
     ConfinedPointer |-> ConfinedPointer, XdgDecoration |-> XdgDecoration,
     Dpms |-> Dpms, XdgOutput |-> XdgOutput, XdgExported |-> XdgExported,
     XdgImported |-> XdgImported, Keyboard |-> Keyboard, Pointer |-> Pointer,
     Touch |-> Touch, ShellSurface |-> ShellSurface,
     PlasmaShellSurface |-> PlasmaShellSurface,
     PlasmaVirtualDesktop |-> PlasmaVirtualDesktop, PlasmaActivation |-> PlasmaActivation,
     TextInputUnstableV0 |-> TextInputUnstableV0,
     TextInputUnstableV2 |-> TextInputUnstableV2,
     XdgTopLevelStable |-> XdgTopLevelStable,
     XdgTopLevelUnstableV6 |-> XdgTopLevelUnstableV6,
     XdgShellSurfaceUnstableV5 |-> XdgShellSurfaceUnstableV5,
     XdgShellPopupStable |-> XdgShellPopupStable,
     XdgShellPopupUnstableV6 |-> XdgShellPopupUnstableV6,
     XdgShellPopupUnstableV5 |-> XdgShellPopupUnstableV5,
     None |-> None]

Objects == {"manager", "child"}
Values == SUBSET Cells

\* A request on the wire: of an object, on a proxy of a connection.
Message(o, p, c, r) == [object |-> o, proxy |-> p, connection |-> c, request |-> r]

-----------------------------------------------------------------------------
VARIABLES
    family,       \* The forms of the manager's and the child's class.
    connection,   \* The connection there is, 0 when there is none.
    connections,  \* How many connections there have been.
    alive,        \* Whether each object exists.
    held,         \* The connection of each proxy an object holds, 0 when it holds none.
    foreign,      \* Whether what an object holds belongs to the application.
    memo,         \* What an object remembers of its requests.
    told,         \* What the compositor was told of that by the proxy held now.
    renewed,      \* Whether an object was set up a second time.
    linked,       \* Whether the child listens to the manager there is.
    sent          \* The messages of the last step, in their order.

vars == <<family, connection, connections, alive, held, foreign, memo, told, renewed,
          linked, sent>>

Row(o) == family[o]
Proxies(o) == Range(Row(o).proxies)
Nothing(o) == [p \in Proxies(o) |-> 0]
Bound(o, c) == [p \in Proxies(o) |-> c]
Remembered(o) == Range(Row(o).remembers)
Blank(o) == [x \in Remembered(o) |-> {}]

\* isValid().
Valid(o) == alive[o] /\ \A p \in Row(o).looksAt : held[o][p] # 0

\* The destructor requests that freeing the proxies ps of o makes, in the order of
\* the class; a proxy of the application is only forgotten.
Destructors(o, ps) ==
    LET all == Row(o).proxies
        freed == Kept(all, {i \in DOMAIN all : /\ all[i] \in ps
                                              /\ held[o][all[i]] # 0 /\ ~foreign[o]})
    IN  [i \in DOMAIN freed |-> Message(o, freed[i], held[o][freed[i]], "destroy")]

Without(o, ps) == [p \in Proxies(o) |-> IF p \in ps THEN 0 ELSE held[o][p]]

TypeOK ==
    /\ DOMAIN family = Objects
    /\ connection \in 0..MaxConnections
    /\ connections \in 0..MaxConnections
    /\ alive \in [Objects -> BOOLEAN]
    /\ \A o \in Objects : held[o] \in [Proxies(o) -> 0..MaxConnections]
    /\ foreign \in [Objects -> BOOLEAN]
    /\ \A o \in Objects : memo[o] \in [Remembered(o) -> Values]
    /\ \A o \in Objects : told[o] \in [Remembered(o) -> Values]
    /\ renewed \in [Objects -> BOOLEAN]
    /\ linked \in BOOLEAN

Init ==
    /\ family \in {[o \in Objects |-> Class[f[o]]] : f \in Families}
    /\ connection = 0
    /\ connections = 0
    /\ alive = [o \in Objects |-> FALSE]
    /\ held = [o \in Objects |-> Nothing(o)]
    /\ foreign = [o \in Objects |-> FALSE]
    /\ memo = [o \in Objects |-> Blank(o)]
    /\ told = [o \in Objects |-> Blank(o)]
    /\ renewed = [o \in Objects |-> FALSE]
    /\ linked = FALSE
    /\ sent = <<>>

Connect ==
    /\ connection = 0
    /\ connections < MaxConnections
    /\ connections' = connections + 1
    /\ connection' = connections + 1
    /\ sent' = <<>>
    /\ UNCHANGED <<family, alive, held, foreign, memo, told, renewed, linked>>

\* The constructor of a manager: it holds nothing yet.
Construct ==
    /\ ~alive["manager"]
    /\ family["manager"] # None
    /\ alive' = [alive EXCEPT !["manager"] = TRUE]
    /\ held' = [held EXCEPT !["manager"] = Nothing("manager")]
    /\ foreign' = [foreign EXCEPT !["manager"] = FALSE]
    /\ renewed' = [renewed EXCEPT !["manager"] = FALSE]
    /\ sent' = <<>>
    /\ UNCHANGED <<family, connection, connections, memo, told, linked>>

\* Mutant: nothing is known of what was told.
RetoldNothing(o) == <<>>
\* Mutant: setup() does not send what is remembered.
RetoldBlank(o) == Blank(o)
\* What setup() tells the compositor of what o remembers.
Retold(o) == IF Row(o).reinstalls THEN memo[o] ELSE Blank(o)

\* setup() with proxies of the connection there is, of an object that is not valid.
Setup(o) ==
    /\ alive[o]
    /\ ~Valid(o)
    /\ Row(o).renewable
    /\ connection # 0
    /\ o = "child" => Valid("manager")
    /\ held' = [held EXCEPT ![o] = Bound(o, connection)]
    /\ foreign' = [foreign EXCEPT ![o] = FALSE]
    /\ told' = [told EXCEPT ![o] = Retold(o)]
    /\ renewed' = [renewed EXCEPT ![o] = TRUE]
    /\ sent' = <<>>
    /\ UNCHANGED <<family, connection, connections, alive, memo, linked>>

\* Compositor::fromApplication, Surface::fromWindow, ShellSurface::fromWindow.
FromApplication(o) ==
    /\ ~alive[o]
    /\ Row(o).foreign
    /\ connection # 0
    /\ alive' = [alive EXCEPT ![o] = TRUE]
    /\ held' = [held EXCEPT ![o] = Bound(o, connection)]
    /\ foreign' = [foreign EXCEPT ![o] = TRUE]
    /\ memo' = [memo EXCEPT ![o] = Blank(o)]
    /\ told' = [told EXCEPT ![o] = Blank(o)]
    /\ renewed' = [renewed EXCEPT ![o] = FALSE]
    /\ linked' = (linked /\ o = "manager")
    /\ sent' = <<>>
    /\ UNCHANGED <<family, connection, connections>>

\* The manager's request that makes a child, and the child's setup(); a region is
\* given its first value by its constructor.
CreateChild ==
    /\ family["child"] # None
    /\ Valid("manager")
    /\ ~alive["child"]
    /\ alive' = [alive EXCEPT !["child"] = TRUE]
    /\ held' = [held EXCEPT !["child"] =
                    [p \in Proxies("child") |->
                        held["manager"][Row("manager").proxies[1]]]]
    /\ foreign' = [foreign EXCEPT !["child"] = FALSE]
    /\ \E first \in IF Row("child").reinstalls THEN Values ELSE {{}} :
           /\ memo' = [memo EXCEPT !["child"] = [x \in Remembered("child") |-> first]]
           /\ told' = [told EXCEPT !["child"] = [x \in Remembered("child") |-> first]]
    /\ renewed' = [renewed EXCEPT !["child"] = FALSE]
    /\ linked' = Row("child").follows
    /\ sent' = <<>>
    /\ UNCHANGED <<family, connection, connections>>

\* A request of a valid object that is not remembered.
Request(o) ==
    /\ Valid(o)
    /\ \E r \in DOMAIN Row(o).requests \ DOMAIN Row(o).remembers :
           LET p == Row(o).requests[r]
           IN  sent' = <<Message(o, p, held[o][p], r)>>
    /\ UNCHANGED <<family, connection, connections, alive, held, foreign, memo, told, renewed,
                   linked>>

\* What a request makes of the value it is about.
Effect(r, old, v) ==
    CASE r = "add" -> old \cup v
      [] r = "subtract" -> old \ v
      [] OTHER -> v

\* A request whose value the object keeps. A region also keeps it while it is not
\* valid; a sub-surface keeps a value it has already to itself.
Remember(o) ==
    \E r \in DOMAIN Row(o).remembers, v \in Values :
        LET x == Row(o).remembers[r]
            p == Row(o).requests[r]
            sends == Valid(o) /\ ~(Row(o).skipsSame /\ v = memo[o][x])
        IN  /\ alive[o]
            /\ Valid(o) \/ Row(o).reinstalls
            /\ Row(o).reinstalls => v # {}
            /\ memo' = [memo EXCEPT ![o][x] = Effect(r, @, v)]
            /\ told' = IF sends THEN [told EXCEPT ![o][x] = Effect(r, @, v)] ELSE told
            /\ sent' = IF sends THEN <<Message(o, p, held[o][p], r)>> ELSE <<>>
            /\ UNCHANGED <<family, connection, connections, alive, held, foreign, renewed,
                           linked>>

\* What else a manager's release() releases: a child that listens to
\* interfaceAboutToBeReleased, which is emitted before the manager's proxy is freed.
ReleasedWith(o) ==
    IF o = "manager" /\ linked THEN Row("child").released ELSE {}

\* release() by the user.
Release(o) ==
    /\ \E p \in Row(o).released : held[o][p] # 0
    /\ sent' = Destructors("child", ReleasedWith(o)) \o Destructors(o, Row(o).released)
    /\ held' = [x \in Objects |->
                   Without(x, IF x = o THEN Row(o).released ELSE ReleasedWith(o))]
    /\ UNCHANGED <<family, connection, connections, alive, foreign, memo, told, renewed,
                   linked>>

\* The connection is lost and destroy() is called on everything that offers it.
ConnectionDies ==
    /\ connection # 0
    /\ connection' = 0
    /\ held' = [o \in Objects |-> Without(o, Row(o).destroyed)]
    /\ sent' = <<>>
    /\ UNCHANGED <<family, connections, alive, foreign, memo, told, renewed, linked>>

\* The destructor of a child: release() and then its members' destructors.
DeleteChild ==
    /\ alive["child"]
    /\ alive' = [alive EXCEPT !["child"] = FALSE]
    /\ sent' = Destructors("child", Proxies("child"))
    /\ held' = [held EXCEPT !["child"] = Nothing("child")]
    /\ linked' = FALSE
    /\ UNCHANGED <<family, connection, connections, foreign, memo, told, renewed>>

\* The destructor of a manager: release(), then the children it owns.
DeleteManager ==
    LET owned == alive["child"] /\ Row("child").owned
        freed == IF owned THEN Proxies("child") ELSE ReleasedWith("manager")
        own == Destructors("manager", Proxies("manager"))
        others == Destructors("child", freed)
    IN  /\ alive["manager"]
        /\ alive' = [manager |-> FALSE, child |-> alive["child"] /\ ~owned]
        /\ sent' = IF owned THEN own \o others ELSE others \o own
        /\ held' = [manager |-> Nothing("manager"), child |-> Without("child", freed)]
        /\ linked' = FALSE
        /\ UNCHANGED <<family, connection, connections, foreign, memo, told, renewed>>

\* finished of an activation, destroyed of an imported window: the object frees itself.
EndEvent ==
    /\ Row("child").ended
    /\ Valid("child")
    /\ connection # 0
    /\ sent' = Destructors("child", Proxies("child"))
    /\ held' = [held EXCEPT !["child"] = Nothing("child")]
    /\ UNCHANGED <<family, connection, connections, alive, foreign, memo, told, renewed,
                   linked>>

Next ==
    \/ Connect
    \/ Construct
    \/ CreateChild
    \/ ConnectionDies
    \/ DeleteChild
    \/ DeleteManager
    \/ EndEvent
    \/ \E o \in Objects :
           \/ Setup(o)
           \/ FromApplication(o)
           \/ Request(o)
           \/ Remember(o)
           \/ Release(o)

Spec == Init /\ [][Next]_vars

-----------------------------------------------------------------------------
\* Nothing is sent on a proxy of a connection that is gone: its memory is freed with
\* the display, so destroy() has to have reached every proxy (wayland_pointer_p.h).
NothingSentToTheDead == \A i \in DOMAIN sent : sent[i].connection = connection

Roles == {"xdg_toplevel", "zxdg_toplevel_v6", "xdg_popup", "zxdg_popup_v6"}
SurfaceOf ==
    [p \in Roles |-> IF p \in {"xdg_toplevel", "xdg_popup"} THEN "xdg_surface"
                     ELSE "zxdg_surface_v6"]

\* An xdg surface is destroyed only after its role, which the protocol makes an error:
\* neither within a step nor in an earlier one (XdgTopLevelStable::Private::release).
RoleBeforeSurface ==
    \A o \in Objects : \A role \in Roles \cap Proxies(o) :
        SurfaceOf[role] \in Proxies(o) =>
            /\ held[o][role] # 0 => held[o][SurfaceOf[role]] # 0
            /\ \A i, j \in DOMAIN sent :
                   /\ sent[i].object = o /\ sent[i].proxy = SurfaceOf[role]
                   /\ sent[j].object = o /\ sent[j].proxy = role
                   => j < i

\* What the wrappers send is legal on the wire, whatever the order of the calls.
WireIsLegal == NothingSentToTheDead /\ RoleBeforeSurface

\* An object that is not valid holds nothing: it can be set up again without leaking a
\* proxy or failing the assertion of setup(), and be deleted without sending.
InvalidHoldsNothing == \A o \in Objects : ~Valid(o) => held[o] = Nothing(o)

\* A child that listens to its manager's end never outlives the manager's proxy
\* (Shell::createSurface, PlasmaShell::createSurface, Seat::createKeyboard).
FollowersGoFirst == linked /\ Valid("child") => Valid("manager")

\* What a valid object remembers is what the compositor was told, through calls made
\* before it was set up and after (Region, SubSurface). A sub-surface keeps this only
\* until it is set up a second time.
CompositorIsTold ==
    \A o \in Objects :
        Valid(o) /\ (Row(o).reinstalls \/ ~renewed[o]) => told[o] = memo[o]

=============================================================================
