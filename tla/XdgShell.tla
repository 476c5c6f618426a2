------------------------------ MODULE XdgShell ------------------------------
(***************************************************************************)
(* A window of a shell, in the four protocols the library speaks: its      *)
(* creation, the configure events and what the user is told of them. In    *)
(* xdg-shell (stable and v6) a configure is a batch: events of the role    *)
(* and then one event of the xdg surface that applies them; in v5 and in   *)
(* wl_shell it is a single event. The positioner of a popup and the edges  *)
(* of a resize are translated to the numbers of the protocol on the way    *)
(* out.                                                                    *)
(***************************************************************************)
EXTENDS Integers, Sequences, FiniteSetsExt

CONSTANTS
    Sizes,        \* Sizes and rectangles a compositor sends and a user gives.
    States,       \* States a compositor sends, among them some unknown to the library.
    Constraints,  \* Constraint adjustments of a positioner.
    Positioners,  \* The positioners users give.
    MaxSerial,    \* How many configures are sent.
    MaxDrafts,    \* How many events of the role a batch has.
    MaxObjects    \* How often the object is set up.

Null == 0        \* The size 0x0, for which QSize::isNull() holds.
Unset == -1      \* QSize() and QRect(): not null.
Batched == {"stable", "v6"}
Versions == Batched \cup {"v5", "wl_shell"}
Edges == {"Top", "Bottom", "Left", "Right"}

\* The states the library knows; it drops the others.
Known == States \cap {"Maximized", "Fullscreen", "Resizing", "Activated"}

-----------------------------------------------------------------------------
\* Mutant: left and right are swapped.
OnSideMirrored(e, side, left, right, alone) ==
    CASE "Left" \in e /\ e \ {"Left"} = {side} -> right
      [] "Right" \in e /\ e \ {"Right"} = {side} -> left
      [] e \ {side} = {} -> alone
      [] OTHER -> "none"

\* Edges on the way out: two edges that meet, or one alone, are an enumerator.
OnSide(e, side, left, right, alone) ==
    CASE "Left" \in e /\ e \ {"Left"} = {side} -> left
      [] "Right" \in e /\ e \ {"Right"} = {side} -> right
      [] e \ {side} = {} -> alone
      [] OTHER -> "none"

EdgeName(e) ==
    IF "Top" \in e THEN OnSide(e, "Top", "top_left", "top_right", "top")
    ELSE IF "Bottom" \in e THEN OnSide(e, "Bottom", "bottom_left", "bottom_right", "bottom")
    ELSE IF "Right" \in e /\ e \ {"Right"} = {} THEN "right"
    ELSE IF "Left" \in e /\ e \ {"Left"} = {} THEN "left"
    ELSE "none"

\* The edge of a resize; each protocol has the same enumeration.
ResizeStable(e) == EdgeName(e)
ResizeV6(e) == EdgeName(e)
ResizeV5(e) == EdgeName(e)
ResizeWlShell(e) == EdgeName(e)
ResizeEdge(v, e) ==
    CASE v = "stable" -> ResizeStable(e)
      [] v = "v6" -> ResizeV6(e)
      [] v = "v5" -> ResizeV5(e)
      [] v = "wl_shell" -> ResizeWlShell(e)

\* Anchors and gravities in v6 are bits.
Bit == [Top |-> 1, Bottom |-> 2, Left |-> 4, Right |-> 8]
BitsV6(e) ==
    LET flag(d) == IF d \in e THEN Bit[d] ELSE 0
    IN  flag("Left") + flag("Top") + flag("Right") + flag("Bottom")

Request(name, value) == [request |-> name, value |-> value]
\* What is only sent when it is not the protocol's default.
Unless(default, name, value) ==
    IF value = default THEN <<>> ELSE <<Request(name, value)>>

\* The requests that make a popup: its positioner is filled, used and destroyed.
\* (The bits of the constraints, one "if" for each, are taken as they are.)
PopupStable(p) ==
    <<Request("get_xdg_surface", {}), Request("create_positioner", {}),
      Request("set_anchor_rect", p.anchorRect), Request("set_size", p.size)>>
        \o Unless(Null, "set_offset", p.anchorOffset)
        \o Unless("none", "set_anchor", EdgeName(p.anchorEdge))
        \o Unless("none", "set_gravity", EdgeName(p.gravity))
        \o Unless({}, "set_constraint_adjustment", p.constraints)
        \o <<Request("get_popup", {}), Request("destroy_positioner", {})>>
PopupV6(p) ==
    <<Request("get_xdg_surface", {}), Request("create_positioner", {}),
      Request("set_anchor_rect", p.anchorRect), Request("set_size", p.size)>>
        \o Unless(Null, "set_offset", p.anchorOffset)
        \o Unless(0, "set_anchor", BitsV6(p.anchorEdge))
        \o Unless(0, "set_gravity", BitsV6(p.gravity))
        \o Unless({}, "set_constraint_adjustment", p.constraints)
        \o <<Request("get_popup", {}), Request("destroy_positioner", {})>>

-----------------------------------------------------------------------------
VARIABLES
    version,       \* The protocol.
    role,          \* "none" until the window is made, then "toplevel" or "popup";
                   \* "released" for a popup whose xdg_surface is left.
    objects,       \* How often it was made.
    events,        \* The compositor's events on their way.
    draft,         \* What the compositor has sent of the next batch.
    drafts,        \* How many events that took.
    batches,       \* Every batch sent to this object, by its serial.
    pendingSize,   \* The pending size of a window, the pending rectangle of a popup.
    pendingState,  \* The pending states.
    size,          \* size().
    announced,     \* What configureRequested last said.
    asked,         \* What the user asked for in the last step.
    wire           \* The requests of the last step.

compositorVars == <<events, draft, drafts, batches>>
clientVars == <<pendingSize, pendingState, size, announced>>
vars == <<version, role, objects, compositorVars, clientVars, asked, wire>>

Nobody == [size |-> Unset, states |-> {}, serial |-> 0]
Idle == [kind |-> "nothing"]
Contents == [size : Sizes, states : SUBSET States]
Bare == [size |-> Unset, states |-> {}]   \* A batch without an event of the role.

TypeOK ==
    /\ version \in Versions
    /\ role \in {"none", "toplevel", "popup", "released"}
    /\ objects \in 0..MaxObjects
    /\ \A i \in DOMAIN events :
           events[i] \in [kind : {"role"}, size : Sizes, states : SUBSET States]
                             \cup [kind : {"surface"}, serial : 1..MaxSerial]
                             \cup [kind : {"configure"}, size : Sizes,
                                   states : SUBSET States, serial : 1..MaxSerial]
    /\ draft \in Contents \cup {Bare}
    /\ drafts \in 0..MaxDrafts
    /\ Len(batches) <= MaxSerial
    /\ pendingSize \in Sizes \cup {Unset}
    /\ pendingState \in SUBSET Known
    /\ size \in Sizes \cup {Unset}
    /\ announced \in [size : Sizes \cup {Unset}, states : SUBSET Known, serial : 0..MaxSerial]

Init ==
    /\ version \in Versions
    /\ role = "none"
    /\ objects = 0
    /\ events = <<>>
    /\ draft = Bare
    /\ drafts = 0
    /\ batches = <<>>
    /\ pendingSize = Unset
    /\ pendingState = {}
    /\ size = Unset
    /\ announced = Nobody
    /\ asked = Idle
    /\ wire = <<>>

Silent == asked' = Idle /\ wire' = <<>>

\* The proxies of a new window.
Fresh ==
    /\ objects < MaxObjects
    /\ role = "none"
    /\ objects' = objects + 1
    /\ UNCHANGED <<version, compositorVars, clientVars>>

\* createSurface().
CreateToplevel ==
    /\ Fresh
    /\ role' = "toplevel"
    /\ Silent

\* createPopup() with a positioner. An object for popups is set up once: setup() asserts
\* that there is no xdg_surface, and nothing but deletion frees the one it has.
CreatePopup ==
    /\ version \in Batched
    /\ objects = 0
    /\ Fresh
    /\ role' = "popup"
    /\ \E p \in Positioners :
           /\ asked' = [kind |-> "popup", positioner |-> p]
           /\ wire' = IF version = "stable" THEN PopupStable(p) ELSE PopupV6(p)

\* release() of a window, so that the object can be set up again. What was sent to its
\* proxies goes with them, what it has pending stays.
Release ==
    /\ role = "toplevel"
    /\ role' = "none"
    /\ events' = <<>>
    /\ draft' = Bare
    /\ drafts' = 0
    /\ batches' = <<>>
    /\ announced' = Nobody
    /\ Silent
    /\ UNCHANGED <<version, objects, pendingSize, pendingState, size>>

\* release() of a popup frees the role alone: the xdg_surface stays, and is listened to.
ReleasePopup ==
    /\ role = "popup"
    /\ role' = "released"
    /\ Silent
    /\ UNCHANGED <<version, objects, compositorVars, clientVars>>

\* requestResize(). It touches nothing the events are about: as a bound, the model
\* only looks at it before the first event.
RequestResize ==
    /\ role = "toplevel"
    /\ batches = <<>> /\ drafts = 0
    /\ \E e \in SUBSET Edges :
           /\ asked' = [kind |-> "resize", edges |-> e]
           /\ wire' = <<Request("resize", ResizeEdge(version, e))>>
    /\ UNCHANGED <<version, role, objects, compositorVars, clientVars>>

-----------------------------------------------------------------------------
\* The compositor: events of the role, any number of them, for the next batch.
SendRole ==
    /\ role # "none"
    /\ version \in Batched
    /\ drafts < MaxDrafts
    /\ Len(batches) < MaxSerial
    /\ \E c \in Contents :
           /\ role # "toplevel" => c.states = {}
           /\ draft' = c
           /\ events' = Append(events, [kind |-> "role", size |-> c.size, states |-> c.states])
    /\ drafts' = drafts + 1
    /\ Silent
    /\ UNCHANGED <<version, role, objects, batches, clientVars>>

\* The event of the xdg surface that ends the batch.
SendSurface ==
    /\ role # "none"
    /\ version \in Batched
    /\ Len(batches) < MaxSerial
    /\ batches' = Append(batches, draft)
    /\ events' = Append(events, [kind |-> "surface", serial |-> Len(batches) + 1])
    /\ draft' = Bare
    /\ drafts' = 0
    /\ Silent
    /\ UNCHANGED <<version, role, objects, clientVars>>

\* The configure event of the other protocols.
SendConfigure ==
    /\ role = "toplevel"
    /\ version \notin Batched
    /\ Len(batches) < MaxSerial
    /\ \E c \in Contents :
           /\ version = "wl_shell" => c.states = {}
           /\ batches' = Append(batches, c)
           /\ events' = Append(events, [kind |-> "configure", size |-> c.size,
                                        states |-> c.states, serial |-> Len(batches) + 1])
    /\ Silent
    /\ UNCHANGED <<version, role, objects, draft, drafts, clientVars>>

-----------------------------------------------------------------------------
\* The first event, of a kind.
Takes(kind) ==
    /\ events # <<>>
    /\ Head(events).kind = kind
    /\ events' = Tail(events)
    /\ Silent
    /\ UNCHANGED <<version, role, objects, draft, drafts, batches>>

\* XdgTopLevelStable::Private::configureCallback and its like, of a popup too: they
\* store what the event says.
configureCallback ==
    /\ role # "released"
    /\ Takes("role")
    /\ pendingSize' = Head(events).size
    /\ pendingState' = Head(events).states \cap Known
    /\ UNCHANGED <<size, announced>>

\* libwayland drops the events of the role that was released.
droppedConfigure ==
    /\ role = "released"
    /\ Takes("role")
    /\ UNCHANGED clientVars

\* Mutant: the states stay pending, and 0x0 is applied.
surfaceConfigureKeepingState ==
    /\ role = "toplevel"
    /\ Takes("surface")
    /\ announced' = [size |-> pendingSize, states |-> pendingState,
                     serial |-> Head(events).serial]
    /\ size' = pendingSize
    /\ pendingSize' = Unset
    /\ UNCHANGED pendingState

\* surfaceConfigureCallback of a window: the user is told before the pending state is
\* applied; a pending size of 0x0 is not applied and stays.
surfaceConfigureCallback ==
    /\ role = "toplevel"
    /\ Takes("surface")
    /\ announced' = [size |-> pendingSize, states |-> pendingState,
                     serial |-> Head(events).serial]
    /\ size' = IF pendingSize # Null THEN pendingSize ELSE size
    /\ pendingSize' = IF pendingSize # Null THEN Unset ELSE pendingSize
    /\ pendingState' = {}

\* surfaceConfigureCallback of a popup, also of one that was released.
popupConfigureCallback ==
    /\ role \in {"popup", "released"}
    /\ Takes("surface")
    /\ announced' = [size |-> pendingSize, states |-> {}, serial |-> Head(events).serial]
    /\ pendingSize' = Unset
    /\ UNCHANGED <<pendingState, size>>

\* XdgShellSurfaceUnstableV5::Private::configureCallback.
configureCallbackV5 ==
    /\ version = "v5"
    /\ Takes("configure")
    /\ LET e == Head(events)
       IN  /\ announced' = [size |-> e.size, states |-> e.states \cap Known,
                            serial |-> e.serial]
           /\ size' = IF e.size # Null THEN e.size ELSE size
    /\ UNCHANGED <<pendingSize, pendingState>>

\* ShellSurface::Private::configureCallback: the size is taken as it is. The serial
\* is the model's, to tell which event it was.
configureCallbackWlShell ==
    /\ version = "wl_shell"
    /\ Takes("configure")
    /\ announced' = [size |-> Head(events).size, states |-> {}, serial |-> Head(events).serial]
    /\ size' = Head(events).size
    /\ UNCHANGED <<pendingSize, pendingState>>

Next ==
    \/ CreateToplevel
    \/ CreatePopup
    \/ Release
    \/ ReleasePopup
    \/ RequestResize
    \/ SendRole
    \/ SendSurface
    \/ SendConfigure
    \/ configureCallback
    \/ droppedConfigure
    \/ surfaceConfigureCallback
    \/ popupConfigureCallback
    \/ configureCallbackV5
    \/ configureCallbackWlShell

Spec == Init /\ [][Next]_vars

-----------------------------------------------------------------------------
\* Every configureRequested says what the batch with its serial said, however many
\* batches are on their way and whatever an earlier object had pending. A batch
\* without an event of the role says nothing to compare with. A popup that was released
\* is excluded: its role's events are dropped while those of its xdg_surface are still
\* announced, so it says QRect(), or a rectangle of a part of the batch.
AnnouncedIsSent ==
    role # "released" /\ announced.serial # 0 =>
        LET b == batches[announced.serial]
        IN  b # Bare => /\ announced.size = b.size
                          /\ announced.states = b.states \cap Known

\* The batches a window has seen that gave it a size.
Sizing ==
    {i \in 1..announced.serial :
        batches[i] # Bare /\ (batches[i].size # Null \/ version = "wl_shell")}

\* A window has the size of the latest batch that gave it one: 0x0 leaves the size to
\* the client. That fails when a batch has no event of the role (Unset is applied as
\* if it were a size), so such behaviours are excluded.
SizeIsLatest ==
    /\ role = "toplevel"
    /\ Sizing # {}
    /\ \A i \in 1..announced.serial : batches[i] # Bare
    => size = batches[Max(Sizing)].size

\* What the compositor reads in the requests of the last step.
Read(name, default) ==
    LET at == {i \in DOMAIN wire : wire[i].request = name}
    IN  IF at = {} THEN default ELSE wire[CHOOSE i \in at : TRUE].value

Opposite(e) == {"Top", "Bottom"} \subseteq e \/ {"Left", "Right"} \subseteq e
MeaningOf ==
    [none |-> {}, top |-> {"Top"}, bottom |-> {"Bottom"}, left |-> {"Left"},
     right |-> {"Right"}, top_left |-> {"Top", "Left"}, top_right |-> {"Top", "Right"},
     bottom_left |-> {"Bottom", "Left"}, bottom_right |-> {"Bottom", "Right"}]
Meant(e) == IF Opposite(e) THEN {} ELSE e

\* The edges the compositor reads from a request of a positioner.
ReadEdges(name) ==
    IF version = "stable" THEN MeaningOf[Read(name, "none")]
    ELSE {d \in Edges : (Read(name, 0) \div Bit[d]) % 2 = 1}

\* The requests say what the user asked for: a resize names the edges that are pulled,
\* the compositor's positioner is the user's. Opposite edges mean nothing, except in
\* v6, where they are sent.
RequestsSayWhatIsMeant ==
    /\ asked.kind = "resize" => MeaningOf[Read("resize", "none")] = Meant(asked.edges)
    /\ asked.kind = "popup" =>
          LET p == asked.positioner
              said(e) == IF version = "stable" THEN Meant(e) ELSE e
          IN  /\ Read("set_size", Unset) = p.size
              /\ Read("set_anchor_rect", Unset) = p.anchorRect
              /\ Read("set_offset", Null) = p.anchorOffset
              /\ ReadEdges("set_anchor") = said(p.anchorEdge)
              /\ ReadEdges("set_gravity") = said(p.gravity)
              /\ Read("set_constraint_adjustment", {}) = p.constraints

=============================================================================
