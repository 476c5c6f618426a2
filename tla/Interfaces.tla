----------------------------- MODULE Interfaces -----------------------------
(***************************************************************************)
(* The interfaces that share no state with each other, each on its own: a  *)
(* behaviour is about one of them, the others keep their initial state.    *)
(* Those that show what the compositor has are put together in             *)
(* CompositorViews; here are the others.                                   *)
(***************************************************************************)
EXTENDS CompositorViews

\* The constants of each module, under the names they have there; what several modules
\* have is shared, or named for what it is of.
CONSTANTS
    Sizes, States, Constraints, Positioners, MaxConfigures, MaxDrafts, MaxWindows
CONSTANTS
    AttributeValues, MaxBatches
CONSTANTS
    Types, KnownTypes, MaxOffers, MaxDataEvents
CONSTANTS
    Lengths, Characters, Modulus, MaxText, MaxTextEvents
CONSTANTS
    Families, MaxConnections, Cells

\* The lengths of texts are numbers of bytes, which a uint32_t holds.
ASSUME LengthsAssumption == Modulus \in Nat \ {0} /\ Lengths \subseteq 0 .. Modulus - 1

\* A compositor lists the types of an offer one by one.
ASSUME TypesAssumption == IsFiniteSet(Types)

VARIABLES
    xdgVersion, role, objects, xdgEvents, draft, drafts, xdgBatches, pendingSize,
    pendingState, size, xdgAnnounced, xdgAsked, wire
VARIABLES
    class, extensionServer, extensionBatches, extensionEvents, current, pending, arrived
VARIABLES
    dataServer, dataEvents, dataDevice, lastOffer, selectionOffer, dragOffer, users,
    taken, mimeTypes
VARIABLES
    textVersion, pendingPreEdit, currentPreEdit, pendingCommit, currentCommit, said,
    textEvents, meant, textAsked
VARIABLES
    family, connection, connections, alive, held, foreign, memo, told, renewed, linked,
    sent

xdgVars == <<xdgVersion, role, objects, xdgEvents, draft, drafts, xdgBatches,
             pendingSize, pendingState, size, xdgAnnounced, xdgAsked, wire>>
extensionVars == <<class, extensionServer, extensionBatches, extensionEvents, current,
                   pending, arrived>>
dataVars == <<dataServer, dataEvents, dataDevice, lastOffer, selectionOffer, dragOffer,
              users, taken, mimeTypes>>
textVars == <<textVersion, pendingPreEdit, currentPreEdit, pendingCommit, currentCommit,
              said, textEvents, meant, textAsked>>
wrapperVars == <<family, connection, connections, alive, held, foreign, memo, told,
                 renewed, linked, sent>>

-----------------------------------------------------------------------------
X == INSTANCE XdgShell WITH
    MaxSerial <- MaxConfigures, MaxObjects <- MaxWindows,
    version <- xdgVersion, events <- xdgEvents, batches <- xdgBatches,
    announced <- xdgAnnounced, asked <- xdgAsked
E == INSTANCE OutputExtensions WITH
    Values <- AttributeValues,
    server <- extensionServer, batches <- extensionBatches, events <- extensionEvents
D == INSTANCE DataDevice WITH
    Known <- KnownTypes, MaxEvents <- MaxDataEvents,
    server <- dataServer, events <- dataEvents, device <- dataDevice
N == INSTANCE TextInput WITH
    MaxEvents <- MaxTextEvents,
    version <- textVersion, events <- textEvents, asked <- textAsked
W == INSTANCE Wrappers

\* A positioner has some of the edges there are.
ASSUME PositionersAssumption ==
    \A p \in Positioners : p.anchorEdge \subseteq X!Edges /\ p.gravity \subseteq X!Edges

\* What stands for a mode of a later Dpms is no value of an XdgOutput.
ASSUME ValuesAssumption == E!Future \notin AttributeValues

\* The bounds are numbers.
ASSUME BoundsAssumption ==
    {MaxConfigures, MaxDrafts, MaxWindows, MaxBatches, MaxOffers, MaxConnections} \subseteq Nat

\* The classes with a proxy that no call of the user frees; a family has none of them.
HoldsOn ==
    {"PlasmaActivation", "TextInputUnstableV0", "TextInputUnstableV2",
     "XdgShellPopupStable", "XdgShellPopupUnstableV6"}
Freeing == DOMAIN W!Class \ HoldsOn

ASSUME FamiliesAssumption == Families \subseteq [manager : Freeing, child : Freeing]

-----------------------------------------------------------------------------
\* What is not looked at has one initial state.
Init ==
    /\ component \in {"XdgShell", "PlasmaShell", "VirtualDesktops", "StackingOrder",
                      "WindowAttributes", "OutputExtensions", "Touch", "InputDevices",
                      "DataDevice", "TextInput", "Wrappers"}
    /\ ViewsInit
    /\ X!Init /\ (component = "XdgShell" \/ xdgVersion = "stable")
    /\ E!Init /\ (component = "OutputExtensions" \/ class = "Dpms")
    /\ D!Init
    /\ N!Init /\ (component = "TextInput" \/ textVersion = "V2")
    /\ W!Init /\ (component = "Wrappers" \/ family = [o \in {"manager", "child"} |-> W!None])

Next ==
    /\ ViewsNext
    /\ IF component = "XdgShell" THEN X!Next ELSE UNCHANGED xdgVars
    /\ IF component = "OutputExtensions" THEN E!Next ELSE UNCHANGED extensionVars
    /\ IF component = "DataDevice" THEN D!Next ELSE UNCHANGED dataVars
    /\ IF component = "TextInput" THEN N!Next ELSE UNCHANGED textVars
    /\ IF component = "Wrappers" THEN W!Next ELSE UNCHANGED wrapperVars

vars == <<component, viewVars, xdgVars, extensionVars, dataVars, textVars, wrapperVars>>

Spec == Init /\ [][Next]_vars

-----------------------------------------------------------------------------
\* Each state is of its type.
TypeOK ==
    /\ ViewsTypeOK
    /\ component = "XdgShell" => X!TypeOK
    /\ component = "OutputExtensions" => E!TypeOK
    /\ component = "DataDevice" => D!TypeOK
    /\ component = "TextInput" => N!TypeOK
    /\ component = "Wrappers" => W!TypeOK

\* Nothing is sent on a proxy of a connection that is gone, a role is destroyed before
\* its surface, and a child before what made it, whatever the order of calls
\* (WaylandPointer, Shell::createSurface, XdgTopLevelStable::Private::release).
WireIsLegal == component = "Wrappers" => W!WireIsLegal /\ W!FollowersGoFirst

\* An object that is not valid holds no proxy (release(), destroy() of each class).
InvalidHoldsNothing == component = "Wrappers" => W!InvalidHoldsNothing

\* What an object remembers is what the compositor was told (Region, SubSurface).
CompositorIsTold == component = "Wrappers" => W!CompositorIsTold

\* A window or popup that is set up announces a configure as it was sent, in every
\* protocol, and a window has the size of the latest one that gave it a size
\* (configureCallback, surfaceConfigureCallback).
ConfigureIsFollowed == component = "XdgShell" => X!AnnouncedIsSent /\ X!SizeIsLatest

\* The requests say what the user meant: edges and positioners in every protocol of the
\* shells, the indices of the surrounding text in bytes (OnSide, setSurroundingText).
RequestsSayWhatIsMeant ==
    /\ component = "XdgShell" => X!RequestsSayWhatIsMeant
    /\ component = "TextInput" => N!RequestsSayWhatIsMeant

\* What came in several events is what was sent as one batch, with nothing of another
\* (XdgOutput, Dpms: doneCallback; TextInput: preeditStringCallback and commit).
BatchesAreFollowed ==
    /\ component = "OutputExtensions" => E!BatchesAreFollowed
    /\ component = "TextInput" => N!BatchesAreFollowed

\* Selection and drag have the offers the compositor gave them, each with one owner
\* (DataDevice::Private::dragEnter, selection).
OffersFollow == component = "DataDevice" => D!OffersFollow

=============================================================================
