-------------------------- MODULE InterfacesProofs --------------------------
(***************************************************************************)
(* Proofs about the interfaces that share no state.  A behaviour is about  *)
(* one of them, so each has its own invariant, which holds when it is the  *)
(* component looked at.  Those of CompositorViews are proved about it.     *)
(***************************************************************************)
EXTENDS Interfaces, CompositorViewsProofs, Replay, FiniteSetTheorems, TLAPS

-----------------------------------------------------------------------------
(* Wrappers: what the rows of the classes have in common.                  *)

\* A class frees all of its proxies or none, destroy() frees them all, isValid()
\* looks at them all, and a role comes before its surface.
Fits(row) ==
  /\ row.proxies \in Seq(W!Range(row.proxies)) /\ row.proxies # <<>>
  /\ row.looksAt = W!Range(row.proxies) /\ row.destroyed = W!Range(row.proxies)
  /\ row.released = {} \/ row.released = W!Range(row.proxies)
  /\ row.follows => row.released = W!Range(row.proxies)
  /\ \A r \in DOMAIN row.requests : row.requests[r] \in W!Range(row.proxies)
  /\ DOMAIN row.remembers \subseteq DOMAIN row.requests
  /\ row.skipsSame => {"add", "subtract"} \cap DOMAIN row.remembers = {}
  /\ \A i, j \in DOMAIN row.proxies :
       row.proxies[j] \in W!Roles /\ row.proxies[i] = W!SurfaceOf[row.proxies[j]] => j < i
  /\ {row.follows, row.owned} \subseteq BOOLEAN

LEMMA SingleFits ==
  ASSUME NEW p, NEW rs
  PROVE  Fits(W!Single(p, rs))
<1> DEFINE s == <<p>>
<1>1. /\ s \in Seq({p}) /\ s # <<>> /\ DOMAIN s = {1} /\ s[1] = p
      /\ W!Range(s) = {p}
  BY DEF W!Range
<1>2. \A r \in W!Roles : W!SurfaceOf[r] # r
  BY DEF W!Roles, W!SurfaceOf
<1> HIDE DEF s
<1>3. Fits(W!Wrapper(s, W!On(p, rs)))
  BY <1>1, <1>2 DEF Fits, W!Wrapper, W!On
<1> QED
  BY <1>3 DEF W!Single, s

LEMMA ManagersFit ==
  /\ Fits(W!SubCompositor) /\ Fits(W!DataDeviceManager) /\ Fits(W!IdleInhibitManager)
  /\ Fits(W!AppMenuManager) /\ Fits(W!BlurManager) /\ Fits(W!ContrastManager)
  /\ Fits(W!SlideManager) /\ Fits(W!ShadowManager) /\ Fits(W!RelativePointerManager)
  /\ Fits(W!PointerGestures) /\ Fits(W!PointerConstraints) /\ Fits(W!XdgDecorationManager)
  /\ Fits(W!DpmsManager) /\ Fits(W!XdgOutputManager) /\ Fits(W!XdgExporter)
  /\ Fits(W!XdgImporter) /\ Fits(W!TextInputManagerUnstableV0)
  /\ Fits(W!TextInputManagerUnstableV2) /\ Fits(W!XdgShellStable)
  /\ Fits(W!XdgShellUnstableV6) /\ Fits(W!XdgShellUnstableV5) /\ Fits(W!PlasmaShell)
  /\ Fits(W!Shell) /\ Fits(W!Seat) /\ Fits(W!PlasmaActivationFeedback)
  /\ Fits(W!FakeInput) /\ Fits(W!PlasmaVirtualDesktopManagement) /\ Fits(W!None)
BY SingleFits DEF
  W!SubCompositor, W!DataDeviceManager, W!IdleInhibitManager, W!AppMenuManager,
  W!BlurManager, W!ContrastManager, W!SlideManager, W!ShadowManager,
  W!RelativePointerManager, W!PointerGestures, W!PointerConstraints,
  W!XdgDecorationManager, W!DpmsManager, W!XdgOutputManager, W!XdgExporter, W!XdgImporter,
  W!TextInputManagerUnstableV0, W!TextInputManagerUnstableV2, W!XdgShellStable,
  W!XdgShellUnstableV6, W!XdgShellUnstableV5, W!PlasmaShell, W!Shell, W!Seat,
  W!PlasmaActivationFeedback, W!FakeInput, W!PlasmaVirtualDesktopManagement, W!None

LEMMA MadeFit ==
  /\ Fits(W!DataSource) /\ Fits(W!DataDevice) /\ Fits(W!IdleInhibitor) /\ Fits(W!AppMenu)
  /\ Fits(W!Blur) /\ Fits(W!Contrast) /\ Fits(W!Slide) /\ Fits(W!Shadow)
  /\ Fits(W!RelativePointer) /\ Fits(W!PointerSwipeGesture) /\ Fits(W!PointerPinchGesture)
  /\ Fits(W!LockedPointer) /\ Fits(W!ConfinedPointer) /\ Fits(W!XdgDecoration)
  /\ Fits(W!Dpms) /\ Fits(W!XdgOutput) /\ Fits(W!XdgExported)
  /\ Fits(W!XdgShellSurfaceUnstableV5) /\ Fits(W!XdgShellPopupUnstableV5)
BY SingleFits DEF
  W!DataSource, W!DataDevice, W!IdleInhibitor, W!AppMenu, W!Blur, W!Contrast, W!Slide,
  W!Shadow, W!RelativePointer, W!PointerSwipeGesture, W!PointerPinchGesture,
  W!LockedPointer, W!ConfinedPointer, W!XdgDecoration, W!Dpms, W!XdgOutput, W!XdgExported,
  W!XdgShellSurfaceUnstableV5, W!XdgShellPopupUnstableV5

\* What else a row may say does not matter to this.
LEMMA OthersFit ==
  /\ Fits(W!Compositor) /\ Fits(W!Surface) /\ Fits(W!XdgImported) /\ Fits(W!Output)
  /\ Fits(W!DataOffer) /\ Fits(W!PlasmaVirtualDesktop)
  /\ Fits(W!Keyboard) /\ Fits(W!Pointer) /\ Fits(W!Touch)
  /\ Fits(W!ShellSurface) /\ Fits(W!PlasmaShellSurface)
  /\ Fits(W!Region) /\ Fits(W!SubSurface)
<1>1. ASSUME NEW p, NEW rs
      PROVE  /\ Fits([W!Single(p, rs) EXCEPT !.foreign = TRUE])
             /\ Fits([W!Single(p, rs) EXCEPT !.ended = TRUE])
             /\ Fits([W!Single(p, rs) EXCEPT !.released = {}])
             /\ Fits([W!Single(p, rs) EXCEPT !.owned = TRUE])
             /\ Fits([W!Single(p, rs) EXCEPT !.renewable = FALSE, !.owned = TRUE])
             /\ Fits([W!Single(p, rs) EXCEPT !.follows = TRUE])
             /\ Fits([[W!Single(p, rs) EXCEPT !.follows = TRUE] EXCEPT !.foreign = TRUE])
  <2>1. Fits(W!Single(p, rs))
    BY SingleFits
  <2> QED
    BY <2>1 DEF Fits, W!Single, W!Wrapper
<1>2. /\ Fits(W!Compositor) /\ Fits(W!Surface) /\ Fits(W!XdgImported) /\ Fits(W!Output)
      /\ Fits(W!DataOffer) /\ Fits(W!PlasmaVirtualDesktop)
  BY <1>1 DEF W!Compositor, W!Surface, W!XdgImported, W!Output, W!DataOffer,
              W!PlasmaVirtualDesktop
<1>3. Fits(W!Keyboard) /\ Fits(W!Pointer) /\ Fits(W!Touch)
  BY <1>1 DEF W!Keyboard, W!Pointer, W!Touch, W!Following
<1>4. Fits(W!ShellSurface) /\ Fits(W!PlasmaShellSurface)
  BY <1>1 DEF W!ShellSurface, W!PlasmaShellSurface, W!Following
<1>5. Fits(W!Region)
  <2>1. Fits(W!Single("wl_region", {"add", "subtract"}))
    BY SingleFits
  <2> QED
    BY <2>1 DEF Fits, W!Region, W!Single, W!Wrapper, W!On
<1>6. Fits(W!SubSurface)
  <2>1. Fits(W!Single("wl_subsurface", {"set_mode", "set_position", "place_above", "place_below"}))
    BY SingleFits
  <2> QED
    BY <2>1 DEF Fits, W!SubSurface, W!Single, W!Wrapper, W!On
<1> QED
  BY <1>2, <1>3, <1>4, <1>5, <1>6

\* A role and its surface.
LEMMA PairFits ==
  Fits(W!XdgTopLevelStable) /\ Fits(W!XdgTopLevelUnstableV6)
<1>1. ASSUME NEW p, NEW q, p # q, q \notin W!Roles, NEW rs, NEW qs
      PROVE  Fits(W!Wrapper(<<p, q>>, W!OnBoth(p, rs, q, qs)))
  <2> DEFINE s == <<p, q>>
             requests == W!OnBoth(p, rs, q, qs)
  <2>1. /\ s \in Seq({p, q}) /\ s # <<>> /\ DOMAIN s = {1, 2} /\ s[1] = p /\ s[2] = q
        /\ W!Range(s) = {p, q}
    BY DEF W!Range
  <2>2. \A r \in DOMAIN requests : requests[r] \in {p, q}
    BY DEF W!OnBoth
  <2>3. \A r \in W!Roles : W!SurfaceOf[r] # r
    BY DEF W!Roles, W!SurfaceOf
  <2> HIDE DEF s, requests
  <2>4. Fits(W!Wrapper(s, requests))
    BY <1>1, <2>1, <2>2, <2>3 DEF Fits, W!Wrapper
  <2> QED
    BY <2>4 DEF s, requests
<1> QED
  BY <1>1 DEF W!XdgTopLevelStable, W!XdgTopLevelUnstableV6, W!Roles

LEMMA FreeingFits == \A c \in Freeing : Fits(W!Class[c])
<1> DEFINE managers ==
             {"SubCompositor", "DataDeviceManager", "IdleInhibitManager",
              "AppMenuManager", "BlurManager", "ContrastManager", "SlideManager",
              "ShadowManager", "RelativePointerManager", "PointerGestures",
              "PointerConstraints", "XdgDecorationManager", "DpmsManager",
              "XdgOutputManager", "XdgExporter", "XdgImporter",
              "TextInputManagerUnstableV0", "TextInputManagerUnstableV2",
              "XdgShellStable", "XdgShellUnstableV6", "XdgShellUnstableV5",
              "PlasmaShell", "Shell", "Seat", "PlasmaActivationFeedback",
              "FakeInput", "PlasmaVirtualDesktopManagement", "None"}
           children ==
             {"DataSource", "DataDevice", "IdleInhibitor", "AppMenu", "Blur",
              "Contrast", "Slide", "Shadow", "RelativePointer",
              "PointerSwipeGesture", "PointerPinchGesture", "LockedPointer",
              "ConfinedPointer", "XdgDecoration", "Dpms", "XdgOutput",
              "XdgExported", "XdgShellSurfaceUnstableV5", "XdgShellPopupUnstableV5"}
           others ==
             {"Compositor", "Surface", "XdgImported", "Output", "DataOffer",
              "PlasmaVirtualDesktop", "Keyboard", "Pointer", "Touch",
              "ShellSurface", "PlasmaShellSurface", "Region", "SubSurface"}
           pairs ==
             {"XdgTopLevelStable", "XdgTopLevelUnstableV6"}
<1>1. \A c \in managers : Fits(W!Class[c])
  BY ManagersFit DEF W!Class
<1>2. \A c \in children : Fits(W!Class[c])
  BY MadeFit DEF W!Class
<1>3. \A c \in others : Fits(W!Class[c])
  BY OthersFit DEF W!Class
<1>4. \A c \in pairs : Fits(W!Class[c])
  BY PairFits DEF W!Class
<1>5. Freeing \subseteq managers \cup children \cup others \cup pairs
  BY DEF Freeing, HoldsOn, W!Class
<1> HIDE DEF managers, children, others, pairs
<1> QED
  BY <1>1, <1>2, <1>3, <1>4, <1>5

-----------------------------------------------------------------------------
(* Wrappers: the invariant.  An object holds all of its proxies, of the    *)
(* connection there is, or none.                                           *)

WrappersType ==
  /\ DOMAIN family = W!Objects /\ \A o \in W!Objects : Fits(family[o])
  /\ connection \in Nat /\ connections \in Nat
  /\ alive \in [W!Objects -> BOOLEAN] /\ linked \in BOOLEAN
  /\ DOMAIN held = W!Objects /\ DOMAIN foreign = W!Objects /\ DOMAIN renewed = W!Objects
  /\ DOMAIN memo = W!Objects /\ DOMAIN told = W!Objects
  /\ \A o \in W!Objects :
       /\ memo[o] \in [W!Remembered(o) -> W!Values]
       /\ told[o] \in [W!Remembered(o) -> W!Values]

AllOrNothing ==
  \A o \in W!Objects :
    \/ held[o] = W!Nothing(o)
    \/ alive[o] /\ connection # 0 /\ held[o] = W!Bound(o, connection)

Linked == linked => family["child"].follows /\ W!FollowersGoFirst

WrappersInv == WrappersType /\ AllOrNothing /\ Linked

ValidIsHolding ==
  \A o \in W!Objects :
    /\ W!Valid(o) <=> held[o] # W!Nothing(o)
    /\ W!Valid(o) => alive[o] /\ connection # 0 /\ held[o] = W!Bound(o, connection)

LEMMA ValidHolds ==
  WrappersType /\ AllOrNothing => ValidIsHolding
<1> SUFFICES ASSUME WrappersType, AllOrNothing, NEW o \in W!Objects
             PROVE  /\ W!Valid(o) <=> held[o] # W!Nothing(o)
                    /\ W!Valid(o) => alive[o] /\ connection # 0 /\ held[o] = W!Bound(o, connection)
  BY DEF ValidIsHolding
<1> DEFINE s == family[o].proxies
<1>1. Fits(family[o])
  BY DEF WrappersType
<1>2. W!Proxies(o) = W!Range(s) /\ W!Proxies(o) # {} /\ W!Row(o).looksAt = W!Proxies(o)
  <2>1. s \in Seq(W!Range(s)) /\ s # <<>>
    BY <1>1 DEF Fits
  <2>2. 1 \in DOMAIN s
    BY <2>1
  <2>3. s[1] \in W!Range(s)
    BY <2>2 DEF W!Range
  <2> QED
    BY <1>1, <2>3 DEF Fits, W!Proxies, W!Row
<1>3. CASE held[o] = W!Nothing(o)
  BY <1>2, <1>3 DEF W!Valid, W!Nothing
<1>4. CASE alive[o] /\ connection # 0 /\ held[o] = W!Bound(o, connection)
  <2>1. W!Bound(o, connection) # W!Nothing(o)
    BY <1>2, <1>4 DEF W!Bound, W!Nothing
  <2> QED
    BY <1>2, <1>4, <2>1 DEF W!Valid, W!Bound
<1> QED
  BY <1>3, <1>4 DEF AllOrNothing

LEMMA WrappersInit == W!Init => WrappersInv
<1> SUFFICES ASSUME W!Init PROVE WrappersInv
  OBVIOUS
<1>1. PICK f \in Families : family = [o \in W!Objects |-> W!Class[f[o]]]
  BY DEF W!Init
<1>2. f \in [manager : Freeing, child : Freeing]
  BY FamiliesAssumption
<1>3. \A o \in W!Objects : Fits(family[o])
  BY <1>1, <1>2, FreeingFits DEF W!Objects
<1>4. \A o \in W!Objects : W!Blank(o) \in [W!Remembered(o) -> W!Values]
  BY DEF W!Blank, W!Values
<1>5. WrappersType
  BY <1>1, <1>3, <1>4 DEF W!Init, WrappersType
<1>6. AllOrNothing
  BY DEF W!Init, AllOrNothing
<1> QED
  BY <1>5, <1>6 DEF WrappersInv, Linked, W!Init

LEMMA FamilyStays ==
  family' = family =>
    \A o \in W!Objects :
      /\ W!Nothing(o)' = W!Nothing(o) /\ W!Bound(o, connection)' = W!Bound(o, connection')
      /\ W!Remembered(o)' = W!Remembered(o) /\ W!Row(o)' = W!Row(o)
      /\ W!Proxies(o)' = W!Proxies(o) /\ W!Values' = W!Values
BY DEF W!Nothing, W!Bound, W!Remembered, W!Row, W!Proxies, W!Values

LEMMA WithoutIs ==
  WrappersType /\ AllOrNothing =>
    \A o \in W!Objects :
      /\ W!Without(o, W!Proxies(o)) = W!Nothing(o)
      /\ W!Without(o, {}) = held[o]
BY DEF AllOrNothing, W!Without, W!Nothing, W!Bound

\* A step leaves what an object holds, frees all of it, or gives it proxies of the
\* connection there is.
Moves ==
  /\ family' = family
  /\ connection' \in Nat /\ connections' \in Nat
  /\ alive' \in [W!Objects -> BOOLEAN]
  /\ DOMAIN held' = W!Objects
  /\ \A o \in W!Objects :
       \/ held'[o] = W!Nothing(o)
       \/ /\ held'[o] = held[o] /\ connection' = connection
          /\ alive[o] => alive'[o]
       \/ alive'[o] /\ connection' # 0 /\ held'[o] = W!Bound(o, connection')

LEMMA MovesKeep ==
  WrappersInv /\ Moves => AllOrNothing'
<1> SUFFICES ASSUME WrappersInv, Moves, NEW o \in W!Objects
             PROVE  (\/ held[o] = W!Nothing(o)
                     \/ alive[o] /\ connection # 0 /\ held[o] = W!Bound(o, connection))'
  BY DEF AllOrNothing
<1>1. W!Nothing(o)' = W!Nothing(o) /\ W!Bound(o, connection)' = W!Bound(o, connection')
  BY FamilyStays DEF Moves
<1> QED
  BY <1>1 DEF Moves, WrappersInv, AllOrNothing

LEMMA FreedFits ==
  WrappersType =>
    \A o \in W!Objects : /\ W!Row(o).destroyed = W!Proxies(o)
                         /\ W!Row(o).released \in {{}, W!Proxies(o)}
                         /\ W!Row(o).follows => W!Row(o).released = W!Proxies(o)
                         /\ W!Row(o).follows \in BOOLEAN /\ W!Row(o).owned \in BOOLEAN
                         /\ W!Row(o).proxies[1] \in W!Proxies(o)
<1> SUFFICES ASSUME WrappersType, NEW o \in W!Objects
             PROVE  /\ W!Row(o).destroyed = W!Proxies(o)
                    /\ W!Row(o).released \in {{}, W!Proxies(o)}
                    /\ W!Row(o).follows => W!Row(o).released = W!Proxies(o)
                    /\ W!Row(o).follows \in BOOLEAN /\ W!Row(o).owned \in BOOLEAN
                    /\ W!Row(o).proxies[1] \in W!Proxies(o)
  OBVIOUS
<1> DEFINE s == family[o].proxies
<1>1. Fits(family[o])
  BY DEF WrappersType
<1>2. s \in Seq(W!Range(s)) /\ s # <<>>
  BY <1>1 DEF Fits
<1>3. s[1] \in W!Range(s)
  BY <1>2 DEF W!Range
<1> QED
  BY <1>1, <1>3 DEF Fits, W!Row, W!Proxies

LEMMA WrappersMove ==
  WrappersInv /\ W!Next => Moves
<1> SUFFICES ASSUME WrappersInv, W!Next PROVE Moves
  OBVIOUS
<1>1. WrappersType /\ AllOrNothing
  BY DEF WrappersInv
<1>2. W!Objects = {"manager", "child"}
  BY DEF W!Objects
<1> USE DEF Moves
<1>3. CASE W!Connect
  <2>1. \A o \in W!Objects : held[o] = W!Nothing(o)
    BY <1>1, <1>3 DEF AllOrNothing, W!Connect
  <2> QED
    BY <1>1, <1>3, <2>1 DEF WrappersType, W!Connect
<1>4. CASE W!Construct
  BY <1>1, <1>2, <1>4 DEF WrappersType, W!Construct
<1>5. CASE W!CreateChild
  <2>1. held["manager"] = W!Bound("manager", connection) /\ connection # 0
    BY <1>1, <1>2, <1>5, ValidHolds DEF W!CreateChild, ValidIsHolding
  <2>2. held["manager"][W!Row("manager").proxies[1]] = connection
    BY <1>1, <1>2, <2>1, FreedFits DEF W!Bound
  <2>3. held'["child"] = W!Bound("child", connection)
    BY <1>1, <1>2, <1>5, <2>2 DEF W!CreateChild, W!Bound, WrappersType
  <2> QED
    BY <1>1, <1>2, <1>5, <2>1, <2>3 DEF WrappersType, W!CreateChild
<1>6. CASE W!ConnectionDies
  <2>1. \A o \in W!Objects : held'[o] = W!Nothing(o)
    BY <1>1, <1>2, <1>6, FreedFits, WithoutIs DEF W!ConnectionDies
  <2> QED
    BY <1>1, <1>6, <2>1 DEF WrappersType, W!ConnectionDies
<1>7. CASE W!DeleteChild
  BY <1>1, <1>2, <1>7 DEF WrappersType, W!DeleteChild
<1>8. CASE W!DeleteManager
  <2> DEFINE owned == alive["child"] /\ W!Row("child").owned
             freed == IF owned THEN W!Proxies("child") ELSE W!ReleasedWith("manager")
  <2>1. freed \in {{}, W!Proxies("child")}
    BY <1>1, <1>2, FreedFits DEF W!ReleasedWith
  <2>2. held'["child"] = W!Nothing("child") \/ (~owned /\ held'["child"] = held["child"])
    BY <1>1, <1>2, <1>8, <2>1, WithoutIs DEF W!DeleteManager
  <2>3. held'["manager"] = W!Nothing("manager") /\ DOMAIN held' = W!Objects
    BY <1>2, <1>8 DEF W!DeleteManager
  <2>4. /\ owned \in BOOLEAN /\ alive["child"] \in BOOLEAN
        /\ alive' = [manager |-> FALSE, child |-> alive["child"] /\ ~owned]
    BY <1>1, <1>2, <1>8, FreedFits DEF WrappersType, W!DeleteManager
  <2>5. alive' \in [W!Objects -> BOOLEAN] /\ (~owned => alive'["child"] = alive["child"])
    <3> HIDE DEF owned
    <3>1. /\ DOMAIN alive' = {"manager", "child"} /\ alive'["manager"] = FALSE
          /\ alive'["child"] = (alive["child"] /\ ~owned)
          /\ alive' = [x \in DOMAIN alive' |-> alive'[x]]
      BY <2>4
    <3>2. alive'["child"] \in BOOLEAN
      BY <2>4, <3>1
    <3>3. \A x \in W!Objects : alive'[x] \in BOOLEAN
      BY <1>2, <3>1, <3>2
    <3> QED
      BY <1>2, <2>4, <3>1, <3>3
  <2>6. /\ family' = family /\ connection' = connection /\ connections' = connections
        /\ connection \in Nat /\ connections \in Nat
    BY <1>1, <1>8 DEF WrappersType, W!DeleteManager
  <2> HIDE DEF owned
  <2> QED
    BY <1>2, <2>2, <2>3, <2>5, <2>6
<1>9. CASE W!EndEvent
  BY <1>1, <1>2, <1>9 DEF WrappersType, W!EndEvent
<1>10. ASSUME NEW o \in W!Objects, W!Setup(o)
       PROVE  Moves
  BY <1>1, <1>10 DEF WrappersType, W!Setup
<1>11. ASSUME NEW o \in W!Objects, W!FromApplication(o)
       PROVE  Moves
  BY <1>1, <1>11 DEF WrappersType, W!FromApplication
<1>12. ASSUME NEW o \in W!Objects, W!Request(o) \/ W!Remember(o)
       PROVE  Moves
  BY <1>1, <1>12 DEF WrappersType, W!Request, W!Remember
<1>13. ASSUME NEW o \in W!Objects, W!Release(o)
       PROVE  Moves
  <2>1. \A x \in W!Objects :
          (IF x = o THEN W!Row(o).released ELSE W!ReleasedWith(o)) \in {{}, W!Proxies(x)}
    BY <1>1, <1>2, FreedFits DEF W!ReleasedWith
  <2>2. \A x \in W!Objects : held'[x] \in {held[x], W!Nothing(x)}
    BY <1>1, <1>13, <2>1, WithoutIs DEF W!Release
  <2> QED
    BY <1>1, <1>13, <2>2 DEF WrappersType, W!Release
<1> QED
  BY <1>3, <1>4, <1>5, <1>6, <1>7, <1>8, <1>9, <1>10, <1>11, <1>12, <1>13 DEF W!Next

\* What is remembered and what was told is of its type.
LEMMA EffectTyped ==
  ASSUME NEW r, NEW u \in W!Values, NEW v \in W!Values
  PROVE  W!Effect(r, u, v) \in W!Values
BY DEF W!Effect, W!Values

Recalls(m) ==
  DOMAIN m = W!Objects /\ \A o \in W!Objects : m[o] \in [W!Remembered(o) -> W!Values]

LEMMA RecallsOne ==
  ASSUME NEW m, Recalls(m), NEW o \in W!Objects, NEW f \in [W!Remembered(o) -> W!Values]
  PROVE  Recalls([m EXCEPT ![o] = f])
BY DEF Recalls

LEMMA RecallsEffect ==
  ASSUME NEW m, Recalls(m), NEW o \in W!Objects, NEW x \in W!Remembered(o),
         NEW r, NEW v \in W!Values
  PROVE  Recalls([m EXCEPT ![o][x] = W!Effect(r, @, v)])
<1>1. m[o][x] \in W!Values
  BY DEF Recalls
<1>2. W!Effect(r, m[o][x], v) \in W!Values
  BY <1>1, EffectTyped
<1> QED
  BY <1>2 DEF Recalls

LEMMA RemembersFits ==
  WrappersType =>
    \A o \in W!Objects : \A r \in DOMAIN W!Row(o).remembers :
      /\ W!Row(o).remembers[r] \in W!Remembered(o)
      /\ W!Row(o).requests[r] \in W!Proxies(o)
      /\ W!Row(o).skipsSame => r \notin {"add", "subtract"}
<1> SUFFICES ASSUME WrappersType, NEW o \in W!Objects, NEW r \in DOMAIN W!Row(o).remembers
             PROVE  /\ W!Row(o).remembers[r] \in W!Remembered(o)
                    /\ W!Row(o).requests[r] \in W!Proxies(o)
                    /\ W!Row(o).skipsSame => r \notin {"add", "subtract"}
  OBVIOUS
<1>1. Fits(family[o])
  BY DEF WrappersType
<1> QED
  BY <1>1 DEF Fits, W!Row, W!Proxies, W!Remembered, W!Range

LEMMA WrappersTyped ==
  WrappersInv /\ W!Next => WrappersType'
<1> SUFFICES ASSUME WrappersInv, W!Next PROVE WrappersType'
  OBVIOUS
<1>1. WrappersType /\ AllOrNothing
  BY DEF WrappersInv
<1>2. Moves
  BY WrappersMove
<1>3. DOMAIN family' = W!Objects /\ \A o \in W!Objects : Fits(family'[o])
  BY <1>1, <1>2 DEF Moves, WrappersType
<1>4. Recalls(memo) /\ Recalls(told)
  BY <1>1 DEF WrappersType, Recalls
<1>5. \A o \in W!Objects : W!Blank(o) \in [W!Remembered(o) -> W!Values]
  BY DEF W!Blank, W!Values
<1>6. W!Objects = {"manager", "child"}
  BY DEF W!Objects
<1> DEFINE Typed == /\ linked' \in BOOLEAN
                    /\ DOMAIN foreign' = W!Objects /\ DOMAIN renewed' = W!Objects
                    /\ Recalls(memo') /\ Recalls(told')
<1>7. ASSUME UNCHANGED <<foreign, memo, told, renewed>>, linked' \in BOOLEAN PROVE Typed
  BY <1>1, <1>4, <1>7 DEF WrappersType
<1>8. ASSUME W!Construct PROVE Typed
  BY <1>1, <1>4, <1>8 DEF WrappersType, W!Construct
<1>9. ASSUME W!CreateChild PROVE Typed
  <2>1. PICK first \in IF W!Row("child").reinstalls THEN W!Values ELSE {{}} :
          /\ memo' = [memo EXCEPT !["child"] = [x \in W!Remembered("child") |-> first]]
          /\ told' = [told EXCEPT !["child"] = [x \in W!Remembered("child") |-> first]]
    BY <1>9 DEF W!CreateChild
  <2>2. first \in W!Values
    BY DEF W!Values
  <2>3. [x \in W!Remembered("child") |-> first] \in [W!Remembered("child") -> W!Values]
    BY <2>2
  <2>4. Recalls(memo') /\ Recalls(told')
    BY <1>4, <1>6, <2>1, <2>3, RecallsOne
  <2> QED
    BY <1>1, <1>6, <1>9, <2>4, FreedFits DEF WrappersType, W!CreateChild
<1>10. ASSUME NEW o \in W!Objects, W!Setup(o) PROVE Typed
  <2>1. W!Retold(o) \in [W!Remembered(o) -> W!Values]
    BY <1>1, <1>5 DEF W!Retold, WrappersType
  <2>2. memo' = memo /\ told' = [told EXCEPT ![o] = W!Retold(o)]
    BY <1>10 DEF W!Setup
  <2>3. Recalls(memo') /\ Recalls(told')
    BY <1>4, <2>1, <2>2, RecallsOne
  <2> QED
    BY <1>1, <1>10, <2>3 DEF WrappersType, W!Setup
<1>11. ASSUME NEW o \in W!Objects, W!FromApplication(o) PROVE Typed
  <2>1. /\ memo' = [memo EXCEPT ![o] = W!Blank(o)]
        /\ told' = [told EXCEPT ![o] = W!Blank(o)]
    BY <1>11 DEF W!FromApplication
  <2>2. Recalls(memo') /\ Recalls(told')
    BY <1>4, <1>5, <2>1, RecallsOne
  <2> QED
    BY <1>1, <1>11, <2>2 DEF WrappersType, W!FromApplication
<1>12. ASSUME NEW o \in W!Objects, W!Remember(o) PROVE Typed
  <2>1. PICK r \in DOMAIN W!Row(o).remembers, v \in W!Values :
          LET x == W!Row(o).remembers[r]
          IN  /\ memo' = [memo EXCEPT ![o][x] = W!Effect(r, @, v)]
              /\ told' \in {told, [told EXCEPT ![o][x] = W!Effect(r, @, v)]}
              /\ UNCHANGED <<foreign, renewed, linked>>
    BY <1>12 DEF W!Remember
  <2>2. W!Row(o).remembers[r] \in W!Remembered(o)
    BY <1>1, RemembersFits
  <2>3. Recalls(memo')
    BY <1>4, <2>1, <2>2, RecallsEffect
  <2>4. Recalls(told')
    BY <1>4, <2>1, <2>2, RecallsEffect
  <2> QED
    BY <1>1, <2>1, <2>3, <2>4 DEF WrappersType
<1>13. ASSUME NEW o \in W!Objects, W!Request(o) \/ W!Release(o) PROVE Typed
  BY <1>1, <1>4, <1>13 DEF W!Request, W!Release, WrappersType
<1>14. Typed
  <2>1. ASSUME \/ W!Connect \/ W!ConnectionDies \/ W!DeleteChild \/ W!DeleteManager
               \/ W!EndEvent
        PROVE  Typed
    BY <1>1, <1>7, <2>1 DEF WrappersType, W!Connect, W!ConnectionDies, W!DeleteChild,
       W!DeleteManager, W!EndEvent
  <2> HIDE DEF Typed
  <2> QED
    BY <1>8, <1>9, <1>10, <1>11, <1>12, <1>13, <2>1 DEF W!Next
<1>15. \A o \in W!Objects : W!Remembered(o)' = W!Remembered(o) /\ W!Values' = W!Values
  BY <1>2, FamilyStays DEF Moves
<1>16. \A o \in W!Objects : /\ memo'[o] \in [W!Remembered(o)' -> W!Values']
                            /\ told'[o] \in [W!Remembered(o)' -> W!Values']
  BY <1>14, <1>15 DEF Recalls
<1> QED
  BY <1>2, <1>3, <1>14, <1>16 DEF WrappersType, Moves, Recalls

LEMMA WrappersLinked ==
  WrappersInv /\ W!Next => Linked'
<1> SUFFICES ASSUME WrappersInv, W!Next PROVE Linked'
  OBVIOUS
<1>1. WrappersType /\ AllOrNothing /\ Linked /\ Moves
  BY WrappersMove DEF WrappersInv
<1>2. WrappersType' /\ AllOrNothing'
  BY WrappersTyped, MovesKeep, <1>1
<1>3. ValidIsHolding /\ ValidIsHolding'
  BY <1>1, <1>2, ValidHolds, PTL
<1>4. \A o \in W!Objects : W!Nothing(o)' = W!Nothing(o) /\ W!Row(o)' = W!Row(o)
  BY <1>1, FamilyStays DEF Moves
<1>5. /\ "manager" \in W!Objects /\ "child" \in W!Objects
      /\ \A o \in W!Objects : o = "manager" \/ o = "child"
  BY DEF W!Objects
<1> DEFINE Empty(o) == held[o] = W!Nothing(o)
           Emptied(o) == held'[o] = W!Nothing(o)
<1>6. linked => family["child"].follows /\ (Empty("child") \/ ~Empty("manager"))
  BY <1>1, <1>3, <1>5 DEF Linked, W!FollowersGoFirst, ValidIsHolding
<1>7. SUFFICES ASSUME linked'
               PROVE  family["child"].follows /\ (Emptied("child") \/ ~Emptied("manager"))
  BY <1>1, <1>3, <1>4, <1>5 DEF Linked, W!FollowersGoFirst, ValidIsHolding, Moves
<1>8. CASE UNCHANGED <<linked, held>>
  BY <1>6, <1>7, <1>8
<1>9. CASE W!Construct
  <2>1. Empty("manager")
    BY <1>1, <1>5, <1>9 DEF AllOrNothing, W!Construct
  <2> QED
    BY <1>1, <1>5, <1>6, <1>7, <1>9, <2>1 DEF W!Construct, WrappersType
<1>10. CASE W!CreateChild
  <2>1. ~Empty("manager") /\ held'["manager"] = held["manager"]
    BY <1>1, <1>3, <1>5, <1>10 DEF W!CreateChild, ValidIsHolding, WrappersType
  <2> QED
    BY <1>7, <1>10, <2>1 DEF W!CreateChild, W!Row
<1>11. CASE W!ConnectionDies
  <2>1. Emptied("child")
    BY <1>1, <1>5, <1>11, FreedFits, WithoutIs DEF W!ConnectionDies
  <2> QED
    BY <1>6, <1>7, <1>11, <2>1 DEF W!ConnectionDies
<1>12. CASE W!DeleteChild \/ W!DeleteManager
  BY <1>7, <1>12 DEF W!DeleteChild, W!DeleteManager
<1>13. CASE W!EndEvent
  BY <1>1, <1>5, <1>6, <1>7, <1>13 DEF W!EndEvent, WrappersType
<1>14. ASSUME NEW o \in W!Objects, W!Setup(o)
       PROVE  family["child"].follows /\ (Emptied("child") \/ ~Emptied("manager"))
  <2>1. linked /\ held'[o] = W!Bound(o, connection) /\ alive'[o]
        /\ \A x \in W!Objects : x # o => held'[x] = held[x]
    BY <1>1, <1>7, <1>14 DEF W!Setup, WrappersType
  <2>2. CASE o = "manager"
    <3>1. ~Emptied("manager")
      <4>1. \E p \in W!Proxies(o) : TRUE
        BY <1>1, FreedFits
      <4> QED
        BY <1>14, <2>1, <2>2, <4>1 DEF W!Setup, W!Bound, W!Nothing
    <3> QED
      BY <1>6, <2>1, <3>1
  <2>3. CASE o = "child"
    BY <1>3, <1>5, <1>6, <1>14, <2>1, <2>3 DEF W!Setup, ValidIsHolding
  <2> QED
    BY <1>5, <2>2, <2>3
<1>15. ASSUME NEW o \in W!Objects, W!FromApplication(o)
       PROVE  family["child"].follows /\ (Emptied("child") \/ ~Emptied("manager"))
  <2>1. linked /\ o = "manager" /\ held'[o] = W!Bound(o, connection) /\ connection # 0
    BY <1>1, <1>7, <1>15 DEF W!FromApplication, WrappersType
  <2>2. \E p \in W!Proxies(o) : TRUE
    BY <1>1, FreedFits
  <2>3. ~Emptied("manager")
    BY <2>1, <2>2 DEF W!Bound, W!Nothing
  <2> QED
    BY <1>6, <2>1, <2>3
<1>16. ASSUME NEW o \in W!Objects, W!Release(o)
       PROVE  family["child"].follows /\ (Emptied("child") \/ ~Emptied("manager"))
  <2>1. linked /\ family["child"].follows
    BY <1>6, <1>7, <1>16 DEF W!Release
  <2>2. W!ReleasedWith("manager") = W!Proxies("child") /\ W!ReleasedWith("child") = {}
    BY <1>1, <1>5, <2>1, FreedFits DEF W!ReleasedWith, W!Row
  <2>3. W!Row(o).released \in {{}, W!Proxies(o)}
    BY <1>1, FreedFits
  <2>4. CASE o = "manager"
    <3>1. held'["child"] = W!Without("child", W!Proxies("child"))
      BY <1>5, <1>16, <2>2, <2>4 DEF W!Release
    <3> QED
      BY <1>1, <1>5, <2>1, <3>1, WithoutIs
  <2>5. CASE o = "child"
    <3>1. /\ held'["manager"] = held["manager"]
          /\ held'["child"] \in {held["child"], W!Nothing("child")}
      BY <1>1, <1>5, <1>16, <2>2, <2>3, <2>5, WithoutIs DEF W!Release
    <3> QED
      BY <1>6, <2>1, <3>1
  <2> QED
    BY <1>5, <2>4, <2>5
<1>17. ASSUME W!Connect \/ \E o \in W!Objects : W!Request(o) \/ W!Remember(o)
       PROVE  UNCHANGED <<linked, held>>
  BY <1>17 DEF W!Connect, W!Request, W!Remember
<1> QED
  BY <1>8, <1>9, <1>10, <1>11, <1>12, <1>13, <1>14, <1>15, <1>16, <1>17 DEF W!Next

LEMMA WrappersStep ==
  WrappersInv /\ (W!Next \/ UNCHANGED wrapperVars) => WrappersInv'
<1>1. WrappersInv /\ W!Next => WrappersInv'
  BY WrappersMove, WrappersTyped, MovesKeep, WrappersLinked DEF WrappersInv
<1>2. WrappersInv /\ UNCHANGED wrapperVars => WrappersInv'
  <2> SUFFICES ASSUME WrappersInv, UNCHANGED wrapperVars PROVE WrappersInv'
    OBVIOUS
  <2>1. WrappersType'
    BY DEF WrappersInv, WrappersType, wrapperVars, W!Remembered, W!Row, W!Values
  <2>2. Moves
    BY DEF WrappersInv, WrappersType, wrapperVars, Moves
  <2>3. Linked'
    BY DEF WrappersInv, Linked, wrapperVars, W!FollowersGoFirst, W!Valid, W!Row
  <2> QED
    BY <2>1, <2>2, <2>3, MovesKeep DEF WrappersInv
<1> QED
  BY <1>1, <1>2

-----------------------------------------------------------------------------
(* Wrappers: what is sent.                                                 *)

\* Messages on proxies of the connection there is, of each object the role's before
\* the surface's.
InOrder(s) ==
  \A i, j \in DOMAIN s :
    /\ s[i].object = s[j].object
    /\ s[j].proxy \in W!Roles /\ s[i].proxy = W!SurfaceOf[s[j].proxy]
    => j < i
Goodbyes ==
  [object : W!Objects, proxy : W!Proxies("manager") \cup W!Proxies("child"),
   connection : {connection}, request : {"destroy"}]

LEMMA KeptIs == \A s, places : W!Kept(s, places) = Kept(s, places)
<1>1. \A set : W!Cardinality(set) = Cardinality(set)
  BY DEF W!Cardinality, Cardinality
<1>2. \A places, k : W!Rank(places, k) = Rank(places, k)
  BY <1>1 DEF W!Rank, Rank
<1> TAKE s, places
<1>3. W!Kept(s, places) =
        [n \in 1 .. Cardinality(places) |->
           s[CHOOSE k \in places : W!Rank(places, k) = n]]
  BY <1>1 DEF W!Kept
<1>4. \A n \in 1 .. Cardinality(places) :
        (CHOOSE k \in places : W!Rank(places, k) = n)
          = (CHOOSE k \in places : Rank(places, k) = n)
  BY <1>2
<1> QED
  BY <1>3, <1>4 DEF Kept

LEMMA DestructorsAre ==
  WrappersType /\ AllOrNothing =>
    \A o \in W!Objects : \A ps :
      /\ W!Destructors(o, ps) \in Seq(Goodbyes)
      /\ \A i \in DOMAIN W!Destructors(o, ps) : W!Destructors(o, ps)[i].object = o
      /\ InOrder(W!Destructors(o, ps))
      /\ ps = {} => W!Destructors(o, ps) = <<>>
<1> SUFFICES ASSUME WrappersType, AllOrNothing, NEW o \in W!Objects, NEW ps
             PROVE  /\ W!Destructors(o, ps) \in Seq(Goodbyes)
                    /\ \A i \in DOMAIN W!Destructors(o, ps) :
                         W!Destructors(o, ps)[i].object = o
                    /\ InOrder(W!Destructors(o, ps))
                    /\ ps = {} => W!Destructors(o, ps) = <<>>
  OBVIOUS
<1> DEFINE all == family[o].proxies
           places == {i \in DOMAIN all : all[i] \in ps /\ held[o][all[i]] # 0 /\ ~foreign[o]}
           c == Cardinality(places)
           freed == Kept(all, places)
           d == W!Destructors(o, ps)
<1>1. Fits(family[o])
  BY DEF WrappersType
<1>2. all \in Seq(W!Range(all))
  BY <1>1 DEF Fits
<1>3. /\ freed \in Seq(W!Range(all)) /\ Len(freed) = c /\ c \in Nat
      /\ \E f : /\ Enumerates(f, places)
                /\ \A i \in 1 .. c : freed[i] = all[f[i]]
  <2>1. places \in SUBSET DOMAIN all
    OBVIOUS
  <2> HIDE DEF places, all
  <2> QED
    BY <1>2, <2>1, KeptFacts
<1>4. PICK f : /\ Enumerates(f, places)
               /\ \A i \in 1 .. c : freed[i] = all[f[i]]
  BY <1>3
<1>5. \A i \in 1 .. c : f[i] \in places
  <2> HIDE DEF places
  <2> QED
    BY <1>4 DEF Enumerates
<1>6. \A i, j \in 1 .. c : f[j] < f[i] => j < i
  <2> TAKE i, j \in 1 .. c
  <2>1. i \in Nat /\ j \in Nat /\ f[i] \in Nat /\ f[j] \in Nat
    <3>1. f[i] \in DOMAIN all /\ f[j] \in DOMAIN all
      BY <1>5
    <3>2. DOMAIN all \subseteq Nat
      <4> HIDE DEF all
      <4> QED
        BY <1>2
    <3>3. i \in Nat /\ j \in Nat
      <4> HIDE DEF c
      <4> QED
        BY <1>3
    <3> QED
      BY <3>1, <3>2, <3>3
  <2>2. i < j => f[i] < f[j]
    <3> HIDE DEF places
    <3> QED
      BY <1>4 DEF Enumerates
  <2> HIDE DEF places, c
  <2> QED
    BY <2>1, <2>2
<1>7. d = [i \in DOMAIN freed |-> W!Message(o, freed[i], held[o][freed[i]], "destroy")]
  <2>1. d = [i \in DOMAIN W!Kept(all, places) |->
               W!Message(o, W!Kept(all, places)[i], held[o][W!Kept(all, places)[i]], "destroy")]
    BY DEF W!Destructors, W!Row
  <2>2. W!Kept(all, places) = freed
    BY KeptIs
  <2> HIDE DEF d, places, freed, all
  <2> QED
    BY <2>1, <2>2
<1>8. DOMAIN freed = 1 .. c
  <2> HIDE DEF freed, c
  <2> QED
    BY <1>3
<1>9. \A i \in 1 .. c : freed[i] \in W!Proxies(o) /\ held[o][freed[i]] # 0
  <2> TAKE i \in 1 .. c
  <2>1. f[i] \in DOMAIN all /\ held[o][all[f[i]]] # 0
    BY <1>5
  <2>2. freed[i] = all[f[i]]
    BY <1>4
  <2> HIDE DEF freed
  <2> QED
    BY <2>1, <2>2 DEF W!Proxies, W!Row, W!Range
<1>10. \A p \in W!Proxies(o) : held[o][p] # 0 => held[o][p] = connection
  BY DEF AllOrNothing, W!Nothing, W!Bound
<1>11. DOMAIN d = 1 .. c /\ \A i \in 1 .. c :
         d[i] = [object |-> o, proxy |-> freed[i], connection |-> connection,
                 request |-> "destroy"]
  <2> HIDE DEF d, freed, c
  <2> QED
    BY <1>7, <1>8, <1>9, <1>10 DEF W!Message
<1> HIDE DEF d, c
<1>12. d \in Seq(Goodbyes)
  <2> HIDE DEF freed
  <2>1. \A i \in 1 .. c : d[i] \in Goodbyes
    <3>1. W!Proxies(o) \subseteq W!Proxies("manager") \cup W!Proxies("child")
      BY DEF W!Objects
    <3> QED
      BY <1>9, <1>11, <3>1 DEF Goodbyes
  <2>2. d = [i \in 1 .. c |-> d[i]]
    BY <1>7, <1>8, <1>11
  <2> QED
    BY <1>3, <2>1, <2>2
<1>13. InOrder(d)
  <2> SUFFICES ASSUME NEW i \in 1 .. c, NEW j \in 1 .. c,
                      freed[j] \in W!Roles, freed[i] = W!SurfaceOf[freed[j]]
               PROVE  j < i
    <3> HIDE DEF freed
    <3> QED
      BY <1>11 DEF InOrder
  <2>1. /\ f[i] \in DOMAIN all /\ f[j] \in DOMAIN all
        /\ freed[i] = all[f[i]] /\ freed[j] = all[f[j]]
    BY <1>4, <1>5
  <2> HIDE DEF freed, places
  <2>2. f[j] < f[i]
    BY <1>1, <2>1 DEF Fits
  <2> QED
    BY <1>6, <2>2
<1>14. \A i \in DOMAIN d : d[i].object = o
  <2> HIDE DEF freed
  <2> QED
    BY <1>11
<1>15. ps = {} => d = <<>>
  <2> SUFFICES ASSUME ps = {} PROVE d = <<>>
    OBVIOUS
  <2>1. places = {}
    OBVIOUS
  <2>2. c = 0
    <3> HIDE DEF places
    <3> QED
      BY <2>1, FS_EmptySet DEF c
  <2>3. Len(d) = 0
    BY <1>3, <1>11, <1>12, <2>2
  <2> QED
    BY <1>12, <2>3
<1> QED
  BY <1>12, <1>13, <1>14, <1>15 DEF d

LEMMA InOrderBoth ==
  ASSUME NEW s \in Seq(Goodbyes), NEW t \in Seq(Goodbyes), InOrder(s), InOrder(t),
         \A i \in DOMAIN s, j \in DOMAIN t : s[i].object # t[j].object
  PROVE  s \o t \in Seq(Goodbyes) /\ InOrder(s \o t)
<1> DEFINE all == s \o t
<1>1. /\ DOMAIN s = 1 .. Len(s) /\ Len(s) \in Nat /\ Len(t) \in Nat
      /\ DOMAIN all = 1 .. Len(s) + Len(t) /\ DOMAIN t = 1 .. Len(t)
      /\ \A k \in DOMAIN s : k \in DOMAIN all /\ all[k] = s[k]
      /\ \A k \in DOMAIN all : k \notin DOMAIN s => k - Len(s) \in DOMAIN t /\ all[k] = t[k - Len(s)]
  BY Behind
<1>2. all \in Seq(Goodbyes)
  OBVIOUS
<1> HIDE DEF all
<1>3. InOrder(all)
  <2> SUFFICES ASSUME NEW i \in DOMAIN all, NEW j \in DOMAIN all,
                      all[i].object = all[j].object,
                      all[j].proxy \in W!Roles, all[i].proxy = W!SurfaceOf[all[j].proxy]
               PROVE  j < i
    BY DEF InOrder
  <2>1. CASE i \in DOMAIN s /\ j \in DOMAIN s
    BY <1>1, <2>1 DEF InOrder
  <2>2. CASE i \notin DOMAIN s /\ j \notin DOMAIN s
    <3> DEFINE k == i - Len(s)
               l == j - Len(s)
    <3>1. /\ k \in DOMAIN t /\ l \in DOMAIN t /\ all[i] = t[k] /\ all[j] = t[l]
          /\ i \in Nat /\ j \in Nat
      BY <1>1, <2>2
    <3>2. l < k
      <4> HIDE DEF k, l
      <4> QED
        BY <3>1 DEF InOrder
    <3> QED
      BY <1>1, <3>1, <3>2
  <2>3. CASE i \in DOMAIN s /\ j \notin DOMAIN s
    BY <1>1, <2>3
  <2>4. CASE i \notin DOMAIN s /\ j \in DOMAIN s
    BY <1>1, <2>4
  <2> QED
    BY <2>1, <2>2, <2>3, <2>4
<1> QED
  BY <1>2, <1>3 DEF all

\* What a step sends is on the connection there is, and in order.
SentFits == (\A i \in DOMAIN sent : sent[i].connection = connection) /\ InOrder(sent)

LEMMA GoodbyesFit ==
  ASSUME NEW s \in Seq(Goodbyes)
  PROVE  \A i \in DOMAIN s : s[i].connection = connection
<1>1. \A m \in Goodbyes : m.connection = connection
  BY DEF Goodbyes
<1>2. \A i \in DOMAIN s : s[i] \in Goodbyes
  OBVIOUS
<1> QED
  BY <1>1, <1>2

LEMMA WrappersSend ==
  WrappersInv /\ SentFits /\ (W!Next \/ UNCHANGED wrapperVars)
    => /\ \A i \in DOMAIN sent' : sent'[i].connection = connection'
       /\ InOrder(sent')
<1> SUFFICES ASSUME WrappersInv, SentFits, W!Next \/ UNCHANGED wrapperVars
             PROVE  /\ \A i \in DOMAIN sent' : sent'[i].connection = connection'
                    /\ InOrder(sent')
  OBVIOUS
<1> DEFINE d(o, ps) == W!Destructors(o, ps)
<1>1. WrappersType /\ AllOrNothing
  BY DEF WrappersInv
<1>2. \A o \in W!Objects : \A ps :
        /\ d(o, ps) \in Seq(Goodbyes) /\ InOrder(d(o, ps))
        /\ \A i \in DOMAIN d(o, ps) : d(o, ps)[i].object = o
        /\ ps = {} => d(o, ps) = <<>>
  BY <1>1, DestructorsAre
<1>3. "manager" \in W!Objects /\ "child" \in W!Objects
      /\ \A o \in W!Objects : o = "manager" \/ o = "child"
  BY DEF W!Objects
<1> HIDE DEF d
<1>4. ASSUME sent' \in Seq(Goodbyes), InOrder(sent'), connection' = connection
      PROVE  /\ \A i \in DOMAIN sent' : sent'[i].connection = connection'
             /\ InOrder(sent')
  BY <1>4, GoodbyesFit
<1>5. ASSUME NEW o \in W!Objects, NEW p \in W!Objects, NEW ps, NEW qs,
             o # p \/ ps = {}
      PROVE  d(o, ps) \o d(p, qs) \in Seq(Goodbyes) /\ InOrder(d(o, ps) \o d(p, qs))
  <2>1. \A i \in DOMAIN d(o, ps), j \in DOMAIN d(p, qs) :
          d(o, ps)[i].object # d(p, qs)[j].object
    BY <1>2, <1>5
  <2> QED
    BY <1>2, <2>1, InOrderBoth
<1>6. CASE UNCHANGED wrapperVars
  BY <1>6 DEF wrapperVars, SentFits
<1>7. ASSUME sent' = <<>>
      PROVE  /\ \A i \in DOMAIN sent' : sent'[i].connection = connection'
             /\ InOrder(sent')
  BY <1>7 DEF InOrder
<1>8. CASE W!Connect \/ W!Construct \/ W!CreateChild \/ W!ConnectionDies
           \/ \E o \in W!Objects : W!Setup(o) \/ W!FromApplication(o)
  BY <1>7, <1>8 DEF W!Connect, W!Construct, W!CreateChild, W!ConnectionDies, W!Setup,
                    W!FromApplication
<1>9. ASSUME NEW o \in W!Objects, W!Request(o) \/ W!Remember(o)
      PROVE  /\ \A i \in DOMAIN sent' : sent'[i].connection = connection'
             /\ InOrder(sent')
  <2>1. \/ sent' = <<>>
        \/ /\ W!Valid(o)
           /\ \E r \in DOMAIN family[o].requests :
                LET p == family[o].requests[r]
                IN  sent' = <<W!Message(o, p, held[o][p], r)>>
    <3>1. DOMAIN family[o].remembers \subseteq DOMAIN family[o].requests
      BY <1>1 DEF WrappersType, Fits
    <3> QED
      BY <1>9, <3>1 DEF W!Request, W!Remember, W!Row
  <2>2. connection' = connection
    BY <1>9 DEF W!Request, W!Remember
  <2>3. CASE sent' # <<>>
    <3>1. PICK r \in DOMAIN family[o].requests :
            sent' = <<W!Message(o, family[o].requests[r],
                                held[o][family[o].requests[r]], r)>>
      BY <2>1, <2>3
    <3> DEFINE p == family[o].requests[r]
    <3>2. p \in W!Proxies(o)
      BY <1>1 DEF WrappersType, Fits, W!Proxies, W!Row
    <3>3. held[o][p] = connection
      <4>1. held[o] = W!Bound(o, connection)
        BY <1>1, <2>1, <2>3, ValidHolds DEF ValidIsHolding
      <4> QED
        BY <3>2, <4>1 DEF W!Bound
    <3> HIDE DEF p
    <3>4. /\ DOMAIN sent' = {1} /\ sent'[1].connection = connection
          /\ sent'[1].proxy = p
      BY <3>1, <3>3 DEF W!Message, p
    <3>5. \A part \in W!Roles : W!SurfaceOf[part] # part
      BY DEF W!Roles, W!SurfaceOf
    <3> QED
      BY <2>2, <3>4, <3>5 DEF InOrder
  <2> QED
    BY <1>7, <2>3
<1>10. CASE W!DeleteChild \/ W!EndEvent
  <2>1. sent' = d("child", W!Proxies("child")) /\ connection' = connection
    BY <1>10 DEF W!DeleteChild, W!EndEvent, d
  <2> QED
    BY <1>2, <1>3, <1>4, <2>1
<1>11. CASE W!DeleteManager
  <2>1. \E ps, qs : \/ sent' = d("child", ps) \o d("manager", qs)
                    \/ sent' = d("manager", qs) \o d("child", ps)
    BY <1>11 DEF W!DeleteManager, d
  <2>2. connection' = connection
    BY <1>11 DEF W!DeleteManager
  <2> QED
    BY <1>3, <1>4, <1>5, <2>1, <2>2
<1>12. ASSUME NEW o \in W!Objects, W!Release(o)
       PROVE  /\ \A i \in DOMAIN sent' : sent'[i].connection = connection'
              /\ InOrder(sent')
  <2>1. /\ sent' = d("child", W!ReleasedWith(o)) \o d(o, W!Row(o).released)
        /\ connection' = connection
    BY <1>12 DEF W!Release, d
  <2>2. o # "child" \/ W!ReleasedWith(o) = {}
    BY DEF W!ReleasedWith
  <2> QED
    BY <1>3, <1>4, <1>5, <2>1, <2>2
<1> QED
  BY <1>6, <1>8, <1>9, <1>10, <1>11, <1>12 DEF W!Next

LEMMA WiresFit ==
  WrappersInv /\ SentFits => W!WireIsLegal /\ W!InvalidHoldsNothing
<1> SUFFICES ASSUME WrappersInv, SentFits
             PROVE  W!WireIsLegal /\ W!InvalidHoldsNothing
  OBVIOUS
<1>1. WrappersType /\ AllOrNothing /\ Linked
  BY DEF WrappersInv
<1>2. ASSUME NEW o \in W!Objects, NEW part \in W!Roles \cap W!Proxies(o),
             W!SurfaceOf[part] \in W!Proxies(o)
      PROVE  /\ held[o][part] # 0 => held[o][W!SurfaceOf[part]] # 0
             /\ \A i, j \in DOMAIN sent :
                   /\ sent[i].object = o /\ sent[i].proxy = W!SurfaceOf[part]
                   /\ sent[j].object = o /\ sent[j].proxy = part
                   => j < i
  <2>1. held[o][part] # 0 => held[o][W!SurfaceOf[part]] # 0
    <3>1. CASE held[o] = W!Nothing(o)
      BY <1>2, <3>1 DEF W!Nothing
    <3>2. CASE held[o] = W!Bound(o, connection)
      BY <1>2, <3>2 DEF W!Bound
    <3> QED
      BY <1>1, <3>1, <3>2 DEF AllOrNothing
  <2>2. part \in W!Roles
    OBVIOUS
  <2> QED
    BY <2>1, <2>2 DEF SentFits, InOrder
<1>3. W!WireIsLegal
  BY <1>2 DEF W!WireIsLegal, W!NothingSentToTheDead, W!RoleBeforeSurface, SentFits
<1>4. W!InvalidHoldsNothing
  BY <1>1, ValidHolds DEF ValidIsHolding, W!InvalidHoldsNothing
<1> QED
  BY <1>3, <1>4

\* What is told.
LEMMA WrappersTell ==
  WrappersInv /\ WrappersInv' /\ W!CompositorIsTold /\ W!Next => W!CompositorIsTold'
<1> SUFFICES ASSUME WrappersInv, WrappersInv', W!CompositorIsTold, W!Next
             PROVE  W!CompositorIsTold'
  OBVIOUS
<1> DEFINE KnowsOf(o) == W!Valid(o) /\ (W!Row(o).reinstalls \/ ~renewed[o]) => told[o] = memo[o]
<1>1. WrappersType /\ AllOrNothing /\ Moves
  BY WrappersMove DEF WrappersInv
<1>2. ValidIsHolding /\ ValidIsHolding'
  <2>1. (WrappersType /\ AllOrNothing)'
    BY DEF WrappersInv
  <2> QED
    BY <1>1, <2>1, ValidHolds, PTL
<1>3. \A o \in W!Objects : W!Nothing(o)' = W!Nothing(o) /\ W!Row(o)' = W!Row(o)
  BY <1>1, FamilyStays DEF Moves
<1>4. /\ "manager" \in W!Objects /\ "child" \in W!Objects
      /\ \A o \in W!Objects : o = "manager" \/ o = "child"
  BY DEF W!Objects
<1>5. \A o \in W!Objects : KnowsOf(o)
  BY DEF W!CompositorIsTold
<1>6. ASSUME NEW o \in W!Objects,
             memo'[o] = memo[o], told'[o] = told[o], renewed'[o] = renewed[o],
             held'[o] \in {held[o], W!Nothing(o)}
      PROVE  KnowsOf(o)'
  <2>1. W!Valid(o)' => W!Valid(o)
    BY <1>2, <1>3, <1>6 DEF ValidIsHolding
  <2> QED
    BY <1>3, <1>5, <1>6, <2>1
<1>7. CASE W!Connect \/ W!Construct \/ W!ConnectionDies \/ W!DeleteChild \/ W!DeleteManager
           \/ W!EndEvent \/ \E o \in W!Objects : W!Request(o) \/ W!Release(o)
  <2>1. \A o \in W!Objects : memo'[o] = memo[o] /\ told'[o] = told[o]
    BY <1>7 DEF W!Connect, W!Construct, W!ConnectionDies, W!DeleteChild, W!DeleteManager,
                W!EndEvent, W!Request, W!Release
  <2>2. \A o \in W!Objects : \/ held'[o] = W!Nothing(o)
                              \/ /\ held'[o] = held[o]
                                 /\ renewed'[o] = renewed[o]
    <3>1. \A o \in W!Objects : renewed'[o] = renewed[o] \/ held'[o] = W!Nothing(o)
      BY <1>1, <1>7 DEF WrappersType, W!Connect, W!Construct, W!ConnectionDies, W!DeleteChild,
                  W!DeleteManager, W!EndEvent, W!Request, W!Release
    <3>2. \A o \in W!Objects : held'[o] \in {held[o], W!Nothing(o)}
      <4>1. CASE W!ConnectionDies
        BY <1>1, <4>1, FreedFits, WithoutIs DEF W!ConnectionDies
      <4>2. CASE \E o \in W!Objects : W!Release(o)
        <5>1. PICK o \in W!Objects : W!Release(o)
          BY <4>2
        <5>2. \A x \in W!Objects :
                (IF x = o THEN W!Row(o).released ELSE W!ReleasedWith(o))
                  \in {{}, W!Proxies(x)}
          BY <1>1, <1>4, FreedFits DEF W!ReleasedWith
        <5> QED
          BY <1>1, <5>1, <5>2, WithoutIs DEF W!Release
      <4>3. CASE W!DeleteManager
        <5> DEFINE owned == alive["child"] /\ W!Row("child").owned
                   freed == IF owned THEN W!Proxies("child") ELSE W!ReleasedWith("manager")
        <5>1. freed \in {{}, W!Proxies("child")}
          BY <1>1, <1>4, FreedFits DEF W!ReleasedWith
        <5>2. held'["child"] = W!Nothing("child") \/ held'["child"] = held["child"]
          BY <1>1, <1>4, <4>3, <5>1, WithoutIs DEF W!DeleteManager
        <5>3. held'["manager"] = W!Nothing("manager")
          BY <4>3 DEF W!DeleteManager
        <5> QED
          BY <1>4, <5>2, <5>3
      <4> QED
        BY <1>1, <1>7, <4>1, <4>2, <4>3 DEF WrappersType, W!Connect, W!Construct,
           W!DeleteChild, W!EndEvent, W!Request
    <3> QED
      <4> TAKE o \in W!Objects
      <4>1. held'[o] = held[o] \/ held'[o] = W!Nothing(o)
        BY <3>2
      <4> QED
        BY <3>1, <4>1
  <2>3. ASSUME NEW o \in W!Objects PROVE KnowsOf(o)'
    <3>1. CASE held'[o] = W!Nothing(o)
      <4>1. ~W!Valid(o)'
        BY <1>2, <1>3, <3>1 DEF ValidIsHolding
      <4> QED
        BY <4>1
    <3>2. CASE held'[o] = held[o] /\ renewed'[o] = renewed[o]
      BY <1>6, <2>1, <3>2
    <3> QED
      BY <2>2, <3>1, <3>2
  <2> QED
    BY <2>3 DEF W!CompositorIsTold, W!Objects
<1>8. CASE W!CreateChild
  <2>1. /\ memo'["child"] = told'["child"]
        /\ memo'["manager"] = memo["manager"] /\ told'["manager"] = told["manager"]
        /\ renewed'["manager"] = renewed["manager"] /\ held'["manager"] = held["manager"]
    BY <1>1, <1>4, <1>8 DEF W!CreateChild, WrappersType
  <2>2. KnowsOf("manager")' /\ KnowsOf("child")'
    BY <1>4, <1>6, <2>1
  <2> QED
    BY <1>4, <2>2 DEF W!CompositorIsTold, W!Objects
<1>9. ASSUME NEW o \in W!Objects, W!Setup(o) \/ W!FromApplication(o)
      PROVE  W!CompositorIsTold'
  <2>1. KnowsOf(o)'
    <3>1. CASE W!Setup(o)
      <4>1. /\ told'[o] = W!Retold(o) /\ memo' = memo /\ renewed'[o]
        BY <1>1, <3>1 DEF W!Setup, WrappersType
      <4> QED
        BY <1>3, <4>1 DEF W!Retold
    <3>2. CASE W!FromApplication(o)
      BY <1>1, <3>2 DEF W!FromApplication, WrappersType
    <3> QED
      BY <1>9, <3>1, <3>2
  <2>2. ASSUME NEW x \in W!Objects, x # o PROVE KnowsOf(x)'
    <3>1. /\ memo'[x] = memo[x] /\ told'[x] = told[x] /\ renewed'[x] = renewed[x]
          /\ held'[x] = held[x]
      BY <1>1, <1>9, <2>2 DEF W!Setup, W!FromApplication, WrappersType
    <3> QED
      BY <1>6, <3>1
  <2> QED
    BY <2>1, <2>2 DEF W!CompositorIsTold, W!Objects
<1>10. ASSUME NEW o \in W!Objects, W!Remember(o)
       PROVE  W!CompositorIsTold'
  <2>1. PICK r \in DOMAIN W!Row(o).remembers, v \in W!Values :
          LET x == W!Row(o).remembers[r]
              sends == W!Valid(o) /\ ~(W!Row(o).skipsSame /\ v = memo[o][x])
          IN  /\ memo' = [memo EXCEPT ![o][x] = W!Effect(r, @, v)]
              /\ told' = IF sends THEN [told EXCEPT ![o][x] = W!Effect(r, @, v)] ELSE told
              /\ UNCHANGED <<alive, held, family, renewed>>
    BY <1>10 DEF W!Remember
  <2> DEFINE x == W!Row(o).remembers[r]
             sends == W!Valid(o) /\ ~(W!Row(o).skipsSame /\ v = memo[o][x])
  <2>2. x \in W!Remembered(o) /\ (W!Row(o).skipsSame => r \notin {"add", "subtract"})
    BY <1>1, RemembersFits
  <2>3. /\ memo'[o] = [memo[o] EXCEPT ![x] = W!Effect(r, memo[o][x], v)]
        /\ sends => told'[o] = [told[o] EXCEPT ![x] = W!Effect(r, told[o][x], v)]
        /\ ~sends => told'[o] = told[o]
        /\ \A y \in W!Objects : y # o => memo'[y] = memo[y] /\ told'[y] = told[y]
    BY <1>1, <2>1 DEF WrappersType
  <2>4. W!Valid(o)' = W!Valid(o)
    BY <2>1 DEF W!Valid, W!Row
  <2>5. KnowsOf(o)'
    <3> SUFFICES ASSUME W!Valid(o), W!Row(o).reinstalls \/ ~renewed[o]
                 PROVE  told'[o] = memo'[o]
      BY <1>3, <2>1, <2>4
    <3>1. told[o] = memo[o]
      BY <1>5
    <3>2. CASE sends
      BY <2>3, <3>1, <3>2
    <3>3. CASE ~sends
      <4>1. W!Row(o).skipsSame /\ v = memo[o][x]
        BY <3>3
      <4>2. W!Effect(r, memo[o][x], v) = memo[o][x]
        BY <2>2, <4>1 DEF W!Effect
      <4>3. memo'[o] = memo[o]
        <5>1. memo[o] = [y \in DOMAIN memo[o] |-> memo[o][y]]
          BY <1>1 DEF WrappersType
        <5> HIDE DEF x
        <5> QED
          BY <2>3, <4>2, <5>1
      <4> QED
        BY <2>3, <3>1, <3>3, <4>3
    <3> QED
      BY <3>2, <3>3
  <2>6. ASSUME NEW y \in W!Objects, y # o PROVE KnowsOf(y)'
    BY <1>6, <2>1, <2>3, <2>6
  <2> QED
    BY <2>5, <2>6 DEF W!CompositorIsTold, W!Objects
<1> QED
  BY <1>7, <1>8, <1>9, <1>10 DEF W!Next

\* The invariant of the wrappers, when they are what is looked at.
WrappersLooked ==
  component = "Wrappers" => WrappersInv /\ SentFits /\ W!CompositorIsTold

LEMMA WrappersStart == Init => WrappersLooked
<1> SUFFICES ASSUME Init PROVE WrappersInv /\ SentFits /\ W!CompositorIsTold
  BY DEF WrappersLooked
<1>1. W!Init
  BY DEF Init
<1>2. SentFits
  BY <1>1 DEF W!Init, SentFits, InOrder
<1>3. W!CompositorIsTold
  BY <1>1 DEF W!Init, W!CompositorIsTold
<1> QED
  BY <1>1, <1>2, <1>3, WrappersInit

LEMMA WrappersGoOn == WrappersLooked /\ [Next]_vars => WrappersLooked'
<1> SUFFICES ASSUME WrappersLooked, [Next]_vars, component' = "Wrappers"
             PROVE  (WrappersInv /\ SentFits /\ W!CompositorIsTold)'
  BY DEF WrappersLooked
<1>1. component = "Wrappers" /\ (W!Next \/ UNCHANGED wrapperVars)
  BY DEF Next, ViewsNext, vars
<1>2. WrappersInv /\ SentFits /\ W!CompositorIsTold
  BY <1>1 DEF WrappersLooked
<1>3. WrappersInv'
  BY <1>1, <1>2, WrappersStep
<1>4. SentFits'
  BY <1>1, <1>2, WrappersSend DEF SentFits, InOrder, W!Roles, W!SurfaceOf
<1>5. W!CompositorIsTold'
  <2>1. CASE W!Next
    BY <1>2, <1>3, <2>1, WrappersTell
  <2>2. CASE UNCHANGED wrapperVars
    BY <1>2, <2>2 DEF wrapperVars, W!CompositorIsTold, W!Valid, W!Row, W!Objects
  <2> QED
    BY <1>1, <2>1, <2>2
<1> QED
  BY <1>3, <1>4, <1>5

\* The invariant is kept by every step of the interfaces, whatever families of classes
\* are looked at and however many connections there are.
THEOREM WrappersInvariance == Spec => []WrappersLooked
BY WrappersStart, WrappersGoOn, PTL DEF Spec

\* Nothing is sent on a proxy of a connection that is gone, a role is destroyed before
\* its surface, and no child that listens to its manager outlives it, for every class
\* of which every proxy is freed by a call of the user.
THEOREM WrappersAreLegal == Spec => []WireIsLegal
<1>1. WrappersLooked => WireIsLegal
  BY WiresFit DEF WrappersLooked, WireIsLegal, WrappersInv, Linked, W!FollowersGoFirst
<1> QED
  BY <1>1, WrappersInvariance, PTL

\* An object that is not valid holds no proxy.
THEOREM InvalidIsEmpty == Spec => []InvalidHoldsNothing
<1>1. WrappersLooked => InvalidHoldsNothing
  BY WiresFit DEF WrappersLooked, InvalidHoldsNothing
<1> QED
  BY <1>1, WrappersInvariance, PTL

\* What a valid object remembers is what the compositor was told, through any number of
\* connections.
THEOREM CompositorKnows == Spec => []CompositorIsTold
<1>1. WrappersLooked => CompositorIsTold
  BY DEF WrappersLooked, CompositorIsTold
<1> QED
  BY <1>1, WrappersInvariance, PTL

-----------------------------------------------------------------------------
(* A window of a shell and what it is told of its size.                    *)

XdgBatches == [size : Sizes, states : SUBSET States] \cup {X!Bare}

XdgEvents ==
  [kind : {"role"}, size : Sizes, states : SUBSET States]
    \cup [kind : {"surface"}, serial : Nat]
    \cup [kind : {"configure"}, size : Sizes, states : SUBSET States, serial : Nat]

XdgType ==
  /\ xdgVersion \in X!Versions
  /\ role \in {"none", "toplevel", "popup", "released"}
  /\ xdgEvents \in Seq(XdgEvents)
  /\ xdgBatches \in Seq(XdgBatches)
  /\ draft \in XdgBatches
  /\ xdgAnnounced.serial \in 0 .. Len(xdgBatches)

\* Before a window is made nothing is sent to it; what a protocol and a role have not is
\* not sent in them.
XdgKinds ==
  /\ role = "none" => xdgEvents = <<>> /\ xdgBatches = <<>> /\ draft = X!Bare
                        /\ xdgAnnounced.serial = 0
  /\ \A i \in DOMAIN xdgEvents :
       /\ xdgVersion \in X!Batched <=> xdgEvents[i].kind \in {"role", "surface"}
       /\ role = "popup" /\ xdgEvents[i].kind = "role" => xdgEvents[i].states = {}
       /\ xdgVersion = "wl_shell" => xdgEvents[i].states = {}
  /\ role = "popup" => xdgVersion \in X!Batched

\* Whether the event at a place ends a batch.
Ends(i) == xdgEvents[i].kind # "role"

\* The batches on their way are those that were not announced, in their order.
XdgNumbered ==
  /\ \A i \in DOMAIN xdgEvents :
       Ends(i) => /\ xdgEvents[i].serial \in Nat
                  /\ xdgAnnounced.serial < xdgEvents[i].serial
                  /\ xdgEvents[i].serial <= Len(xdgBatches)
  /\ \A i, j \in DOMAIN xdgEvents :
       i < j /\ Ends(i) /\ Ends(j) => xdgEvents[i].serial < xdgEvents[j].serial
  /\ \A n \in 1 .. Len(xdgBatches) :
       n > xdgAnnounced.serial =>
         \E i \in DOMAIN xdgEvents : Ends(i) /\ xdgEvents[i].serial = n

\* A batch is what the event at a place says of it; in place of an event that has been
\* taken, what it left pending. A popup that was released drops what its role is told.
SaidAt(b, i) ==
  IF i = 0
  THEN role # "released" /\ b # X!Bare
         => pendingSize = b.size /\ pendingState = b.states \cap X!Known
  ELSE IF xdgEvents[i].kind = "role"
       THEN b = [size |-> xdgEvents[i].size, states |-> xdgEvents[i].states]
       ELSE b = X!Bare

XdgSaid ==
  /\ \A i \in DOMAIN xdgEvents :
       xdgEvents[i].kind = "surface" => SaidAt(xdgBatches[xdgEvents[i].serial], i - 1)
  /\ \A i \in DOMAIN xdgEvents :
       xdgEvents[i].kind = "configure" =>
         xdgBatches[xdgEvents[i].serial]
           = [size |-> xdgEvents[i].size, states |-> xdgEvents[i].states]
  /\ xdgVersion \in X!Batched => SaidAt(draft, Len(xdgEvents))
  /\ role = "popup" => \A n \in DOMAIN xdgBatches : xdgBatches[n].states = {}
  /\ role = "popup" => draft.states = {}

\* The size is that of the latest batch that gave one.
XdgSized ==
  role = "toplevel" /\ (\A i \in 1 .. xdgAnnounced.serial : xdgBatches[i] # X!Bare)
    => X!Sizing = {} \/ \E k \in X!Sizing : /\ \A j \in X!Sizing : j <= k
                                           /\ size = xdgBatches[k].size

XdgInv ==
  /\ XdgType
  /\ XdgKinds
  /\ XdgNumbered
  /\ XdgSaid
  /\ X!AnnouncedIsSent
  /\ XdgSized

LEMMA XdgInit == X!Init => XdgInv
<1> SUFFICES ASSUME X!Init PROVE XdgInv
  OBVIOUS
<1> USE DEF X!Init
<1>1. xdgEvents = <<>> /\ xdgBatches = <<>> /\ DOMAIN xdgEvents = {} /\ Len(xdgBatches) = 0
        /\ Len(xdgEvents) = 0
  OBVIOUS
<1>2. XdgType /\ XdgKinds
  BY <1>1 DEF XdgType, XdgKinds, XdgBatches, X!Nobody
<1>3. XdgNumbered
  BY <1>1 DEF XdgNumbered
<1>4. XdgSaid
  BY <1>1 DEF XdgSaid, SaidAt
<1>5. X!AnnouncedIsSent /\ XdgSized
  BY DEF X!AnnouncedIsSent, XdgSized, X!Nobody, X!Sizing
<1> QED
  BY <1>2, <1>3, <1>4, <1>5 DEF XdgInv

\* What a step that sends nothing and takes nothing keeps.
LEMMA XdgQuiet ==
  ASSUME XdgInv, UNCHANGED <<xdgVersion, role, xdgEvents, draft, xdgBatches, pendingSize,
                             pendingState, size, xdgAnnounced>>
  PROVE  XdgInv'
BY DEF XdgInv, XdgType, XdgKinds, XdgNumbered, Ends, XdgSaid, SaidAt, X!AnnouncedIsSent,
   XdgSized, X!Sizing

\* A window is made, or ends.
LEMMA XdgNew ==
  ASSUME XdgInv, X!CreateToplevel \/ X!CreatePopup \/ X!Release \/ X!ReleasePopup
  PROVE  XdgInv'
<1>1. CASE X!CreateToplevel \/ X!CreatePopup
  <2>1. /\ xdgEvents = <<>> /\ xdgBatches = <<>> /\ draft = X!Bare /\ xdgAnnounced.serial = 0
        /\ UNCHANGED <<xdgVersion, xdgEvents, draft, xdgBatches, pendingSize, pendingState,
                       size, xdgAnnounced>>
        /\ role' \in {"toplevel", "popup"}
        /\ role' = "popup" => xdgVersion \in X!Batched
    BY <1>1 DEF X!CreateToplevel, X!CreatePopup, X!Fresh, X!compositorVars, X!clientVars,
       XdgInv, XdgKinds
  <2>2. DOMAIN xdgEvents' = {} /\ DOMAIN xdgBatches' = {} /\ Len(xdgBatches') = 0
          /\ Len(xdgEvents') = 0 /\ X!Bare.states = {}
    BY <2>1 DEF X!Bare
  <2>3. XdgType' /\ XdgKinds' /\ XdgNumbered'
    BY <2>1, <2>2 DEF XdgInv, XdgType, XdgKinds, XdgNumbered
  <2>4. XdgSaid'
    BY <2>1, <2>2 DEF XdgSaid, SaidAt
  <2>5. X!AnnouncedIsSent' /\ XdgSized'
    <3>1. X!Sizing' = {}
      BY <2>1 DEF X!Sizing
    <3> QED
      BY <2>1, <3>1 DEF X!AnnouncedIsSent, XdgSized
  <2> QED
    BY <2>3, <2>4, <2>5 DEF XdgInv
<1>2. CASE X!Release
  <2>1. /\ xdgEvents' = <<>> /\ xdgBatches' = <<>> /\ draft' = X!Bare
        /\ xdgAnnounced'.serial = 0 /\ role' = "none" /\ UNCHANGED xdgVersion
    BY <1>2 DEF X!Release, X!Nobody
  <2>2. DOMAIN xdgEvents' = {} /\ DOMAIN xdgBatches' = {} /\ Len(xdgBatches') = 0
          /\ Len(xdgEvents') = 0 /\ X!Bare \in XdgBatches
    BY <2>1 DEF XdgBatches
  <2>3. XdgType' /\ XdgKinds' /\ XdgNumbered'
    BY <2>1, <2>2 DEF XdgInv, XdgType, XdgKinds, XdgNumbered
  <2>4. XdgSaid'
    BY <2>1, <2>2 DEF XdgSaid, SaidAt
  <2>5. X!AnnouncedIsSent' /\ XdgSized'
    <3>1. X!Sizing' = {}
      BY <2>1 DEF X!Sizing
    <3> QED
      BY <2>1, <3>1 DEF X!AnnouncedIsSent, XdgSized
  <2> QED
    BY <2>3, <2>4, <2>5 DEF XdgInv
<1>3. CASE X!ReleasePopup
  <2>1. /\ role = "popup" /\ role' = "released"
        /\ UNCHANGED <<xdgVersion, xdgEvents, draft, xdgBatches, pendingSize, pendingState,
                       size, xdgAnnounced>>
    BY <1>3 DEF X!ReleasePopup, X!compositorVars, X!clientVars
  <2>2. XdgType' /\ XdgKinds' /\ XdgNumbered'
    BY <2>1 DEF XdgInv, XdgType, XdgKinds, XdgNumbered, Ends
  <2>3. \A b, i : SaidAt(b, i) => SaidAt(b, i)'
    BY <2>1 DEF SaidAt
  <2>4. XdgSaid'
    BY <2>1, <2>3 DEF XdgInv, XdgSaid
  <2>5. X!AnnouncedIsSent' /\ XdgSized'
    BY <2>1 DEF X!AnnouncedIsSent, XdgSized
  <2> QED
    BY <2>2, <2>4, <2>5 DEF XdgInv
<1> QED
  BY <1>1, <1>2, <1>3

\* An event is sent, which ends a batch or not.
LEMMA XdgGrows ==
  ASSUME XdgInv, NEW e \in XdgEvents, NEW b \in XdgBatches,
         xdgEvents' = Append(xdgEvents, e), role # "none",
         UNCHANGED <<xdgVersion, role, pendingSize, pendingState, size, xdgAnnounced>>,
         IF e.kind = "role" THEN UNCHANGED xdgBatches
         ELSE xdgBatches' = Append(xdgBatches, b) /\ e.serial = Len(xdgBatches) + 1,
         draft' \in XdgBatches,
         xdgVersion \in X!Batched <=> e.kind \in {"role", "surface"},
         role = "popup" /\ e.kind = "role" => e.states = {},
         xdgVersion = "wl_shell" => e.states = {},
         e.kind = "surface" => SaidAt(b, Len(xdgEvents)) /\ draft' = X!Bare,
         e.kind = "configure" => b = [size |-> e.size, states |-> e.states],
         e.kind = "role" => draft' = [size |-> e.size, states |-> e.states],
         role = "popup" => b.states = {} /\ draft'.states = {}
  PROVE  XdgInv'
<1> DEFINE n == Len(xdgEvents)
           m == Len(xdgBatches)
<1>1. /\ n \in Nat /\ DOMAIN xdgEvents = 1 .. n /\ DOMAIN xdgEvents' = 1 .. n + 1
      /\ \A i \in 1 .. n : xdgEvents'[i] = xdgEvents[i]
      /\ xdgEvents'[n + 1] = e /\ xdgEvents' \in Seq(XdgEvents) /\ Len(xdgEvents') = n + 1
  BY DEF XdgInv, XdgType
<1>2. /\ m \in Nat /\ DOMAIN xdgBatches = 1 .. m
      /\ xdgBatches' \in Seq(XdgBatches) /\ Len(xdgBatches') \in Nat
      /\ Len(xdgBatches') = IF e.kind = "role" THEN m ELSE m + 1
      /\ DOMAIN xdgBatches' = 1 .. Len(xdgBatches')
      /\ \A i \in 1 .. m : xdgBatches'[i] = xdgBatches[i]
      /\ e.kind # "role" => xdgBatches'[m + 1] = b /\ e.serial = m + 1
  <2>1. xdgBatches \in Seq(XdgBatches) /\ m \in Nat /\ DOMAIN xdgBatches = 1 .. m
    BY DEF XdgInv, XdgType
  <2>2. CASE e.kind = "role"
    BY <2>1, <2>2
  <2>3. CASE e.kind # "role"
    <3>1. xdgBatches' = Append(xdgBatches, b) /\ e.serial = m + 1
      BY <2>3
    <3>2. \A t \in Seq(XdgBatches) :
            /\ Append(t, b) \in Seq(XdgBatches) /\ Len(Append(t, b)) = Len(t) + 1
            /\ \A i \in 1 .. Len(t) : Append(t, b)[i] = t[i]
            /\ Append(t, b)[Len(t) + 1] = b
      OBVIOUS
    <3>3. /\ xdgBatches' \in Seq(XdgBatches) /\ Len(xdgBatches') = m + 1
          /\ \A i \in 1 .. m : xdgBatches'[i] = xdgBatches[i]
          /\ xdgBatches'[m + 1] = b
      BY <2>1, <3>1, <3>2
    <3> HIDE DEF m
    <3> QED
      BY <2>1, <2>3, <3>1, <3>3
  <2> QED
    BY <2>2, <2>3
<1>3. xdgAnnounced.serial \in 0 .. m
  BY DEF XdgInv, XdgType
<1> HIDE DEF n, m
<1>4. XdgType'
  <2>1. xdgVersion \in X!Versions /\ role \in {"none", "toplevel", "popup", "released"}
    BY DEF XdgInv, XdgType
  <2> QED
    BY <1>1, <1>2, <1>3, <2>1 DEF XdgType
<1>5. XdgKinds'
  <2>1. XdgKinds
    BY DEF XdgInv
  <2> QED
    BY <1>1, <2>1 DEF XdgKinds
<1>6. XdgNumbered'
  <2>1. XdgNumbered
    BY DEF XdgInv
  <2>2. \A i \in DOMAIN xdgEvents' :
          Ends(i)' => /\ xdgEvents'[i].serial \in Nat
                      /\ xdgAnnounced.serial < xdgEvents'[i].serial
                      /\ xdgEvents'[i].serial <= Len(xdgBatches')
    BY <1>1, <1>2, <1>3, <2>1 DEF XdgNumbered, Ends
  <2>3. \A i, j \in DOMAIN xdgEvents' :
          i < j /\ Ends(i)' /\ Ends(j)' => xdgEvents'[i].serial < xdgEvents'[j].serial
    BY <1>1, <1>2, <1>3, <2>1 DEF XdgNumbered, Ends
  <2>4. \A k \in 1 .. Len(xdgBatches') :
          k > xdgAnnounced.serial =>
            \E i \in DOMAIN xdgEvents' : Ends(i)' /\ xdgEvents'[i].serial = k
    <3> SUFFICES ASSUME NEW k \in 1 .. Len(xdgBatches'), k > xdgAnnounced.serial
                 PROVE  \E i \in DOMAIN xdgEvents' : Ends(i)' /\ xdgEvents'[i].serial = k
      OBVIOUS
    <3>1. CASE k \in 1 .. m
      <4>1. PICK i \in DOMAIN xdgEvents : Ends(i) /\ xdgEvents[i].serial = k
        BY <2>1, <3>1 DEF XdgNumbered, m
      <4>2. i \in DOMAIN xdgEvents' /\ xdgEvents'[i] = xdgEvents[i]
        BY <1>1, <4>1
      <4> QED
        BY <4>1, <4>2 DEF Ends
    <3>2. CASE k \notin 1 .. m
      <4>1. e.kind # "role" /\ e.serial = k
        BY <1>2, <3>2
      <4>2. n + 1 \in DOMAIN xdgEvents' /\ xdgEvents'[n + 1] = e
        BY <1>1
      <4> QED
        BY <4>1, <4>2 DEF Ends
    <3> QED
      BY <3>1, <3>2
  <2> QED
    BY <2>2, <2>3, <2>4 DEF XdgNumbered
<1>7. XdgSaid'
  <2>1. XdgSaid /\ XdgNumbered /\ XdgKinds
    BY DEF XdgInv
  <2>3. \A i \in 1 .. n : Ends(i) => xdgEvents[i].serial \in 1 .. m
    <3> SUFFICES ASSUME NEW i \in 1 .. n, Ends(i) PROVE xdgEvents[i].serial \in 1 .. m
      OBVIOUS
    <3>1. /\ xdgEvents[i].serial \in Nat /\ xdgAnnounced.serial < xdgEvents[i].serial
          /\ xdgEvents[i].serial <= m
      BY <1>1, <2>1 DEF XdgNumbered, m
    <3> QED
      BY <1>2, <1>3, <3>1
  <2>4. \A i \in DOMAIN xdgEvents' :
          xdgEvents'[i].kind = "surface" => SaidAt(xdgBatches[xdgEvents[i].serial], i - 1)'
    <3> SUFFICES ASSUME NEW i \in 1 .. n + 1, xdgEvents'[i].kind = "surface"
                 PROVE  SaidAt(xdgBatches[xdgEvents[i].serial], i - 1)'
      BY <1>1
    <3>1. CASE i = n + 1
      <4>1. xdgBatches'[xdgEvents'[i].serial] = b /\ i - 1 = n
        BY <1>1, <1>2, <3>1
      <4>2. SaidAt(b, n)
        BY <1>1, <3>1 DEF n
      <4>3. n # 0 => xdgEvents'[n] = xdgEvents[n]
        BY <1>1
      <4> QED
        BY <4>1, <4>2, <4>3 DEF SaidAt
    <3>2. CASE i # n + 1
      <4>1. i \in 1 .. n /\ i - 1 \in 0 .. n /\ xdgEvents'[i] = xdgEvents[i]
        BY <1>1, <3>2
      <4>2. SaidAt(xdgBatches[xdgEvents[i].serial], i - 1)
        BY <1>1, <2>1, <4>1 DEF XdgSaid
      <4>3. xdgBatches'[xdgEvents'[i].serial] = xdgBatches[xdgEvents[i].serial]
        BY <1>2, <2>3, <4>1 DEF Ends
      <4> QED
        BY <1>1, <4>1, <4>2, <4>3 DEF SaidAt
    <3> QED
      BY <3>1, <3>2
  <2>5. \A i \in DOMAIN xdgEvents' :
          xdgEvents'[i].kind = "configure" =>
            xdgBatches'[xdgEvents'[i].serial]
              = [size |-> xdgEvents'[i].size, states |-> xdgEvents'[i].states]
    BY <1>1, <1>2, <2>1, <2>3 DEF XdgSaid, Ends
  <2>6. xdgVersion \in X!Batched => SaidAt(draft, Len(xdgEvents))'
    <3>1. Len(xdgEvents)' = n + 1 /\ n + 1 # 0
      BY <1>1
    <3> QED
      BY <1>1, <3>1 DEF SaidAt
  <2>7. role = "popup" => \A k \in DOMAIN xdgBatches' : xdgBatches'[k].states = {}
    BY <1>2, <2>1 DEF XdgSaid
  <2> QED
    BY <2>4, <2>5, <2>6, <2>7 DEF XdgSaid
<1>8. X!AnnouncedIsSent' /\ XdgSized'
  <2>1. \A i \in 1 .. xdgAnnounced.serial : xdgBatches'[i] = xdgBatches[i]
    BY <1>2, <1>3
  <2>2. X!Sizing' = X!Sizing /\ X!Sizing \in SUBSET (1 .. xdgAnnounced.serial)
    BY <2>1 DEF X!Sizing
  <2>3. X!AnnouncedIsSent'
    <3>1. xdgAnnounced.serial # 0 => xdgAnnounced.serial \in 1 .. xdgAnnounced.serial
      BY <1>2, <1>3
    <3> QED
      BY <2>1, <3>1 DEF XdgInv, X!AnnouncedIsSent
  <2>4. XdgSized'
    BY <2>1, <2>2 DEF XdgInv, XdgSized
  <2> QED
    BY <2>3, <2>4
<1> QED
  BY <1>4, <1>5, <1>6, <1>7, <1>8 DEF XdgInv

\* The compositor sends a configure.
LEMMA XdgSent ==
  ASSUME XdgInv, X!SendRole \/ X!SendSurface \/ X!SendConfigure
  PROVE  XdgInv'
<1> USE DEF X!Batched
<1>0. XdgKinds /\ XdgSaid /\ draft \in XdgBatches /\ xdgBatches \in Seq(XdgBatches)
        /\ xdgVersion \in {"stable", "v6", "v5", "wl_shell"}
        /\ role \in {"none", "toplevel", "popup", "released"}
  BY DEF XdgInv, XdgType, X!Versions
<1>1. CASE X!SendRole
  <2>1. PICK c \in X!Contents :
          /\ role # "none" /\ xdgVersion \in X!Batched
          /\ role # "toplevel" => c.states = {}
          /\ draft' = c
          /\ xdgEvents' = Append(xdgEvents,
                                 [kind |-> "role", size |-> c.size, states |-> c.states])
          /\ UNCHANGED <<xdgVersion, role, xdgBatches, pendingSize, pendingState, size,
                         xdgAnnounced>>
    BY <1>1 DEF X!SendRole, X!clientVars
  <2> DEFINE e == [kind |-> "role", size |-> c.size, states |-> c.states]
  <2>2. c.size \in Sizes /\ c.states \in SUBSET States
          /\ c = [size |-> c.size, states |-> c.states] /\ c \in XdgBatches
    BY DEF X!Contents, XdgBatches
  <2>3. e \in XdgEvents
    BY <2>2 DEF XdgEvents
  <2>4. e.kind = "role" /\ e.size = c.size /\ e.states = c.states
    OBVIOUS
  <2>5. xdgEvents' = Append(xdgEvents, e)
    BY <2>1
  <2> HIDE DEF e
  <2> QED
    BY <1>0, <2>1, <2>2, <2>3, <2>4, <2>5, XdgGrows
<1>2. CASE X!SendSurface
  <2> DEFINE e == [kind |-> "surface", serial |-> Len(xdgBatches) + 1]
  <2>1. /\ role # "none" /\ xdgVersion \in X!Batched /\ draft' = X!Bare
        /\ xdgEvents' = Append(xdgEvents, e) /\ xdgBatches' = Append(xdgBatches, draft)
        /\ UNCHANGED <<xdgVersion, role, pendingSize, pendingState, size, xdgAnnounced>>
    BY <1>2 DEF X!SendSurface, X!clientVars
  <2>2. e.kind = "surface" /\ e.serial = Len(xdgBatches) + 1 /\ Len(xdgBatches) + 1 \in Nat
    BY <1>0
  <2>3. e \in XdgEvents
    BY <2>2 DEF XdgEvents
  <2>4. X!Bare \in XdgBatches /\ X!Bare.states = {}
    BY DEF XdgBatches, X!Bare
  <2>5. SaidAt(draft, Len(xdgEvents)) /\ (role = "popup" => draft.states = {})
    BY <1>0, <2>1 DEF XdgSaid
  <2> HIDE DEF e
  <2> QED
    BY <1>0, <2>1, <2>2, <2>3, <2>4, <2>5, XdgGrows
<1>3. CASE X!SendConfigure
  <2>1. PICK c \in X!Contents :
          /\ role = "toplevel" /\ xdgVersion \notin X!Batched
          /\ xdgVersion = "wl_shell" => c.states = {}
          /\ xdgBatches' = Append(xdgBatches, c)
          /\ xdgEvents' = Append(xdgEvents,
                                 [kind |-> "configure", size |-> c.size,
                                  states |-> c.states, serial |-> Len(xdgBatches) + 1])
          /\ UNCHANGED <<xdgVersion, role, draft, pendingSize, pendingState, size,
                         xdgAnnounced>>
    BY <1>3 DEF X!SendConfigure, X!clientVars
  <2> DEFINE e == [kind |-> "configure", size |-> c.size, states |-> c.states,
                   serial |-> Len(xdgBatches) + 1]
  <2>2. c.size \in Sizes /\ c.states \in SUBSET States
          /\ c = [size |-> c.size, states |-> c.states] /\ c \in XdgBatches
    BY DEF X!Contents, XdgBatches
  <2>3. Len(xdgBatches) + 1 \in Nat
    BY <1>0
  <2>4. e \in XdgEvents
    BY <2>2, <2>3 DEF XdgEvents
  <2>5. e.kind = "configure" /\ e.size = c.size /\ e.states = c.states
          /\ e.serial = Len(xdgBatches) + 1
    OBVIOUS
  <2>6. xdgEvents' = Append(xdgEvents, e)
    BY <2>1
  <2> HIDE DEF e
  <2> QED
    BY <1>0, <2>1, <2>2, <2>4, <2>5, <2>6, XdgGrows
<1> QED
  BY <1>1, <1>2, <1>3

\* An event is taken: either it is kept pending, or it ends the first batch, which is
\* announced.
LEMMA XdgShrinks ==
  ASSUME XdgInv, xdgEvents # <<>>, xdgEvents' = Tail(xdgEvents),
         UNCHANGED <<xdgVersion, role, draft, xdgBatches>>,
         IF Head(xdgEvents).kind = "role"
         THEN /\ UNCHANGED <<size, xdgAnnounced>>
              /\ role # "released" =>
                   /\ pendingSize' = Head(xdgEvents).size
                   /\ pendingState' = Head(xdgEvents).states \cap X!Known
         ELSE xdgAnnounced'.serial = Head(xdgEvents).serial
  PROVE  /\ XdgType' /\ XdgKinds' /\ XdgNumbered' /\ XdgSaid'
         /\ Ends(1) => /\ xdgAnnounced'.serial = xdgAnnounced.serial + 1
                       /\ xdgAnnounced'.serial \in DOMAIN xdgBatches
         /\ xdgAnnounced.serial \in Nat
<1> DEFINE m == Len(xdgBatches)
           t == Tail(xdgEvents)
           old == xdgAnnounced.serial
           new == xdgAnnounced'.serial
<1>0. XdgType /\ XdgKinds /\ XdgNumbered /\ XdgSaid
  BY DEF XdgInv
<1>1. /\ 1 \in DOMAIN xdgEvents /\ Head(xdgEvents) = xdgEvents[1] /\ t \in Seq(XdgEvents)
      /\ \A k \in DOMAIN t : k + 1 \in DOMAIN xdgEvents /\ t[k] = xdgEvents[k + 1]
                               /\ k \in Nat /\ k # 0
      /\ \A k \in DOMAIN xdgEvents : k # 1 =>
           k - 1 \in DOMAIN t /\ t[k - 1] = xdgEvents[k] /\ k = (k - 1) + 1 /\ k > 1
      /\ Len(t) + 1 = Len(xdgEvents) /\ Len(t) \in Nat /\ DOMAIN t = 1 .. Len(t)
  BY <1>0 DEF XdgType
<1>2. m \in Nat /\ DOMAIN xdgBatches = 1 .. m /\ old \in 0 .. m
  BY <1>0 DEF XdgType
<1> HIDE DEF t, m
<1>3. Ends(1) => /\ new = old + 1
                 /\ new \in 1 .. m
  <2> SUFFICES ASSUME Ends(1) PROVE new = old + 1 /\ new \in 1 .. m
    OBVIOUS
  <2>1. new = xdgEvents[1].serial /\ new \in Nat /\ old < new /\ new <= m
    BY <1>0, <1>1 DEF XdgNumbered, Ends, m
  <2>2. old + 1 \in 1 .. m
    BY <1>2, <2>1
  <2>3. PICK i \in DOMAIN xdgEvents : Ends(i) /\ xdgEvents[i].serial = old + 1
    BY <1>0, <1>2, <2>2 DEF XdgNumbered, m
  <2>4. CASE i = 1
    BY <2>1, <2>2, <2>3, <2>4
  <2>5. CASE i # 1
    <3>1. xdgEvents[1].serial < xdgEvents[i].serial
      BY <1>0, <1>1, <2>3, <2>5 DEF XdgNumbered
    <3> QED
      BY <1>2, <2>1, <2>3, <3>1
  <2> QED
    BY <2>4, <2>5
<1>4. new \in 0 .. m /\ old <= new /\ (~Ends(1) => new = old)
  BY <1>1, <1>2, <1>3 DEF Ends
<1>5. XdgType'
  BY <1>0, <1>1, <1>4 DEF XdgType, m, t
<1>6. XdgKinds'
  <2>1. role = "none" => FALSE
    BY <1>0 DEF XdgKinds
  <2> QED
    BY <1>0, <1>1, <2>1 DEF XdgKinds, t
<1>7. XdgNumbered'
  <2>1. \A i \in DOMAIN t : Ends(i)' <=> Ends(i + 1)
    BY <1>1 DEF Ends, t
  <2>2. ASSUME NEW i \in DOMAIN t, Ends(i + 1)
        PROVE  /\ t[i].serial \in Nat /\ new < t[i].serial /\ t[i].serial <= m
    <3>1. /\ t[i].serial \in Nat /\ old < t[i].serial /\ t[i].serial <= m
      BY <1>0, <1>1, <2>2 DEF XdgNumbered, m
    <3>2. CASE Ends(1)
      <4>1. xdgEvents[1].serial < t[i].serial
        <5>1. 1 < i + 1
          BY <1>1
        <5> QED
          BY <1>0, <1>1, <2>2, <3>2, <5>1 DEF XdgNumbered
      <4> QED
        BY <1>1, <3>1, <3>2, <4>1 DEF Ends
    <3>3. CASE ~Ends(1)
      BY <1>4, <3>1, <3>3
    <3> QED
      BY <3>2, <3>3
  <2>3. \A i, j \in DOMAIN t :
          i < j /\ Ends(i + 1) /\ Ends(j + 1) => t[i].serial < t[j].serial
    <3> TAKE i, j \in DOMAIN t
    <3>1. i < j => i + 1 < j + 1
      BY <1>1
    <3> QED
      BY <1>0, <1>1, <3>1 DEF XdgNumbered
  <2>4. ASSUME NEW k \in 1 .. m, k > new
        PROVE  \E i \in DOMAIN t : Ends(i + 1) /\ t[i].serial = k
    <3>1. k > old
      BY <1>2, <1>4, <2>4
    <3>2. PICK j \in DOMAIN xdgEvents : Ends(j) /\ xdgEvents[j].serial = k
      BY <1>0, <3>1 DEF XdgNumbered, m
    <3>3. j # 1
      BY <1>1, <1>2, <1>4, <2>4, <3>2 DEF Ends
    <3>4. j - 1 \in DOMAIN t /\ t[j - 1] = xdgEvents[j] /\ j = (j - 1) + 1
      BY <1>1, <3>3
    <3> QED
      BY <3>2, <3>4
  <2> HIDE DEF new
  <2> QED
    BY <2>1, <2>2, <2>3, <2>4 DEF XdgNumbered, t, m, new
<1>8. XdgSaid'
  <2> DEFINE After(b, i) ==
               IF i = 0
               THEN role # "released" /\ b # X!Bare
                      => /\ pendingSize' = b.size
                         /\ pendingState' = b.states \cap X!Known
               ELSE IF t[i].kind = "role" THEN b = [size |-> t[i].size, states |-> t[i].states]
                    ELSE b = X!Bare
  <2>1. ASSUME NEW b, NEW i \in 0 .. Len(t), SaidAt(b, i + 1)
        PROVE  After(b, i)
    <3>1. CASE i = 0
      <4>1. i + 1 = 1 /\ 1 # 0
        BY <3>1
      <4>2. IF xdgEvents[1].kind = "role"
            THEN b = [size |-> xdgEvents[1].size, states |-> xdgEvents[1].states]
            ELSE b = X!Bare
        BY <2>1, <4>1 DEF SaidAt
      <4> QED
        BY <1>1, <3>1, <4>2
    <3>2. CASE i # 0
      <4>1. i \in DOMAIN t /\ i + 1 # 0
        BY <1>1, <3>2
      <4> QED
        BY <1>1, <2>1, <3>2, <4>1 DEF SaidAt
    <3> QED
      BY <3>1, <3>2
  <2>2. ASSUME NEW i \in DOMAIN t, t[i].kind = "surface"
        PROVE  SaidAt(xdgBatches[xdgEvents[i].serial], i - 1)'
    <3>1. SaidAt(xdgBatches[t[i].serial], (i + 1) - 1)
      BY <1>0, <1>1, <2>2 DEF XdgSaid
    <3>2. i - 1 \in 0 .. Len(t) /\ (i - 1) + 1 = (i + 1) - 1
      BY <1>1
    <3>3. SaidAt(xdgBatches[t[i].serial], (i - 1) + 1)
      BY <3>1, <3>2
    <3> HIDE DEF After
    <3>4. After(xdgBatches[t[i].serial], i - 1)
      BY <2>1, <3>2, <3>3
    <3> QED
      BY <3>4 DEF SaidAt, After, t
  <2>3. \A i \in DOMAIN t :
          t[i].kind = "configure" =>
            xdgBatches[t[i].serial] = [size |-> t[i].size, states |-> t[i].states]
    BY <1>0, <1>1 DEF XdgSaid
  <2>4. xdgVersion \in X!Batched => SaidAt(draft, Len(xdgEvents))'
    <3>1. Len(t) \in 0 .. Len(t)
      BY <1>1
    <3>2. xdgVersion \in X!Batched => SaidAt(draft, Len(t) + 1)
      BY <1>0, <1>1 DEF XdgSaid
    <3> HIDE DEF After
    <3>3. xdgVersion \in X!Batched => After(draft, Len(t))
      BY <2>1, <3>1, <3>2
    <3> QED
      BY <3>3 DEF SaidAt, After, t
  <2> QED
    BY <1>0, <2>2, <2>3, <2>4 DEF XdgSaid, t
<1> QED
  BY <1>2, <1>3, <1>5, <1>6, <1>7, <1>8

\* A configure is taken and announced as it was sent.
LEMMA XdgTaken ==
  ASSUME XdgInv, X!configureCallback \/ X!droppedConfigure \/ X!surfaceConfigureCallback
                 \/ X!popupConfigureCallback \/ X!configureCallbackV5
                 \/ X!configureCallbackWlShell
  PROVE  XdgInv'
<1> USE DEF X!Takes
<1> DEFINE old == xdgAnnounced.serial
           e == Head(xdgEvents)
<1>1. XdgType /\ XdgKinds /\ XdgNumbered /\ XdgSaid /\ X!AnnouncedIsSent /\ XdgSized
  BY DEF XdgInv
<1>2. xdgEvents # <<>> /\ xdgEvents' = Tail(xdgEvents)
        /\ UNCHANGED <<xdgVersion, role, draft, xdgBatches>>
  BY DEF X!configureCallback, X!droppedConfigure, X!surfaceConfigureCallback,
     X!popupConfigureCallback, X!configureCallbackV5, X!configureCallbackWlShell
<1>3. e = xdgEvents[1] /\ 1 \in DOMAIN xdgEvents /\ e \in XdgEvents /\ (Ends(1) <=> e.kind # "role")
  BY <1>1, <1>2 DEF XdgType, Ends
<1>4. CASE X!configureCallback
  <2>1. /\ e.kind = "role" /\ UNCHANGED <<size, xdgAnnounced>>
        /\ pendingSize' = e.size /\ pendingState' = e.states \cap X!Known
    BY <1>4 DEF X!configureCallback
  <2>2. XdgType' /\ XdgKinds' /\ XdgNumbered' /\ XdgSaid'
    BY <1>2, <2>1, XdgShrinks
  <2>3. X!AnnouncedIsSent' /\ XdgSized'
    BY <1>1, <1>2, <2>1 DEF X!AnnouncedIsSent, XdgSized, X!Sizing
  <2> QED
    BY <2>2, <2>3 DEF XdgInv
<1>13. CASE X!droppedConfigure
  <2>1. /\ e.kind = "role" /\ role = "released"
        /\ UNCHANGED <<size, xdgAnnounced, pendingSize, pendingState>>
    BY <1>13 DEF X!droppedConfigure, X!clientVars
  <2>2. XdgType' /\ XdgKinds' /\ XdgNumbered' /\ XdgSaid'
    BY <1>2, <2>1, XdgShrinks
  <2>3. X!AnnouncedIsSent' /\ XdgSized'
    BY <1>1, <1>2, <2>1 DEF X!AnnouncedIsSent, XdgSized, X!Sizing
  <2> QED
    BY <2>2, <2>3 DEF XdgInv
<1>5. ASSUME e.kind # "role", xdgAnnounced'.serial = e.serial,
             LET b == xdgBatches[e.serial]
             IN  role # "released" /\ b # X!Bare
                   => /\ xdgAnnounced'.size = b.size
                      /\ xdgAnnounced'.states = b.states \cap X!Known,
             LET b == xdgBatches[e.serial]
             IN  role = "toplevel" /\ b # X!Bare
                   => size' = IF b.size # X!Null \/ xdgVersion = "wl_shell" THEN b.size
                              ELSE size
      PROVE  XdgInv'
  <2> DEFINE new == xdgAnnounced'.serial
  <2>1. /\ XdgType' /\ XdgKinds' /\ XdgNumbered' /\ XdgSaid'
        /\ new = old + 1 /\ new \in DOMAIN xdgBatches /\ old \in Nat
    BY <1>2, <1>3, <1>5, XdgShrinks
  <2>2. X!AnnouncedIsSent'
    BY <1>2, <1>5 DEF X!AnnouncedIsSent
  <2>3. XdgSized'
    <3> DEFINE b == xdgBatches[new]
               sizing == b # X!Bare /\ (b.size # X!Null \/ xdgVersion = "wl_shell")
    <3> SUFFICES ASSUME role = "toplevel", \A i \in 1 .. new : xdgBatches[i] # X!Bare
                 PROVE  X!Sizing' = {} \/ \E k \in X!Sizing' :
                                            /\ \A j \in X!Sizing' : j <= k
                                            /\ size' = xdgBatches[k].size
      BY <1>2 DEF XdgSized
    <3>1. new \in 1 .. new /\ (1 .. new) = (1 .. old) \cup {new}
            /\ \A i \in 1 .. old : i <= new /\ i \in 1 .. new
      BY <2>1
    <3>2. X!Sizing' = IF sizing THEN X!Sizing \cup {new} ELSE X!Sizing
      BY <1>2, <3>1 DEF X!Sizing
    <3>3. X!Sizing \in SUBSET (1 .. old)
      BY DEF X!Sizing
    <3>4. b # X!Bare /\ size' = IF sizing THEN b.size ELSE size
      BY <1>5, <3>1
    <3>5. X!Sizing = {} \/ \E k \in X!Sizing : /\ \A j \in X!Sizing : j <= k
                                               /\ size = xdgBatches[k].size
      BY <1>1, <3>1 DEF XdgSized
    <3>6. CASE sizing
      <4>1. new \in X!Sizing' /\ \A j \in X!Sizing' : j <= new
        <5> HIDE DEF sizing, new
        <5>1. new <= new
          BY <2>1
        <5> QED
          BY <3>1, <3>2, <3>3, <3>6, <5>1
      <4> QED
        BY <3>4, <3>6, <4>1
    <3>7. CASE ~sizing
      BY <3>2, <3>4, <3>5, <3>7
    <3> QED
      BY <3>6, <3>7
  <2> QED
    BY <2>1, <2>2, <2>3 DEF XdgInv
<1>6. e.kind = "surface" => SaidAt(xdgBatches[e.serial], 0)
  BY <1>1, <1>3 DEF XdgSaid
<1>7. e.kind = "configure" =>
        xdgBatches[e.serial] = [size |-> e.size, states |-> e.states]
  BY <1>1, <1>3 DEF XdgSaid
<1>8. xdgVersion \in X!Batched <=> e.kind \in {"role", "surface"}
  BY <1>1, <1>3 DEF XdgKinds
<1>9. CASE X!surfaceConfigureCallback
  <2>1. /\ e.kind = "surface" /\ role = "toplevel" /\ xdgVersion # "wl_shell"
        /\ xdgAnnounced' = [size |-> pendingSize, states |-> pendingState, serial |-> e.serial]
        /\ size' = IF pendingSize # X!Null THEN pendingSize ELSE size
    BY <1>8, <1>9 DEF X!surfaceConfigureCallback, X!Batched
  <2>2. LET b == xdgBatches[e.serial]
        IN  b # X!Bare => pendingSize = b.size /\ pendingState = b.states \cap X!Known
    BY <1>6, <2>1 DEF SaidAt
  <2> QED
    BY <1>5, <2>1, <2>2
<1>10. CASE X!popupConfigureCallback
  <2>1. /\ e.kind = "surface" /\ role \in {"popup", "released"}
        /\ xdgAnnounced' = [size |-> pendingSize, states |-> {}, serial |-> e.serial]
    BY <1>10 DEF X!popupConfigureCallback
  <2>2. LET b == xdgBatches[e.serial]
        IN  role # "released" /\ b # X!Bare => pendingSize = b.size
    BY <1>6, <2>1 DEF SaidAt
  <2>3. e.serial \in DOMAIN xdgBatches
    <3>1. e.serial \in Nat /\ e.serial > xdgAnnounced.serial /\ e.serial <= Len(xdgBatches)
      BY <1>1, <1>3, <2>1 DEF XdgNumbered
    <3> QED
      BY <1>1, <3>1 DEF XdgType
  <2>4. role # "released" => xdgBatches[e.serial].states = {}
    BY <1>1, <2>1, <2>3 DEF XdgSaid
  <2> QED
    BY <1>5, <2>1, <2>2, <2>4
<1>11. CASE X!configureCallbackV5
  <2>1. /\ e.kind = "configure" /\ xdgVersion = "v5"
        /\ xdgAnnounced' = [size |-> e.size, states |-> e.states \cap X!Known,
                            serial |-> e.serial]
        /\ size' = IF e.size # X!Null THEN e.size ELSE size
    BY <1>11 DEF X!configureCallbackV5
  <2> QED
    BY <1>5, <1>7, <2>1
<1>12. CASE X!configureCallbackWlShell
  <2>1. /\ e.kind = "configure" /\ xdgVersion = "wl_shell"
        /\ xdgAnnounced' = [size |-> e.size, states |-> {}, serial |-> e.serial]
        /\ size' = e.size
    BY <1>12 DEF X!configureCallbackWlShell
  <2>2. e.states = {}
    BY <1>1, <1>3, <2>1 DEF XdgKinds
  <2> QED
    BY <1>5, <1>7, <2>1, <2>2
<1> QED
  BY <1>4, <1>9, <1>10, <1>11, <1>12, <1>13

LEMMA XdgStep == ASSUME XdgInv, X!Next PROVE XdgInv'
<1>1. CASE X!RequestResize
  BY <1>1, XdgQuiet DEF X!RequestResize, X!compositorVars, X!clientVars
<1> QED
  BY <1>1, XdgNew, XdgSent, XdgTaken DEF X!Next

\* What the invariant says of the size is what the property says of it.
LEMMA XdgFits == XdgInv => X!AnnouncedIsSent /\ X!SizeIsLatest
<1> SUFFICES ASSUME XdgInv PROVE X!SizeIsLatest
  BY DEF XdgInv
<1> SUFFICES ASSUME role = "toplevel", X!Sizing # {},
                    \A i \in 1 .. xdgAnnounced.serial : xdgBatches[i] # X!Bare
             PROVE  size = xdgBatches[X!Max(X!Sizing)].size
  BY DEF X!SizeIsLatest
<1>1. PICK k \in X!Sizing : (\A j \in X!Sizing : j <= k) /\ size = xdgBatches[k].size
  BY DEF XdgInv, XdgSized
<1>2. \A j \in X!Sizing : j \in Int
  BY DEF X!Sizing
<1>3. X!Max(X!Sizing) = k
  BY <1>1, <1>2 DEF X!Max
<1> QED
  BY <1>1, <1>3

ConfigureLooked == component = "XdgShell" => XdgInv

LEMMA ConfigureStart == Init => ConfigureLooked
BY XdgInit DEF Init, ConfigureLooked

LEMMA ConfigureGoesOn == ConfigureLooked /\ [Next]_vars => ConfigureLooked'
<1> SUFFICES ASSUME ConfigureLooked, [Next]_vars, component' = "XdgShell"
             PROVE  XdgInv'
  BY DEF ConfigureLooked
<1>1. component = "XdgShell" /\ (X!Next \/ UNCHANGED xdgVars)
  BY DEF Next, ViewsNext, vars
<1>2. XdgInv
  BY <1>1 DEF ConfigureLooked
<1>3. CASE X!Next
  BY <1>2, <1>3, XdgStep
<1>4. CASE UNCHANGED xdgVars
  BY <1>2, <1>4, XdgQuiet DEF xdgVars
<1> QED
  BY <1>1, <1>3, <1>4

\* What a window or a popup that is set up announces is what was sent with the serial it
\* is to be acknowledged with, in every protocol of the shells, and a window has the size
\* of the latest configure that gave it one. Of a popup that was released it is not said:
\* its xdg_surface goes on announcing without the role's events
\* (XdgShellPopupStable::Private::release).
THEOREM ConfiguresAreFollowed == Spec => []ConfigureIsFollowed
<1>1. ConfigureLooked => ConfigureIsFollowed
  BY XdgFits DEF ConfigureLooked, ConfigureIsFollowed
<1> QED
  BY <1>1, ConfigureStart, ConfigureGoesOn, PTL DEF Spec

-----------------------------------------------------------------------------
(* XdgOutput and Dpms and the batches they are told of.                    *)

ExtensionValues == AttributeValues \cup {E!Unset, E!Future, "yes", "no"} \cup E!Modes

AllSet(c) == [E!Attributes[c] -> ExtensionValues]

\* What there is of an object of a class, and what is sent to it.
ExtensionStates(c) ==
  [current : AllSet(c), pending : AllSet(c), arrived : SUBSET E!Attributes[c]]

ExtensionEvents(c) ==
  [of : E!Attributes[c], value : ExtensionValues] \cup [of : {"done"}]

\* Whether an object makes nothing of a value.
Dropped(c, value) == c = "Dpms" /\ value = E!Future

\* An object after an event.
ExtensionAfter(c, u, e) ==
  IF e.of = "done"
  THEN IF c = "XdgOutput"
       THEN [current |-> u.pending, pending |-> u.current, arrived |-> u.arrived]
       ELSE [current |-> [a \in E!Attributes[c] |->
                            IF a \in u.arrived THEN u.pending[a] ELSE u.current[a]],
             pending |-> E!Default(c), arrived |-> {}]
  ELSE IF Dropped(c, e.value) THEN u
  ELSE [current |-> u.current, pending |-> [u.pending EXCEPT ![e.of] = e.value],
        arrived |-> IF c = "Dpms" THEN u.arrived \cup {e.of} ELSE u.arrived]

ExtensionMoves(c) ==
  {move \in ExtensionStates(c) \X ExtensionEvents(c) \X ExtensionStates(c) :
     move[3] = ExtensionAfter(c, move[1], move[2])}

Shown == [current |-> current, pending |-> pending, arrived |-> arrived]

\* An object that has taken every event says what the compositor says.
Settled(u) ==
  /\ class = "Dpms" => u.arrived = {}
  /\ extensionBatches # <<>> =>
       \A a \in IF class = "XdgOutput" THEN extensionBatches[Len(extensionBatches)]
                ELSE E!Attributes[class] :
         extensionServer[a] # E!Future => u.current[a] = extensionServer[a]

ExtensionInv ==
  /\ class \in {"XdgOutput", "Dpms"}
  /\ extensionServer \in AllSet(class)
  /\ extensionBatches \in Seq(SUBSET E!Attributes[class])
  /\ extensionEvents \in Seq(ExtensionEvents(class))
  /\ Shown \in ExtensionStates(class)
  /\ \E u \in ExtensionStates(class) :
       /\ Leads(ExtensionStates(class), ExtensionMoves(class), Shown, extensionEvents, u)
       /\ Settled(u)

LEMMA ExtensionMove ==
  ASSUME NEW c, NEW u, NEW e, NEW v
  PROVE  <<u, e, v>> \in ExtensionMoves(c) <=>
           /\ u \in ExtensionStates(c) /\ e \in ExtensionEvents(c)
           /\ v \in ExtensionStates(c) /\ v = ExtensionAfter(c, u, e)
<1> DEFINE move == <<u, e, v>>
<1>1. move[1] = u /\ move[2] = e /\ move[3] = v
  OBVIOUS
<1>2. move \in ExtensionStates(c) \X ExtensionEvents(c) \X ExtensionStates(c) <=>
        u \in ExtensionStates(c) /\ e \in ExtensionEvents(c) /\ v \in ExtensionStates(c)
  OBVIOUS
<1> HIDE DEF move
<1>3. move \in ExtensionMoves(c) <=>
        /\ move \in ExtensionStates(c) \X ExtensionEvents(c) \X ExtensionStates(c)
        /\ move[3] = ExtensionAfter(c, move[1], move[2])
  BY DEF ExtensionMoves
<1> QED
  BY <1>1, <1>2, <1>3 DEF move

LEMMA DefaultIsSet ==
  ASSUME NEW c \in {"XdgOutput", "Dpms"} PROVE E!Default(c) \in AllSet(c)
<1>1. CASE c = "XdgOutput"
  BY <1>1 DEF E!Default, AllSet, ExtensionValues
<1>2. CASE c = "Dpms"
  <2>1. E!Attributes[c] = {"supported", "mode"}
    BY <1>2 DEF E!Attributes
  <2>2. E!Default(c) = [supported |-> "no", mode |-> "On"]
    BY <1>2 DEF E!Default
  <2>3. "no" \in ExtensionValues /\ "On" \in ExtensionValues
    BY DEF ExtensionValues, E!Modes
  <2> QED
    BY <2>1, <2>2, <2>3 DEF AllSet
<1> QED
  BY <1>1, <1>2

LEMMA ExtensionAfterIs ==
  ASSUME NEW c \in {"XdgOutput", "Dpms"}, NEW u \in ExtensionStates(c),
         NEW e \in ExtensionEvents(c)
  PROVE  ExtensionAfter(c, u, e) \in ExtensionStates(c)
<1>1. u.current \in AllSet(c) /\ u.pending \in AllSet(c) /\ u.arrived \in SUBSET E!Attributes[c]
  BY DEF ExtensionStates
<1>2. E!Default(c) \in AllSet(c)
  BY DefaultIsSet
<1>3. CASE e.of = "done"
  <2>1. [a \in E!Attributes[c] |->
           IF a \in u.arrived THEN u.pending[a] ELSE u.current[a]] \in AllSet(c)
    BY <1>1 DEF AllSet
  <2>2. CASE c = "XdgOutput"
    BY <1>1, <1>3, <2>2 DEF ExtensionAfter, ExtensionStates
  <2>3. CASE c # "XdgOutput"
    BY <1>1, <1>2, <1>3, <2>1, <2>3 DEF ExtensionAfter, ExtensionStates
  <2> QED
    BY <2>2, <2>3
<1>4. CASE e.of # "done"
  <2>1. e.of \in E!Attributes[c] /\ e.value \in ExtensionValues
    BY <1>4 DEF ExtensionEvents
  <2>2. [u.pending EXCEPT ![e.of] = e.value] \in AllSet(c)
    BY <1>1, <2>1 DEF AllSet
  <2>3. u.arrived \cup {e.of} \in SUBSET E!Attributes[c]
    BY <1>1, <2>1
  <2> QED
    BY <1>1, <1>4, <2>2, <2>3 DEF ExtensionAfter, ExtensionStates
<1> QED
  BY <1>3, <1>4

\* The events of a batch, of all its attributes in some order.
IsBatch(c, u, s, b, named, es) ==
  /\ c \in {"XdgOutput", "Dpms"} /\ "done" \notin E!Attributes[c]
  /\ u \in ExtensionStates(c) /\ s \in AllSet(c) /\ b \in SUBSET E!Attributes[c]
  /\ named \in Seq(b) /\ \A a \in b : \E i \in 1 .. Len(named) : named[i] = a
  /\ es \in Seq(ExtensionEvents(c)) /\ DOMAIN es = DOMAIN named
  /\ \A i \in DOMAIN named : es[i].of = named[i] /\ es[i].value = s[named[i]]

\* What they lead to.
BatchEnds(c, u, s, b, es) ==
  \E v \in ExtensionStates(c) :
    /\ Leads(ExtensionStates(c), ExtensionMoves(c), u, es, v)
    /\ v.current = u.current
    /\ \A a \in b : ~Dropped(c, s[a]) =>
         v.pending[a] = s[a] /\ (c = "Dpms" => a \in v.arrived)
    /\ \A a \in v.arrived : a \in u.arrived \/ (a \in b /\ ~Dropped(c, s[a]))

LEMMA ExtensionBatch ==
  ASSUME NEW c, NEW u, NEW s, NEW b, NEW named, NEW es,
         IsBatch(c, u, s, b, named, es)
  PROVE  BatchEnds(c, u, s, b, es)
<1>0. /\ c \in {"XdgOutput", "Dpms"} /\ "done" \notin E!Attributes[c]
      /\ u \in ExtensionStates(c) /\ s \in AllSet(c) /\ b \in SUBSET E!Attributes[c]
      /\ named \in Seq(b) /\ \A a \in b : \E i \in 1 .. Len(named) : named[i] = a
      /\ es \in Seq(ExtensionEvents(c)) /\ DOMAIN es = DOMAIN named
      /\ \A i \in DOMAIN named : es[i].of = named[i] /\ es[i].value = s[named[i]]
  BY DEF IsBatch
<1> DEFINE n == Len(named)
           attributes == E!Attributes[c]
           by(k) == {a \in attributes :
                       \E i \in 1 .. k : named[i] = a /\ ~Dropped(c, s[a])}
           f(k) == [current |-> u.current,
                    pending |-> [a \in attributes |-> IF a \in by(k) THEN s[a]
                                                      ELSE u.pending[a]],
                    arrived |-> IF c = "Dpms" THEN u.arrived \cup by(k) ELSE u.arrived]
           h == [k \in 0 .. n |-> f(k)]
<1>1. n \in Nat /\ DOMAIN named = 1 .. n /\ \A i \in 1 .. n : named[i] \in b /\ named[i] \in attributes
  BY <1>0
<1>2. u.current \in AllSet(c) /\ u.pending \in AllSet(c) /\ u.arrived \in SUBSET attributes
        /\ u = [current |-> u.current, pending |-> u.pending, arrived |-> u.arrived]
  BY <1>0 DEF ExtensionStates
<1>3. \A i \in 1 .. n : /\ es[i] \in ExtensionEvents(c)
                        /\ es[i].of = named[i] /\ es[i].value = s[named[i]]
                        /\ es[i].of # "done"
  BY <1>0, <1>1
<1>4. Len(es) = n
  BY <1>0, <1>1
<1> HIDE DEF n
<1>5. \A k : by(k) \in SUBSET attributes
  OBVIOUS
<1>6. \A k \in 1 .. n :
        by(k) = IF Dropped(c, s[named[k]]) THEN by(k - 1) ELSE by(k - 1) \cup {named[k]}
  <2> TAKE k \in 1 .. n
  <2>1. \A i : i \in 1 .. k <=> i \in 1 .. k - 1 \/ i = k
    BY <1>1
  <2> QED
    BY <1>1, <2>1
<1>7. by(0) = {}
  OBVIOUS
<1> HIDE DEF by
<1>8. \A k : f(k) \in ExtensionStates(c)
  <2> TAKE k
  <2>1. [a \in attributes |-> IF a \in by(k) THEN s[a] ELSE u.pending[a]] \in AllSet(c)
    BY <1>0, <1>2 DEF AllSet
  <2> QED
    BY <1>2, <1>5, <2>1 DEF ExtensionStates
<1>9. f(0) = u
  <2>1. [a \in attributes |-> IF a \in by(0) THEN s[a] ELSE u.pending[a]] = u.pending
    BY <1>2, <1>7 DEF AllSet
  <2> QED
    BY <1>2, <1>7, <2>1
<1>10. \A k \in 1 .. n : f(k) = ExtensionAfter(c, f(k - 1), es[k])
  <2> TAKE k \in 1 .. n
  <2> DEFINE before == [a \in attributes |-> IF a \in by(k - 1) THEN s[a] ELSE u.pending[a]]
             after == [a \in attributes |-> IF a \in by(k) THEN s[a] ELSE u.pending[a]]
  <2>1. CASE Dropped(c, s[named[k]])
    <3>1. by(k) = by(k - 1)
      BY <1>6, <2>1
    <3>2. f(k) = f(k - 1)
      BY <3>1
    <3>3. ExtensionAfter(c, f(k - 1), es[k]) = f(k - 1)
      BY <1>3, <2>1 DEF ExtensionAfter
    <3> QED
      BY <3>2, <3>3
  <2>2. CASE ~Dropped(c, s[named[k]])
    <3>1. by(k) = by(k - 1) \cup {named[k]}
      BY <1>6, <2>2
    <3>2. after = [before EXCEPT ![named[k]] = s[named[k]]]
      BY <1>1, <3>1
    <3>3. u.arrived \cup by(k) = (u.arrived \cup by(k - 1)) \cup {named[k]}
      BY <3>1
    <3>4. es[k].of # "done" /\ es[k].of = named[k] /\ es[k].value = s[named[k]]
      BY <1>3
    <3> DEFINE x == f(k - 1)
    <3>5. x.current = u.current /\ x.pending = before
            /\ x.arrived = IF c = "Dpms" THEN u.arrived \cup by(k - 1) ELSE u.arrived
      OBVIOUS
    <3>6. f(k) = [current |-> u.current, pending |-> after,
                  arrived |-> IF c = "Dpms" THEN u.arrived \cup by(k) ELSE u.arrived]
      OBVIOUS
    <3> HIDE DEF before, after, x, f
    <3>7. ExtensionAfter(c, x, es[k])
            = [current |-> x.current, pending |-> [x.pending EXCEPT ![named[k]] = s[named[k]]],
               arrived |-> IF c = "Dpms" THEN x.arrived \cup {named[k]} ELSE x.arrived]
      BY <2>2, <3>4 DEF ExtensionAfter
    <3> QED
      BY <3>2, <3>3, <3>5, <3>6, <3>7 DEF x
  <2> QED
    BY <2>1, <2>2
<1>11. h \in [0 .. n -> ExtensionStates(c)] /\ \A k \in 0 .. n : h[k] = f(k)
  BY <1>8
<1> HIDE DEF h
<1>12. f(n).current = u.current /\ \A a \in attributes : a \in by(n) => f(n).pending[a] = s[a]
  OBVIOUS
<1>13. f(n).arrived = IF c = "Dpms" THEN u.arrived \cup by(n) ELSE u.arrived
  OBVIOUS
<1> HIDE DEF f
<1>14. Leads(ExtensionStates(c), ExtensionMoves(c), u, es, f(n))
  <2>1. \A k \in 1 .. n : <<h[k - 1], es[k], h[k]>> \in ExtensionMoves(c)
    <3> TAKE k \in 1 .. n
    <3>1. k \in 0 .. n /\ k - 1 \in 0 .. n
      BY <1>1
    <3>2. h[k] = f(k) /\ h[k - 1] = f(k - 1)
      BY <1>11, <3>1
    <3>3. /\ f(k - 1) \in ExtensionStates(c) /\ f(k) \in ExtensionStates(c)
          /\ es[k] \in ExtensionEvents(c) /\ f(k) = ExtensionAfter(c, f(k - 1), es[k])
      BY <1>3, <1>8, <1>10
    <3> QED
      BY <3>2, <3>3, ExtensionMove
  <2>2. h[0] = u /\ h[n] = f(n)
    BY <1>1, <1>9, <1>11
  <2> QED
    BY <1>4, <1>11, <2>1, <2>2 DEF Leads
<1>15. by(n) = {a \in b : ~Dropped(c, s[a])}
  BY <1>0, <1>1 DEF by, n
<1> HIDE DEF attributes
<1>16. \A a \in b : ~Dropped(c, s[a]) =>
         f(n).pending[a] = s[a] /\ (c = "Dpms" => a \in f(n).arrived)
  BY <1>0, <1>12, <1>13, <1>15 DEF attributes
<1>17. \A a \in f(n).arrived : a \in u.arrived \/ (a \in b /\ ~Dropped(c, s[a]))
  BY <1>13, <1>15
<1> QED
  BY <1>4, <1>8, <1>12, <1>14, <1>16, <1>17 DEF BatchEnds

LEMMA ExtensionListing ==
  ASSUME NEW set, IsFiniteSet(set)
  PROVE  /\ E!Listing(set) \in Seq(set)
         /\ \A a \in set : \E i \in 1 .. Len(E!Listing(set)) : E!Listing(set)[i] = a
<1> DEFINE n == Cardinality(set)
           s == E!Listing(set)
<1>1. E!Cardinality(set) = n
  BY DEF E!Cardinality, Cardinality
<1>2. \A f \in [1 .. n -> set] :
        E!IsInjective(f) <=> \A i, j \in 1 .. n : f[i] = f[j] => i = j
  BY DEF E!IsInjective
<1> HIDE DEF n
<1>3. \E f \in [1 .. E!Cardinality(set) -> set] : E!IsInjective(f)
  BY <1>1, <1>2, InARow DEF n
<1>4. s \in [1 .. E!Cardinality(set) -> set] /\ E!IsInjective(s)
  BY <1>3 DEF E!Listing
<1> HIDE DEF s
<1>5. s \in [1 .. n -> set] /\ \A i, j \in 1 .. n : s[i] = s[j] => i = j
  BY <1>1, <1>2, <1>4
<1> QED
  BY <1>5, InARow DEF n, s

LEMMA AttributesAre ==
  ASSUME NEW c \in {"XdgOutput", "Dpms"}
  PROVE  "done" \notin E!Attributes[c] /\ IsFiniteSet(E!Attributes[c])
<1>1. IsFiniteSet({"logicalPosition"}) /\ IsFiniteSet({"supported"})
  BY FS_Singleton
<1>2. \A set, a : IsFiniteSet(set) => IsFiniteSet(set \cup {a})
  BY FS_AddElement
<1>3. /\ IsFiniteSet((({"logicalPosition"} \cup {"logicalSize"}) \cup {"name"})
                     \cup {"description"})
      /\ IsFiniteSet({"supported"} \cup {"mode"})
  BY <1>1, <1>2
<1>4. E!Attributes[c] = IF c = "XdgOutput"
        THEN {"logicalPosition", "logicalSize", "name", "description"}
        ELSE {"supported", "mode"}
  BY DEF E!Attributes, E!Geometry, E!Names
<1>5. /\ {"logicalPosition", "logicalSize", "name", "description"}
           = (({"logicalPosition"} \cup {"logicalSize"}) \cup {"name"}) \cup {"description"}
      /\ {"supported", "mode"} = {"supported"} \cup {"mode"}
  OBVIOUS
<1>6. IsFiniteSet(E!Attributes[c])
  BY <1>3, <1>4, <1>5
<1> QED
  BY <1>4, <1>6

LEMMA ExtensionInit == E!Init => ExtensionInv
<1> SUFFICES ASSUME E!Init PROVE ExtensionInv
  OBVIOUS
<1>1. class \in {"XdgOutput", "Dpms"}
  BY DEF E!Init, E!Attributes
<1>2. E!Default(class) \in AllSet(class)
  BY <1>1, DefaultIsSet
<1>3. Shown \in ExtensionStates(class) /\ Shown.arrived = {}
  BY <1>2 DEF E!Init, Shown, ExtensionStates
<1>4. Leads(ExtensionStates(class), ExtensionMoves(class), Shown, extensionEvents, Shown)
  <2>1. extensionEvents = <<>>
    BY DEF E!Init
  <2>2. \A moves : Leads(ExtensionStates(class), moves, Shown, <<>>, Shown)
    <3> HIDE DEF Shown
    <3> QED
      BY <1>3, LeadsNowhere
  <2> QED
    BY <2>1, <2>2
<1>5. Settled(Shown)
  BY <1>3 DEF E!Init, Settled
<1> QED
  BY <1>1, <1>2, <1>3, <1>4, <1>5 DEF E!Init, ExtensionInv

\* A batch is sent.
LEMMA ExtensionSent == ASSUME ExtensionInv, E!Change PROVE ExtensionInv'
<1> DEFINE c == class
           attributes == E!Attributes[c]
           states == ExtensionStates(c)
           moves == ExtensionMoves(c)
<1>0. PICK s \in E!Settings(c) :
        /\ extensionServer' = s
        /\ \E b \in E!Batches({a \in attributes : s[a] # extensionServer[a]}) :
             /\ extensionBatches' = Append(extensionBatches, b)
             /\ LET named == E!Listing(b)
                IN  extensionEvents' = extensionEvents
                        \o [i \in DOMAIN named |-> [of |-> named[i], value |-> s[named[i]]]]
                        \o <<[of |-> "done"]>>
  BY DEF E!Change
<1>1. PICK b \in E!Batches({a \in attributes : s[a] # extensionServer[a]}) :
        /\ extensionServer' = s
        /\ extensionBatches' = Append(extensionBatches, b)
        /\ LET named == E!Listing(b)
           IN  extensionEvents' = extensionEvents
                   \o [i \in DOMAIN named |-> [of |-> named[i], value |-> s[named[i]]]]
                   \o <<[of |-> "done"]>>
  BY <1>0
<1>2. UNCHANGED <<class, current, pending, arrived>>
  BY DEF E!Change
<1>3. /\ c \in {"XdgOutput", "Dpms"} /\ extensionServer \in AllSet(c)
      /\ extensionBatches \in Seq(SUBSET attributes)
      /\ extensionEvents \in Seq(ExtensionEvents(c)) /\ Shown \in states
  BY DEF ExtensionInv
<1>4. PICK u \in states : Leads(states, moves, Shown, extensionEvents, u) /\ Settled(u)
  BY DEF ExtensionInv
<1>5. s \in AllSet(c)
  <2>1. \A a \in attributes : E!ValuesOf(c, a) \subseteq ExtensionValues
    BY <1>3 DEF E!ValuesOf, ExtensionValues, E!Attributes
  <2> QED
    BY <2>1 DEF E!Settings, AllSet
<1>6. /\ b \in SUBSET attributes
      /\ extensionBatches = <<>> => b = attributes
      /\ extensionBatches # <<>> => \A a \in attributes : s[a] # extensionServer[a] => a \in b
  BY DEF E!Batches
<1> DEFINE named == E!Listing(b)
           es == [i \in DOMAIN named |-> [of |-> named[i], value |-> s[named[i]]]]
           done == [of |-> "done"]
<1>7. named \in Seq(b) /\ \A a \in b : \E i \in 1 .. Len(named) : named[i] = a
  <2>1. IsFiniteSet(b)
    BY <1>3, <1>6, AttributesAre, FS_Subset
  <2> QED
    BY <2>1, ExtensionListing
<1>8. extensionEvents' = (extensionEvents \o es) \o <<done>>
  BY <1>1
<1> HIDE DEF named, c
<1>9. /\ es \in Seq(ExtensionEvents(c))
      /\ \E v \in states :
           /\ Leads(states, moves, u, es, v)
           /\ v.current = u.current
           /\ \A a \in b : ~Dropped(c, s[a]) =>
                v.pending[a] = s[a] /\ (c = "Dpms" => a \in v.arrived)
           /\ \A a \in v.arrived : a \in u.arrived \/ (a \in b /\ ~Dropped(c, s[a]))
  <2>1. /\ u \in ExtensionStates(c) /\ s \in AllSet(c) /\ b \in SUBSET E!Attributes[c]
        /\ "done" \notin E!Attributes[c] /\ c \in {"XdgOutput", "Dpms"}
    BY <1>3, <1>5, <1>6, AttributesAre
  <2>2. /\ DOMAIN es = DOMAIN named
        /\ \A i \in DOMAIN named : es[i] = [of |-> named[i], value |-> s[named[i]]]
    OBVIOUS
  <2>3. es = [i \in 1 .. Len(named) |-> es[i]] /\ Len(named) \in Nat
          /\ DOMAIN named = 1 .. Len(named)
    BY <1>7
  <2> HIDE DEF es
  <2>4. \A i \in DOMAIN named : es[i] \in ExtensionEvents(c)
    <3>1. \A i \in DOMAIN named : named[i] \in E!Attributes[c]
      BY <1>7, <2>1
    <3>2. \A i \in DOMAIN named : s[named[i]] \in ExtensionValues
      BY <2>1, <3>1 DEF AllSet
    <3> QED
      BY <2>2, <3>1, <3>2 DEF ExtensionEvents
  <2>5. es \in Seq(ExtensionEvents(c))
    BY <2>3, <2>4
  <2>6. \A i \in DOMAIN named : es[i].of = named[i] /\ es[i].value = s[named[i]]
    BY <2>2
  <2>7. \E v \in ExtensionStates(c) :
           /\ Leads(ExtensionStates(c), ExtensionMoves(c), u, es, v)
           /\ v.current = u.current
           /\ \A a \in b : ~Dropped(c, s[a]) =>
                v.pending[a] = s[a] /\ (c = "Dpms" => a \in v.arrived)
           /\ \A a \in v.arrived : a \in u.arrived \/ (a \in b /\ ~Dropped(c, s[a]))
    <3>1. named \in Seq(b) /\ \A a \in b : \E i \in 1 .. Len(named) : named[i] = a
      BY <1>7
    <3>2. c \in {"XdgOutput", "Dpms"} /\ b \in SUBSET E!Attributes[c]
      BY <2>1
    <3>3. u \in ExtensionStates(c) /\ s \in AllSet(c) /\ "done" \notin E!Attributes[c]
      BY <2>1
    <3>4. es \in Seq(ExtensionEvents(c)) /\ DOMAIN es = DOMAIN named
      BY <2>2, <2>5
    <3>5. IsBatch(c, u, s, b, named, es)
      BY <2>6, <3>1, <3>2, <3>3, <3>4 DEF IsBatch
    <3>6. BatchEnds(c, u, s, b, es)
      BY <3>5, ExtensionBatch
    <3> QED
      BY <3>6 DEF BatchEnds
  <2> QED
    BY <2>5, <2>7
<1>10. PICK v \in states :
         /\ Leads(states, moves, u, es, v)
         /\ v.current = u.current
         /\ \A a \in b : ~Dropped(c, s[a]) =>
              v.pending[a] = s[a] /\ (c = "Dpms" => a \in v.arrived)
         /\ \A a \in v.arrived : a \in u.arrived \/ (a \in b /\ ~Dropped(c, s[a]))
  BY <1>9
<1>11. done \in ExtensionEvents(c) /\ done.of = "done"
  BY DEF ExtensionEvents
<1>12. PICK w \in states : w = ExtensionAfter(c, v, done)
  BY <1>3, <1>11, ExtensionAfterIs
<1>13. <<v, done, w>> \in moves
  BY <1>11, <1>12, ExtensionMove
<1> HIDE DEF es
<1>14. /\ extensionEvents \o es \in Seq(ExtensionEvents(c))
       /\ extensionEvents' = Append(extensionEvents \o es, done)
       /\ extensionEvents' \in Seq(ExtensionEvents(c))
  <2>1. extensionEvents \o es \in Seq(ExtensionEvents(c))
    BY <1>3, <1>9
  <2>2. <<done>> \in Seq(ExtensionEvents(c)) /\ DOMAIN <<done>> = {1} /\ <<done>>[1] = done
    BY <1>11
  <2> HIDE DEF done
  <2>3. \A list \in Seq(ExtensionEvents(c)) : list \o <<done>> = Append(list, done)
    BY <2>2, ConcatOne
  <2> QED
    BY <1>8, <1>11, <2>1, <2>3 DEF done
<1> HIDE DEF done, states, moves
<1>15. Leads(states, moves, Shown, extensionEvents', w)
  <2>1. Leads(states, moves, Shown, extensionEvents \o es, v)
    BY <1>3, <1>4, <1>9, <1>10, LeadsThrough
  <2>2. Leads(states, moves, Shown, Append(extensionEvents \o es, done), w)
    BY <1>11, <1>12, <1>13, <1>14, <2>1, LeadsOn
  <2> QED
    BY <1>14, <2>2
<1>16. extensionBatches' # <<>> /\ extensionBatches'[Len(extensionBatches')] = b
         /\ extensionBatches' \in Seq(SUBSET attributes)
  <2>1. extensionBatches \in Seq(SUBSET attributes) /\ b \in SUBSET attributes
          /\ extensionBatches' = Append(extensionBatches, b)
    BY <1>1, <1>3, <1>6
  <2> HIDE DEF attributes
  <2> QED
    BY <2>1
<1>17. Settled(w)'
  <2>1. CASE c = "XdgOutput"
    <3>1. w.current = v.pending
      BY <1>11, <1>12, <2>1 DEF ExtensionAfter
    <3>2. \A a \in b : s[a] = v.pending[a]
      BY <1>10, <2>1 DEF Dropped
    <3> QED
      BY <1>1, <1>2, <1>16, <2>1, <3>1, <3>2 DEF Settled, c
  <2>2. CASE c = "Dpms"
    <3>1. /\ w.arrived = {}
          /\ w.current = [a \in attributes |-> IF a \in v.arrived THEN v.pending[a]
                                               ELSE v.current[a]]
      BY <1>11, <1>12, <2>2 DEF ExtensionAfter
    <3>2. ASSUME NEW a \in attributes, s[a] # E!Future PROVE w.current[a] = s[a]
      <4>1. CASE a \in b
        BY <1>10, <2>2, <3>1, <3>2, <4>1 DEF Dropped
      <4>2. CASE a \notin b
        <5>1. a \notin v.arrived /\ u.arrived = {}
          BY <1>4, <1>10, <2>2, <4>2 DEF Settled, c
        <5>2. extensionBatches # <<>> /\ s[a] = extensionServer[a]
          BY <1>6, <4>2
        <5>3. u.current[a] = extensionServer[a]
          BY <1>4, <2>2, <3>2, <5>2 DEF Settled, c
        <5> QED
          BY <1>10, <3>1, <5>1, <5>2, <5>3
      <4> QED
        BY <4>1, <4>2
    <3> QED
      BY <1>1, <1>2, <2>2, <3>1, <3>2 DEF Settled, c
  <2> QED
    BY <1>3, <2>1, <2>2
<1>18. Shown' = Shown
  BY <1>2 DEF Shown
<1> QED
  BY <1>1, <1>2, <1>3, <1>5, <1>12, <1>14, <1>15, <1>16, <1>17, <1>18
     DEF ExtensionInv, c, states, moves

\* An event of a batch is taken.
LEMMA ExtensionTaken ==
  ASSUME ExtensionInv, E!attributeCallback \/ E!doneCallback \/ E!dpmsCallback
                       \/ E!dpmsDoneCallback
  PROVE  ExtensionInv'
<1> DEFINE c == class
           states == ExtensionStates(c)
           moves == ExtensionMoves(c)
           e == Head(extensionEvents)
<1>1. /\ c \in {"XdgOutput", "Dpms"} /\ extensionServer \in AllSet(c)
      /\ extensionBatches \in Seq(SUBSET E!Attributes[c])
      /\ extensionEvents \in Seq(ExtensionEvents(c)) /\ Shown \in states
  BY DEF ExtensionInv
<1>2. PICK u \in states : Leads(states, moves, Shown, extensionEvents, u) /\ Settled(u)
  BY DEF ExtensionInv
<1>3. /\ extensionEvents # <<>> /\ extensionEvents' = Tail(extensionEvents)
      /\ UNCHANGED <<class, extensionServer, extensionBatches>>
  BY DEF E!attributeCallback, E!doneCallback, E!dpmsCallback, E!dpmsDoneCallback, E!Takes
<1>4. Shown' = ExtensionAfter(c, Shown, e)
  <2> USE DEF ExtensionAfter, Shown, Dropped
  <2>1. CASE E!attributeCallback
    BY <1>1, <2>1 DEF E!attributeCallback
  <2>2. CASE E!doneCallback
    BY <2>2 DEF E!doneCallback
  <2>3. CASE E!dpmsCallback
    BY <2>3 DEF E!dpmsCallback
  <2>4. CASE E!dpmsDoneCallback
    BY <2>4 DEF E!dpmsDoneCallback
  <2> QED
    BY <2>1, <2>2, <2>3, <2>4
<1> HIDE DEF states, moves, c
<1>5. PICK v \in states :
        /\ <<Shown, e, v>> \in moves
        /\ Leads(states, moves, v, Tail(extensionEvents), u)
  BY <1>1, <1>2, <1>3, LeadsFrom
<1>6. v = Shown'
  BY <1>4, <1>5, ExtensionMove DEF moves
<1>7. Tail(extensionEvents) \in Seq(ExtensionEvents(c))
  BY <1>1, <1>3
<1>8. Settled(u)'
  BY <1>2, <1>3 DEF Settled
<1> QED
  BY <1>1, <1>2, <1>3, <1>5, <1>6, <1>7, <1>8 DEF ExtensionInv, c, states, moves

LEMMA ExtensionFits == ExtensionInv => E!BatchesAreFollowed
<1> SUFFICES ASSUME ExtensionInv, extensionEvents = <<>>, extensionBatches # <<>>
             PROVE  E!BatchesAreFollowed
  BY DEF E!BatchesAreFollowed
<1>1. PICK u \in ExtensionStates(class) :
        /\ Leads(ExtensionStates(class), ExtensionMoves(class), Shown, <<>>, u)
        /\ Settled(u)
  BY DEF ExtensionInv
<1>2. u = Shown
  <2>1. Shown \in ExtensionStates(class)
    BY DEF ExtensionInv
  <2> HIDE DEF Shown
  <2> QED
    BY <1>1, <2>1, LeadsNowhere
<1> QED
  BY <1>1, <1>2 DEF Settled, Shown, E!BatchesAreFollowed

LEMMA ExtensionQuiet == ASSUME ExtensionInv, UNCHANGED extensionVars PROVE ExtensionInv'
<1>1. UNCHANGED <<class, extensionServer, extensionBatches, extensionEvents, Shown>>
  BY DEF extensionVars, Shown
<1> QED
  BY <1>1 DEF ExtensionInv, Settled

LEMMA ExtensionStep == ASSUME ExtensionInv, E!Next PROVE ExtensionInv'
BY ExtensionSent, ExtensionTaken DEF E!Next

-----------------------------------------------------------------------------
(* What an input method composes and commits.                              *)

PreEdits == [text : Int, cursor : Int, cursorSet : BOOLEAN]
Commits ==
  [text : Int, cursor : Int, anchor : Int, beforeLength : Int, afterLength : Int]
TextStates == [preEdit : PreEdits, commit : Commits]

TextEvents ==
  [kind : {"preeditCursor"}, index : Int]
    \cup [kind : {"preeditString"}, text : Int, meant : PreEdits]
    \cup [kind : {"cursorPosition"}, index : Int, anchor : Int]
    \cup [kind : {"deleteSurroundingText"}, index : Int, length : Int]
    \cup [kind : {"commitString"}, text : Int, meant : Commits]

\* What the strings of an event are with what waits for them.
Composition(u, e) ==
  [u.preEdit EXCEPT !.text = e.text, !.cursor = IF u.preEdit.cursorSet THEN @ ELSE e.text]
Commitment(u, e) == [u.commit EXCEPT !.text = e.text]

Before(e) == IF e.index < 0 THEN -e.index ELSE e.index
After(v, e) == IF v = "V0" THEN (e.length - Before(e)) % Modulus ELSE e.length

\* What waits for the next strings after an event.
TextAfter(v, u, e) ==
  IF e.kind = "preeditCursor"
  THEN [preEdit |-> [u.preEdit EXCEPT !.cursor = e.index, !.cursorSet = TRUE],
        commit |-> u.commit]
  ELSE IF e.kind = "preeditString" THEN [preEdit |-> N!NoPreEdit, commit |-> u.commit]
  ELSE IF e.kind = "cursorPosition"
  THEN [preEdit |-> u.preEdit,
        commit |-> [u.commit EXCEPT !.cursor = e.index, !.anchor = e.anchor]]
  ELSE IF e.kind = "deleteSurroundingText"
  THEN [preEdit |-> u.preEdit,
        commit |-> [u.commit EXCEPT !.beforeLength = Before(e), !.afterLength = After(v, e)]]
  ELSE [preEdit |-> u.preEdit, commit |-> N!NoCommit]

\* An event means what the input method has said up to it.
MeansIt(u, e) ==
  /\ e.kind = "preeditString" => e.meant = Composition(u, e)
  /\ e.kind = "commitString" => e.meant = Commitment(u, e)

TextMoves(v) ==
  {move \in TextStates \X TextEvents \X TextStates :
     move[3] = TextAfter(v, move[1], move[2]) /\ MeansIt(move[1], move[2])}

Waiting == [preEdit |-> pendingPreEdit, commit |-> pendingCommit]

TextInv ==
  /\ textVersion \in {"V0", "V2"}
  /\ textEvents \in Seq(TextEvents)
  /\ Waiting \in TextStates
  /\ said \in TextStates
  /\ Leads(TextStates, TextMoves(textVersion), Waiting, textEvents, said)
  /\ N!BatchesAreFollowed

LEMMA TextMove ==
  ASSUME NEW v, NEW u, NEW e, NEW w
  PROVE  <<u, e, w>> \in TextMoves(v) <=>
           /\ u \in TextStates /\ e \in TextEvents /\ w \in TextStates
           /\ w = TextAfter(v, u, e) /\ MeansIt(u, e)
<1> DEFINE move == <<u, e, w>>
<1>1. move[1] = u /\ move[2] = e /\ move[3] = w
  OBVIOUS
<1>2. move \in TextStates \X TextEvents \X TextStates <=>
        u \in TextStates /\ e \in TextEvents /\ w \in TextStates
  OBVIOUS
<1> HIDE DEF move
<1>3. move \in TextMoves(v) <=>
        /\ move \in TextStates \X TextEvents \X TextStates
        /\ move[3] = TextAfter(v, move[1], move[2]) /\ MeansIt(move[1], move[2])
  BY DEF TextMoves
<1> QED
  BY <1>1, <1>2, <1>3 DEF move

LEMMA TextInit == N!Init => TextInv
<1> SUFFICES ASSUME N!Init PROVE TextInv
  OBVIOUS
<1>1. N!NoPreEdit \in PreEdits /\ N!NoCommit \in Commits
  BY DEF N!NoPreEdit, N!NoCommit, PreEdits, Commits
<1>2. Waiting = said /\ said \in TextStates
  BY <1>1 DEF N!Init, N!Start, Waiting, TextStates
<1>3. textEvents = <<>> /\ textVersion \in {"V0", "V2"}
  BY DEF N!Init, N!Versions
<1>4. \A moves : Leads(TextStates, moves, said, <<>>, said)
  BY <1>2, LeadsNowhere
<1>5. N!BatchesAreFollowed
  BY DEF N!Init, N!Start, N!BatchesAreFollowed
<1> QED
  BY <1>2, <1>3, <1>4, <1>5 DEF TextInv

\* The input method says something.
LEMMA TextSent ==
  ASSUME TextInv, NEW e \in TextEvents, N!Send(e), said' \in TextStates,
         said' = TextAfter(textVersion, said, e), MeansIt(said, e)
  PROVE  TextInv'
<1>1. textEvents' = Append(textEvents, e)
        /\ UNCHANGED <<textVersion, pendingPreEdit, currentPreEdit, pendingCommit,
                       currentCommit, meant>>
  BY DEF N!Send
<1> DEFINE u == said
           w == said'
           moves == TextMoves(textVersion)
<1>2. <<u, e, w>> \in moves
  BY TextMove DEF TextInv
<1>3. Leads(TextStates, moves, Waiting, textEvents, u) /\ textEvents \in Seq(TextEvents)
        /\ w \in TextStates
  BY DEF TextInv
<1> HIDE DEF u, w, moves
<1>4. Leads(TextStates, moves, Waiting, Append(textEvents, e), w)
  BY <1>2, <1>3, LeadsOn
<1>5. Waiting' = Waiting
  BY <1>1 DEF Waiting
<1>6. N!BatchesAreFollowed'
  BY <1>1 DEF TextInv, N!BatchesAreFollowed
<1> QED
  BY <1>1, <1>3, <1>4, <1>5, <1>6 DEF TextInv, moves, w

\* What a part of a number is left after the other.
LEMMA PartLeft ==
  ASSUME NEW before \in Lengths, NEW after \in Lengths
  PROVE  (before + after - before) % Modulus = after /\ before \in Nat /\ after \in Nat
BY LengthsAssumption

LEMMA TextSays ==
  ASSUME TextInv, N!SendPreeditCursor \/ N!SendPreeditString \/ N!SendCursorPosition
                  \/ N!SendDeleteSurroundingText \/ N!SendCommitString
  PROVE  TextInv'
<1>1. /\ said \in TextStates /\ said.preEdit \in PreEdits /\ said.commit \in Commits
      /\ said = [preEdit |-> said.preEdit, commit |-> said.commit]
      /\ textVersion \in {"V0", "V2"}
  BY DEF TextInv, TextStates
<1>2. Lengths \subseteq Int /\ N!Positions \subseteq Int
  BY LengthsAssumption DEF N!Positions
<1>3. N!NoPreEdit \in PreEdits /\ N!NoCommit \in Commits
  BY DEF N!NoPreEdit, N!NoCommit, PreEdits, Commits
<1> DEFINE saying(e) == e \in TextEvents /\ said' \in TextStates
                          /\ said' = TextAfter(textVersion, said, e) /\ MeansIt(said, e)
<1>4. CASE N!SendPreeditCursor
  <2>1. PICK cursor \in N!Positions :
          /\ said' = [said EXCEPT !.preEdit.cursor = cursor, !.preEdit.cursorSet = TRUE]
          /\ N!Send([kind |-> "preeditCursor", index |-> cursor])
    BY <1>4 DEF N!SendPreeditCursor
  <2> DEFINE e == [kind |-> "preeditCursor", index |-> cursor]
             p == [said.preEdit EXCEPT !.cursor = cursor, !.cursorSet = TRUE]
  <2>2. said' = [preEdit |-> p, commit |-> said.commit]
    BY <1>1, <2>1
  <2>3. p \in PreEdits
    BY <1>1, <1>2 DEF PreEdits
  <2>4. e \in TextEvents /\ MeansIt(said, e)
    BY <1>2 DEF TextEvents, MeansIt
  <2>5. TextAfter(textVersion, said, e) = [preEdit |-> p, commit |-> said.commit]
    BY DEF TextAfter
  <2>6. said' \in TextStates
    <3> HIDE DEF p
    <3> QED
      BY <1>1, <2>2, <2>3 DEF TextStates
  <2> HIDE DEF e, p
  <2> QED
    BY <2>1, <2>2, <2>4, <2>5, <2>6, TextSent DEF e
<1>5. CASE N!SendPreeditString
  <2>1. PICK text \in Lengths :
          /\ N!Send([kind |-> "preeditString", text |-> text,
                     meant |-> [said.preEdit EXCEPT
                       !.text = text, !.cursor = IF said.preEdit.cursorSet THEN @ ELSE text]])
          /\ said' = [said EXCEPT !.preEdit = N!NoPreEdit]
    BY <1>5 DEF N!SendPreeditString
  <2> DEFINE p == [said.preEdit EXCEPT
                     !.text = text, !.cursor = IF said.preEdit.cursorSet THEN @ ELSE text]
             e == [kind |-> "preeditString", text |-> text, meant |-> p]
  <2>2. said' = [preEdit |-> N!NoPreEdit, commit |-> said.commit]
    BY <1>1, <2>1
  <2>3. p \in PreEdits
    BY <1>1, <1>2 DEF PreEdits
  <2>4. e.kind = "preeditString" /\ e.text = text /\ e.meant = p
    OBVIOUS
  <2>5. MeansIt(said, e)
    BY <2>4 DEF MeansIt, Composition
  <2> HIDE DEF p
  <2>6. e \in TextEvents
    BY <1>2, <2>3 DEF TextEvents
  <2>7. TextAfter(textVersion, said, e) = [preEdit |-> N!NoPreEdit, commit |-> said.commit]
    BY <2>4 DEF TextAfter
  <2>8. said' \in TextStates
    BY <1>1, <1>3, <2>2 DEF TextStates
  <2>9. N!Send(e)
    BY <2>1 DEF p
  <2> HIDE DEF e
  <2> QED
    BY <2>2, <2>5, <2>6, <2>7, <2>8, <2>9, TextSent
<1>6. CASE N!SendCursorPosition
  <2>1. PICK cursor \in N!Positions : \E anchor \in {0, cursor} :
          /\ said' = [said EXCEPT !.commit.cursor = cursor, !.commit.anchor = anchor]
          /\ N!Send([kind |-> "cursorPosition", index |-> cursor, anchor |-> anchor])
    BY <1>6 DEF N!SendCursorPosition
  <2>2. PICK anchor \in {0, cursor} :
          /\ said' = [said EXCEPT !.commit.cursor = cursor, !.commit.anchor = anchor]
          /\ N!Send([kind |-> "cursorPosition", index |-> cursor, anchor |-> anchor])
    BY <2>1
  <2>3. cursor \in Int /\ anchor \in Int
    BY <1>2
  <2> DEFINE e == [kind |-> "cursorPosition", index |-> cursor, anchor |-> anchor]
             p == [said.commit EXCEPT !.cursor = cursor, !.anchor = anchor]
  <2>4. said' = [preEdit |-> said.preEdit, commit |-> p]
    BY <1>1, <2>2
  <2>5. p \in Commits
    BY <1>1, <2>3 DEF Commits
  <2>6. e \in TextEvents /\ MeansIt(said, e)
    BY <2>3 DEF TextEvents, MeansIt
  <2>7. TextAfter(textVersion, said, e) = [preEdit |-> said.preEdit, commit |-> p]
    BY DEF TextAfter
  <2>8. said' \in TextStates
    <3> HIDE DEF p
    <3> QED
      BY <1>1, <2>4, <2>5 DEF TextStates
  <2> HIDE DEF e, p
  <2> QED
    BY <2>2, <2>4, <2>6, <2>7, <2>8, TextSent DEF e
<1>7. CASE N!SendDeleteSurroundingText
  <2>1. PICK before \in Lengths, after \in Lengths :
          /\ said' = [said EXCEPT !.commit.beforeLength = before,
                                  !.commit.afterLength = after]
          /\ N!Send([kind |-> "deleteSurroundingText",
                     index |-> IF textVersion = "V0" THEN -before ELSE before,
                     length |-> IF textVersion = "V0" THEN before + after ELSE after])
    BY <1>7 DEF N!SendDeleteSurroundingText
  <2> DEFINE e == [kind |-> "deleteSurroundingText",
                   index |-> IF textVersion = "V0" THEN -before ELSE before,
                   length |-> IF textVersion = "V0" THEN before + after ELSE after]
             p == [said.commit EXCEPT !.beforeLength = before, !.afterLength = after]
  <2>2. before \in Nat /\ after \in Nat /\ (before + after - before) % Modulus = after
    BY PartLeft
  <2>3. said' = [preEdit |-> said.preEdit, commit |-> p]
    BY <1>1, <2>1
  <2>4. p \in Commits
    <3>1. before \in Int /\ after \in Int
      BY <2>2
    <3> QED
      BY <1>1, <3>1 DEF Commits
  <2>5. /\ e.kind = "deleteSurroundingText"
        /\ e.index = IF textVersion = "V0" THEN -before ELSE before
        /\ e.length = IF textVersion = "V0" THEN before + after ELSE after
    OBVIOUS
  <2>6. e \in TextEvents /\ MeansIt(said, e)
    BY <2>2 DEF TextEvents, MeansIt
  <2>7. N!Send(e)
    BY <2>1
  <2> HIDE DEF e
  <2>8. Before(e) = before
    BY <2>2, <2>5 DEF Before
  <2>9. After(textVersion, e) = after
    BY <1>1, <2>2, <2>5, <2>8 DEF After
  <2>10. TextAfter(textVersion, said, e) = [preEdit |-> said.preEdit, commit |-> p]
    BY <2>5, <2>8, <2>9 DEF TextAfter
  <2> HIDE DEF p
  <2>11. said' \in TextStates
    BY <1>1, <2>3, <2>4 DEF TextStates
  <2> QED
    BY <2>3, <2>6, <2>7, <2>10, <2>11, TextSent
<1>8. CASE N!SendCommitString
  <2>1. PICK text \in Lengths :
          /\ N!Send([kind |-> "commitString", text |-> text,
                     meant |-> [said.commit EXCEPT !.text = text]])
          /\ said' = [said EXCEPT !.commit = N!NoCommit]
    BY <1>8 DEF N!SendCommitString
  <2> DEFINE p == [said.commit EXCEPT !.text = text]
             e == [kind |-> "commitString", text |-> text, meant |-> p]
  <2>2. said' = [preEdit |-> said.preEdit, commit |-> N!NoCommit]
    BY <1>1, <2>1
  <2>3. p \in Commits
    BY <1>1, <1>2 DEF Commits
  <2>4. e.kind = "commitString" /\ e.text = text /\ e.meant = p
    OBVIOUS
  <2>5. MeansIt(said, e)
    BY <2>4 DEF MeansIt, Commitment
  <2> HIDE DEF p
  <2>6. e \in TextEvents
    BY <1>2, <2>3 DEF TextEvents
  <2>7. TextAfter(textVersion, said, e) = [preEdit |-> said.preEdit, commit |-> N!NoCommit]
    BY <2>4 DEF TextAfter
  <2>8. said' \in TextStates
    BY <1>1, <1>3, <2>2 DEF TextStates
  <2>9. N!Send(e)
    BY <2>1 DEF p
  <2> HIDE DEF e
  <2> QED
    BY <2>2, <2>5, <2>6, <2>7, <2>8, <2>9, TextSent
<1> QED
  BY <1>4, <1>5, <1>6, <1>7, <1>8

\* It is heard.
LEMMA TextTaken ==
  ASSUME TextInv, N!preeditCursorCallback \/ N!preeditStringCallback
                  \/ N!cursorPositionCallback \/ N!deleteSurroundingTextCallback
                  \/ N!commitStringCallback
  PROVE  TextInv'
<1> DEFINE e == Head(textEvents)
           u == Waiting
           moves == TextMoves(textVersion)
<1>1. textEvents # <<>> /\ textEvents' = Tail(textEvents) /\ UNCHANGED <<textVersion, said>>
  BY DEF N!preeditCursorCallback, N!preeditStringCallback, N!cursorPositionCallback,
     N!deleteSurroundingTextCallback, N!commitStringCallback, N!Takes
<1>2. textEvents \in Seq(TextEvents) /\ Leads(TextStates, moves, u, textEvents, said)
        /\ u \in TextStates /\ textVersion \in {"V0", "V2"} /\ said \in TextStates
        /\ N!BatchesAreFollowed
  BY DEF TextInv
<1> HIDE DEF moves, u
<1>3. PICK w \in TextStates :
        <<u, e, w>> \in moves /\ Leads(TextStates, moves, w, Tail(textEvents), said)
  BY <1>1, <1>2, LeadsFrom
<1>4. w = TextAfter(textVersion, u, e) /\ MeansIt(u, e)
  BY <1>3, TextMove DEF moves
<1> USE DEF u, Waiting
<1>5. u.preEdit = pendingPreEdit /\ u.commit = pendingCommit
  OBVIOUS
<1>6. w = Waiting' /\ N!BatchesAreFollowed'
  <2> USE DEF TextAfter, N!Takes, N!BatchesAreFollowed
  <2>1. CASE N!preeditCursorCallback
    BY <1>2, <1>4, <2>1 DEF N!preeditCursorCallback
  <2>2. CASE N!preeditStringCallback
    <3>1. /\ e.kind = "preeditString" /\ pendingPreEdit' = N!NoPreEdit
          /\ currentPreEdit' = N!Composed(e.text)
          /\ meant' = [meant EXCEPT !.preEdit = e.meant]
          /\ UNCHANGED <<pendingCommit, currentCommit>>
      BY <2>2 DEF N!preeditStringCallback
    <3>2. e.meant = N!Composed(e.text)
      BY <1>4, <3>1 DEF MeansIt, Composition, N!Composed
    <3>3. w = Waiting'
      BY <1>4, <3>1
    <3> QED
      BY <1>2, <3>1, <3>2, <3>3
  <2>3. CASE N!cursorPositionCallback
    BY <1>2, <1>4, <2>3 DEF N!cursorPositionCallback
  <2>4. CASE N!deleteSurroundingTextCallback
    BY <1>2, <1>4, <2>4 DEF N!deleteSurroundingTextCallback, Before, After
  <2>5. CASE N!commitStringCallback
    <3>1. /\ e.kind = "commitString" /\ pendingCommit' = N!NoCommit
          /\ currentCommit' = [pendingCommit EXCEPT !.text = e.text]
          /\ meant' = [meant EXCEPT !.commit = e.meant]
          /\ UNCHANGED <<pendingPreEdit, currentPreEdit>>
      BY <2>5 DEF N!commitStringCallback
    <3>2. e.meant = [pendingCommit EXCEPT !.text = e.text]
      BY <1>4, <3>1 DEF MeansIt, Commitment
    <3>3. w = Waiting'
      BY <1>4, <3>1
    <3> QED
      BY <1>2, <3>1, <3>2, <3>3
  <2> QED
    BY <2>1, <2>2, <2>3, <2>4, <2>5
<1>7. Tail(textEvents) \in Seq(TextEvents)
  BY <1>1, <1>2
<1> QED
  BY <1>1, <1>2, <1>3, <1>6, <1>7 DEF TextInv, moves

LEMMA TextQuiet ==
  ASSUME TextInv, UNCHANGED <<textVersion, pendingPreEdit, currentPreEdit, pendingCommit,
                              currentCommit, said, textEvents, meant>>
  PROVE  TextInv'
<1>1. UNCHANGED Waiting
  BY DEF Waiting
<1> QED
  BY <1>1 DEF TextInv, N!BatchesAreFollowed

LEMMA TextStep == ASSUME TextInv, N!Next PROVE TextInv'
<1>1. CASE N!setSurroundingText
  BY <1>1, TextQuiet DEF N!setSurroundingText
<1> QED
  BY <1>1, TextSays, TextTaken DEF N!Next

-----------------------------------------------------------------------------
BatchesLooked ==
  /\ component = "OutputExtensions" => ExtensionInv
  /\ component = "TextInput" => TextInv

LEMMA BatchesStart == Init => BatchesLooked
BY ExtensionInit, TextInit DEF Init, BatchesLooked

LEMMA BatchesGoOn == BatchesLooked /\ [Next]_vars => BatchesLooked'
<1> SUFFICES ASSUME BatchesLooked, [Next]_vars PROVE BatchesLooked'
  OBVIOUS
<1>1. ASSUME component' = "OutputExtensions" PROVE ExtensionInv'
  <2>1. component = "OutputExtensions" /\ (E!Next \/ UNCHANGED extensionVars)
    BY <1>1 DEF Next, ViewsNext, vars
  <2>2. ExtensionInv
    BY <2>1 DEF BatchesLooked
  <2> QED
    BY <2>1, <2>2, ExtensionStep, ExtensionQuiet
<1>2. ASSUME component' = "TextInput" PROVE TextInv'
  <2>1. component = "TextInput" /\ (N!Next \/ UNCHANGED textVars)
    BY <1>2 DEF Next, ViewsNext, vars
  <2>2. TextInv
    BY <2>1 DEF BatchesLooked
  <2> QED
    BY <2>1, <2>2, TextStep, TextQuiet DEF textVars
<1> QED
  BY <1>1, <1>2 DEF BatchesLooked

\* What the user sees of an output's extensions and of a text input is what was sent as
\* one batch, nothing of it missing and nothing of another in it: the lengths around the
\* cursor come back whole from the wire's sum, modulo the width of the field.
THEOREM BatchesStayTogether == Spec => []BatchesAreFollowed
<1>1. BatchesLooked => BatchesAreFollowed
  BY ExtensionFits DEF BatchesLooked, BatchesAreFollowed, TextInv
<1> QED
  BY <1>1, BatchesStart, BatchesGoOn, PTL DEF Spec

-----------------------------------------------------------------------------
(* DataDevice and the offers it is given.                                  *)

OfferEvents ==
  [kind : {"dataOffer", "enter", "selection"}, offer : Nat]
  \cup [kind : {"offer"}, offer : Nat, type : Types]
  \cup [kind : {"leave", "drop"}]

\* How many offers were announced, and those of selection and drag.
OfferViews ==
  {v \in [count : Nat, last : Nat, selection : Nat, drag : Nat] :
     /\ v.last <= v.count /\ v.selection <= v.count /\ v.drag <= v.count
     /\ v.last = v.selection \/ v.last = v.drag => v.last = 0
     /\ v.selection = v.drag => v.selection = 0}

\* What an event does to them, and when it may come.
View(count, last, selection, drag) ==
  [count |-> count, last |-> last, selection |-> selection, drag |-> drag]

OfferAfter(u, e) ==
  CASE e.kind = "dataOffer" -> View(e.offer, e.offer, u.selection, u.drag)
    [] e.kind = "enter" -> View(u.count, 0, u.selection, e.offer)
    [] e.kind = "selection" -> View(u.count, IF e.offer = 0 THEN u.last ELSE 0, e.offer, u.drag)
    [] e.kind = "leave" -> View(u.count, u.last, u.selection, 0)
    [] OTHER -> u

MayCome(u, e) ==
  /\ e.kind = "dataOffer" => u.last = 0 /\ e.offer = u.count + 1
  /\ e.kind \in {"offer", "enter"} => u.last = e.offer
  /\ e.kind = "selection" => u.last = e.offer \/ e.offer = 0

OfferMoves ==
  {move \in OfferViews \X OfferEvents \X OfferViews :
     MayCome(move[1], move[2]) /\ move[3] = OfferAfter(move[1], move[2])}

Offered == [count |-> Len(dataServer.types), last |-> 0,
            selection |-> dataServer.selection, drag |-> dataServer.dragOffer]

Unless(o, gone) == IF o \in gone THEN 0 ELSE o

\* What the device has of what it was given: all but what the user has taken.
Given(u) ==
  /\ lastOffer = u.last
  /\ selectionOffer = Unless(u.selection, taken)
  /\ dragOffer = Unless(u.drag, taken)
  /\ users \subseteq taken /\ taken \subseteq (1 .. u.count) \ {u.last}
  /\ DOMAIN mimeTypes = ({lastOffer, selectionOffer, dragOffer} \cup users) \ {0}

IsComing(o, t) ==
  \E i \in DOMAIN dataEvents :
    dataEvents[i].kind = "offer" /\ dataEvents[i].offer = o /\ dataEvents[i].type = t

\* A type of an offer has arrived or is on its way.
TypesArrive(u) ==
  /\ u.count <= Len(dataServer.types)
  /\ \A o \in DOMAIN mimeTypes :
       /\ mimeTypes[o] \subseteq dataServer.types[o] \cap KnownTypes
       /\ \A t \in dataServer.types[o] \cap KnownTypes : t \in mimeTypes[o] \/ IsComing(o, t)
  /\ dataDevice # "ended" =>
       \A o \in DOMAIN dataServer.types :
         o > u.count => \A t \in dataServer.types[o] : IsComing(o, t)
  /\ \A i \in DOMAIN dataEvents : dataEvents[i].kind = "offer" =>
       /\ dataEvents[i].offer \in DOMAIN dataServer.types
       /\ dataEvents[i].type \in dataServer.types[dataEvents[i].offer]
       /\ dataEvents[i].offer = u.last \/ dataEvents[i].offer > u.count

Closing == {"enter", "selection"}
Naming == Closing \cup {"dataOffer"}

\* The types come before what the offer is for, and no event names an offer to come.
TypesFirst ==
  /\ \A i, j \in DOMAIN dataEvents :
       /\ j < i /\ dataEvents[i].kind = "offer" /\ dataEvents[j].kind \in Closing
       => dataEvents[j].offer # dataEvents[i].offer
  /\ \A j \in DOMAIN dataEvents :
       dataEvents[j].kind \in Naming => dataEvents[j].offer <= Len(dataServer.types)

OffersInv ==
  /\ dataServer \in [types : Seq(SUBSET Types), selection : Nat, dragOffer : Nat, drag : D!Drags]
  /\ dataEvents \in Seq(OfferEvents)
  /\ dataDevice \in {"unset", "valid", "ended"}
  /\ dataDevice = "unset" => dataEvents = <<>>
  /\ TypesFirst
  /\ \E u \in OfferViews :
       /\ IF dataDevice = "ended"
          THEN \A i \in DOMAIN dataEvents : dataEvents[i].kind = "offer"
          ELSE Leads(OfferViews, OfferMoves, u, dataEvents, Offered)
       /\ Given(u) /\ TypesArrive(u)

LEMMA OfferMove ==
  ASSUME NEW u, NEW e, NEW v
  PROVE  <<u, e, v>> \in OfferMoves <=>
           /\ u \in OfferViews /\ e \in OfferEvents /\ v \in OfferViews
           /\ MayCome(u, e) /\ v = OfferAfter(u, e)
<1> DEFINE move == <<u, e, v>>
<1>1. move[1] = u /\ move[2] = e /\ move[3] = v
  OBVIOUS
<1>2. move \in OfferViews \X OfferEvents \X OfferViews <=>
        u \in OfferViews /\ e \in OfferEvents /\ v \in OfferViews
  OBVIOUS
<1> HIDE DEF move
<1>3. move \in OfferMoves <=>
        /\ move \in OfferViews \X OfferEvents \X OfferViews
        /\ MayCome(move[1], move[2]) /\ move[3] = OfferAfter(move[1], move[2])
  BY DEF OfferMoves
<1> QED
  BY <1>1, <1>2, <1>3 DEF move

LEMMA OfferAfterIs ==
  ASSUME NEW u \in OfferViews, NEW e \in OfferEvents, MayCome(u, e)
  PROVE  /\ OfferAfter(u, e) \in OfferViews
         /\ e.kind \in {"dataOffer", "enter", "selection", "offer", "leave", "drop"}
         /\ e.kind \in {"dataOffer", "enter", "selection", "offer"} => e.offer \in Nat
<1>1. /\ e.kind \in {"dataOffer", "enter", "selection", "offer", "leave", "drop"}
      /\ e.kind \in {"dataOffer", "enter", "selection", "offer"} => e.offer \in Nat
  BY DEF OfferEvents
<1>2. /\ u \in [count : Nat, last : Nat, selection : Nat, drag : Nat]
      /\ u.last <= u.count /\ u.selection <= u.count /\ u.drag <= u.count
      /\ u.last = u.selection \/ u.last = u.drag => u.last = 0
      /\ u.selection = u.drag => u.selection = 0
  BY DEF OfferViews
<1>3. \A c, l, x, d \in Nat :
        /\ l <= c /\ x <= c /\ d <= c
        /\ l = x \/ l = d => l = 0
        /\ x = d => x = 0
        => View(c, l, x, d) \in OfferViews
  BY DEF View, OfferViews
<1>4. CASE e.kind = "dataOffer"
  BY <1>1, <1>2, <1>3, <1>4 DEF OfferAfter, MayCome
<1>5. CASE e.kind = "enter"
  BY <1>1, <1>2, <1>3, <1>5 DEF OfferAfter, MayCome
<1>6. CASE e.kind = "selection"
  BY <1>1, <1>2, <1>3, <1>6 DEF OfferAfter, MayCome
<1>7. CASE e.kind = "leave"
  BY <1>1, <1>2, <1>3, <1>7 DEF OfferAfter
<1>8. CASE e.kind \in {"offer", "drop"}
  BY <1>1, <1>2, <1>8 DEF OfferAfter
<1> QED
  BY <1>1, <1>4, <1>5, <1>6, <1>7, <1>8

LEMMA OffersInit == D!Init => OffersInv
<1> SUFFICES ASSUME D!Init PROVE OffersInv
  OBVIOUS
<1> DEFINE u == [count |-> 0, last |-> 0, selection |-> 0, drag |-> 0]
<1>1. /\ dataServer = [types |-> <<>>, selection |-> 0, dragOffer |-> 0, drag |-> "none"]
      /\ dataEvents = <<>> /\ DOMAIN dataEvents = {} /\ dataDevice = "unset"
      /\ lastOffer = 0 /\ selectionOffer = 0 /\ dragOffer = 0
      /\ users = {} /\ taken = {} /\ DOMAIN mimeTypes = {}
  BY DEF D!Init, D!None
<1>2. /\ dataServer.types = <<>> /\ Len(dataServer.types) = 0 /\ DOMAIN dataServer.types = {}
      /\ dataServer.selection = 0 /\ dataServer.dragOffer = 0
  BY <1>1
<1>3. u \in OfferViews
  BY DEF OfferViews
<1>4. Offered = u
  BY <1>2 DEF Offered
<1>5. Leads(OfferViews, OfferMoves, u, dataEvents, Offered)
  BY <1>1, <1>3, <1>4, LeadsNowhere
<1>6. Given(u) /\ TypesArrive(u)
  BY <1>1, <1>2 DEF Given, Unless, TypesArrive
<1>7. TypesFirst
  BY <1>1 DEF TypesFirst
<1>8. dataServer \in [types : Seq(SUBSET Types), selection : Nat, dragOffer : Nat, drag : D!Drags]
        /\ dataEvents \in Seq(OfferEvents)
  BY <1>1 DEF D!Drags
<1> HIDE DEF u
<1> QED
  BY <1>1, <1>3, <1>5, <1>6, <1>7, <1>8 DEF OffersInv

\* What the user does, and what is neither sent nor heard.
LEMMA OffersKeep ==
  ASSUME OffersInv, UNCHANGED <<dataServer, dataEvents>>,
         dataDevice' \in {dataDevice, "valid"}, dataDevice = "ended" => dataDevice' = "ended",
         dataDevice = "valid" => dataDevice' = "valid",
         \A u \in OfferViews : Given(u) => Given(u)',
         DOMAIN mimeTypes' \subseteq DOMAIN mimeTypes,
         \A o \in DOMAIN mimeTypes' : mimeTypes'[o] = mimeTypes[o]
  PROVE  OffersInv'
<1>1. PICK u \in OfferViews :
        /\ IF dataDevice = "ended"
           THEN \A i \in DOMAIN dataEvents : dataEvents[i].kind = "offer"
           ELSE Leads(OfferViews, OfferMoves, u, dataEvents, Offered)
        /\ Given(u) /\ TypesArrive(u)
  BY DEF OffersInv
<1>2. dataDevice' = "ended" <=> dataDevice = "ended"
  BY DEF OffersInv
<1>3. Offered' = Offered /\ TypesFirst' = TypesFirst
  BY DEF Offered, TypesFirst
<1>4. TypesArrive(u)'
  BY <1>1, <1>2 DEF TypesArrive, IsComing
<1>5. Given(u)'
  BY <1>1
<1>6. \E v \in OfferViews :
        /\ IF dataDevice' = "ended"
           THEN \A i \in DOMAIN dataEvents' : dataEvents'[i].kind = "offer"
           ELSE Leads(OfferViews, OfferMoves, v, dataEvents', Offered')
        /\ Given(v)' /\ TypesArrive(v)'
  BY <1>1, <1>2, <1>3, <1>4, <1>5
<1> QED
  BY <1>3, <1>6 DEF OffersInv

LEMMA OffersUsed ==
  ASSUME OffersInv, D!Setup \/ D!takeOfferedSelection \/ D!takeDragOffer \/ D!DeleteTaken
  PROVE  OffersInv'
<1>1. CASE D!Setup
  <2>1. /\ dataDevice = "unset" /\ dataDevice' = "valid"
        /\ UNCHANGED <<dataServer, dataEvents, lastOffer, selectionOffer, dragOffer, users,
                       taken, mimeTypes>>
    BY <1>1 DEF D!Setup
  <2>2. \A u \in OfferViews : Given(u) => Given(u)'
    BY <2>1 DEF Given
  <2> QED
    BY <2>1, <2>2, OffersKeep
<1>2. CASE D!takeOfferedSelection \/ D!takeDragOffer
  <2>1. PICK o : /\ o # 0 /\ users' = users \cup {o} /\ taken' = taken \cup {o}
                 /\ UNCHANGED <<dataServer, dataEvents, dataDevice, lastOffer, mimeTypes>>
                 /\ \/ /\ o = selectionOffer /\ selectionOffer' = 0 /\ UNCHANGED dragOffer
                    \/ /\ o = dragOffer /\ dragOffer' = 0 /\ UNCHANGED selectionOffer
    BY <1>2 DEF D!takeOfferedSelection, D!takeDragOffer, D!Take, D!None
  <2>2. ASSUME NEW u \in OfferViews, Given(u) PROVE Given(u)'
    <3>1. /\ lastOffer = u.last /\ selectionOffer = Unless(u.selection, taken)
          /\ dragOffer = Unless(u.drag, taken)
          /\ users \subseteq taken /\ taken \subseteq (1 .. u.count) \ {u.last}
          /\ DOMAIN mimeTypes = ({lastOffer, selectionOffer, dragOffer} \cup users) \ {0}
      BY <2>2 DEF Given
    <3>2. /\ u.selection \in Nat /\ u.drag \in Nat /\ u.count \in Nat
          /\ u.selection <= u.count /\ u.drag <= u.count
          /\ u.last = u.selection \/ u.last = u.drag => u.last = 0
          /\ u.selection = u.drag => u.selection = 0
      BY DEF OfferViews
    <3>3. o \in 1 .. u.count /\ o # u.last
      BY <2>1, <3>1, <3>2 DEF Unless
    <3>4. selectionOffer' = Unless(u.selection, taken') /\ dragOffer' = Unless(u.drag, taken')
      BY <2>1, <3>1, <3>2 DEF Unless
    <3>5. DOMAIN mimeTypes' = ({lastOffer', selectionOffer', dragOffer'} \cup users') \ {0}
      BY <2>1, <3>1
    <3> QED
      BY <2>1, <3>1, <3>3, <3>4, <3>5 DEF Given
  <2> QED
    BY <2>1, <2>2, OffersKeep
<1>3. CASE D!DeleteTaken
  <2>1. PICK o \in users :
          /\ users' = users \ {o} /\ mimeTypes' = D!Without({o})
          /\ UNCHANGED <<dataServer, dataEvents, dataDevice, lastOffer, selectionOffer,
                         dragOffer, taken>>
    BY <1>3 DEF D!DeleteTaken
  <2>2. DOMAIN mimeTypes' = DOMAIN mimeTypes \ {o}
          /\ \A x \in DOMAIN mimeTypes' : mimeTypes'[x] = mimeTypes[x]
    BY <2>1 DEF D!Without
  <2>3. ASSUME NEW u \in OfferViews, Given(u) PROVE Given(u)'
    BY <2>1, <2>2, <2>3 DEF Given, Unless, OfferViews
  <2> QED
    BY <2>1, <2>2, <2>3, OffersKeep
<1> QED
  BY <1>1, <1>2, <1>3

\* An event that does not announce an offer is sent.
LEMMA OffersOne ==
  ASSUME OffersInv, D!ClearSelection \/ D!InternalDragEnters \/ D!DragLeaves \/ D!Drop
  PROVE  OffersInv'
<1> USE DEF D!Send
<1>1. PICK e \in OfferEvents :
        /\ dataDevice = "valid" /\ dataEvents' = dataEvents \o <<e>>
        /\ UNCHANGED <<dataDevice, lastOffer, selectionOffer, dragOffer, users, taken,
                       mimeTypes>>
        /\ dataServer' \in [types : Seq(SUBSET Types), selection : Nat, dragOffer : Nat,
                            drag : D!Drags]
        /\ dataServer'.types = dataServer.types
        /\ e.kind \in {"selection", "enter", "leave", "drop"}
        /\ e.kind \in {"selection", "enter"} => e.offer = 0
        /\ e.kind = "selection" =>
             dataServer'.selection = 0 /\ dataServer'.dragOffer = dataServer.dragOffer
        /\ e.kind \in {"enter", "leave"} =>
             dataServer'.dragOffer = 0 /\ dataServer'.selection = dataServer.selection
        /\ e.kind = "drop" =>
             /\ dataServer'.dragOffer = dataServer.dragOffer
             /\ dataServer'.selection = dataServer.selection
  <2> USE DEF OffersInv, OfferEvents, D!Drags, D!clientVars, D!None
  <2>1. CASE D!ClearSelection
    <3> WITNESS [kind |-> "selection", offer |-> 0] \in OfferEvents
    <3> QED
      BY <2>1 DEF D!ClearSelection
  <2>2. CASE D!InternalDragEnters
    <3> WITNESS [kind |-> "enter", offer |-> 0] \in OfferEvents
    <3> QED
      BY <2>2 DEF D!InternalDragEnters
  <2>3. CASE D!DragLeaves
    <3> WITNESS [kind |-> "leave"] \in OfferEvents
    <3> QED
      BY <2>3 DEF D!DragLeaves
  <2>4. CASE D!Drop
    <3> WITNESS [kind |-> "drop"] \in OfferEvents
    <3> QED
      BY <2>4 DEF D!Drop
  <2> QED
    BY <2>1, <2>2, <2>3, <2>4
<1>2. /\ dataEvents \in Seq(OfferEvents) /\ TypesFirst
      /\ dataServer \in [types : Seq(SUBSET Types), selection : Nat, dragOffer : Nat,
                         drag : D!Drags]
  BY DEF OffersInv
<1>3. PICK u \in OfferViews :
        /\ Leads(OfferViews, OfferMoves, u, dataEvents, Offered)
        /\ Given(u) /\ TypesArrive(u)
  BY <1>1 DEF OffersInv
<1>4. /\ dataEvents' = Append(dataEvents, e) /\ dataEvents' \in Seq(OfferEvents)
      /\ DOMAIN dataEvents = 1 .. Len(dataEvents) /\ Len(dataEvents) \in Nat
      /\ DOMAIN dataEvents' = 1 .. Len(dataEvents) + 1
      /\ \A i \in DOMAIN dataEvents : i \in DOMAIN dataEvents' /\ dataEvents'[i] = dataEvents[i]
      /\ \A i \in DOMAIN dataEvents' : i \in DOMAIN dataEvents \/ dataEvents'[i].kind # "offer"
  BY <1>1, <1>2
<1>5. Offered \in OfferViews
  BY <1>2, <1>3 DEF Leads
<1>6. MayCome(Offered, e)
  BY <1>1 DEF MayCome, Offered
<1>7. OfferAfter(Offered, e) = Offered'
  BY <1>1, <1>2 DEF OfferAfter, Offered, View
<1>8. <<Offered, e, Offered'>> \in OfferMoves /\ Offered' \in OfferViews
  BY <1>1, <1>5, <1>6, <1>7, OfferMove, OfferAfterIs
<1>9. Leads(OfferViews, OfferMoves, u, dataEvents', Offered')
  <2> HIDE DEF Offered
  <2>1. \A s : s \in OfferViews /\ <<Offered, e, s>> \in OfferMoves =>
          Leads(OfferViews, OfferMoves, u, Append(dataEvents, e), s)
    BY <1>1, <1>2, <1>3, LeadsOn
  <2> QED
    BY <1>4, <1>8, <2>1
<1>10. Given(u)'
  BY <1>1, <1>3 DEF Given
<1>11. TypesArrive(u)'
  <2>1. \A o, t : IsComing(o, t) => IsComing(o, t)'
    BY <1>4 DEF IsComing
  <2> QED
    BY <1>1, <1>3, <1>4, <2>1 DEF TypesArrive
<1>12. TypesFirst'
  <2>1. ASSUME NEW i \in DOMAIN dataEvents', NEW j \in DOMAIN dataEvents', j < i,
               dataEvents'[i].kind = "offer", dataEvents'[j].kind \in Closing
        PROVE  dataEvents'[j].offer # dataEvents'[i].offer
    <3>1. i \in DOMAIN dataEvents /\ j \in DOMAIN dataEvents
      BY <1>4, <2>1
    <3> QED
      BY <1>2, <1>4, <2>1, <3>1 DEF TypesFirst
  <2>2. ASSUME NEW j \in DOMAIN dataEvents', dataEvents'[j].kind \in Naming
        PROVE  dataEvents'[j].offer <= Len(dataServer'.types)
    <3>1. CASE j \in DOMAIN dataEvents
      BY <1>1, <1>2, <1>4, <2>2, <3>1 DEF TypesFirst
    <3>2. CASE j \notin DOMAIN dataEvents
      <4>1. dataEvents'[j] = e /\ Len(dataServer'.types) \in Nat
        BY <1>1, <1>2, <1>4, <3>2
      <4> QED
        BY <1>1, <2>2, <4>1 DEF Closing, Naming
    <3> QED
      BY <3>1, <3>2
  <2> QED
    BY <2>1, <2>2 DEF TypesFirst
<1>13. \E v \in OfferViews :
         /\ Leads(OfferViews, OfferMoves, v, dataEvents', Offered')
         /\ Given(v)' /\ TypesArrive(v)'
  BY <1>9, <1>10, <1>11
<1> QED
  BY <1>1, <1>4, <1>12, <1>13 DEF OffersInv

LEMMA OffersListing ==
  ASSUME NEW set, IsFiniteSet(set)
  PROVE  /\ D!Cardinality(set) \in Nat
         /\ D!Listing(set) \in [1 .. D!Cardinality(set) -> set]
         /\ \A a \in set : \E i \in 1 .. D!Cardinality(set) : D!Listing(set)[i] = a
<1> DEFINE n == Cardinality(set)
           s == D!Listing(set)
<1>1. D!Cardinality(set) = n
  BY DEF D!Cardinality, Cardinality
<1>2. \A f \in [1 .. n -> set] :
        D!IsInjective(f) <=> \A i, j \in 1 .. n : f[i] = f[j] => i = j
  BY DEF D!IsInjective
<1> HIDE DEF n
<1>3. \E f \in [1 .. D!Cardinality(set) -> set] : D!IsInjective(f)
  BY <1>1, <1>2, InARow DEF n
<1>4. s \in [1 .. D!Cardinality(set) -> set] /\ D!IsInjective(s)
  BY <1>3 DEF D!Listing
<1> HIDE DEF s
<1>5. s \in [1 .. n -> set] /\ \A i, j \in 1 .. n : s[i] = s[j] => i = j
  BY <1>1, <1>2, <1>4
<1>6. n \in Nat /\ \A a \in set : \E i \in 1 .. n : s[i] = a
  BY <1>5, InARow DEF n
<1> QED
  BY <1>1, <1>5, <1>6 DEF s

LEMMA OffersKeptIs == \A s, places : D!Kept(s, places) = Kept(s, places)
<1>1. \A set : D!Cardinality(set) = Cardinality(set)
  BY DEF D!Cardinality, Cardinality
<1>2. \A places, k : D!Rank(places, k) = Rank(places, k)
  BY <1>1 DEF D!Rank, Rank
<1> TAKE s, places
<1>3. D!Kept(s, places) =
        [n \in 1 .. Cardinality(places) |->
           s[CHOOSE k \in places : D!Rank(places, k) = n]]
  BY <1>1 DEF D!Kept
<1>4. \A n \in 1 .. Cardinality(places) :
        (CHOOSE k \in places : D!Rank(places, k) = n)
          = (CHOOSE k \in places : Rank(places, k) = n)
  BY <1>2
<1> QED
  BY <1>3, <1>4 DEF Kept

\* What the events that announce an offer do.
IsOfferBatch(u, o, types, last, batch) ==
  /\ batch \in Seq(OfferEvents)
  /\ Leads(OfferViews, OfferMoves, u, batch,
           IF last = "enter" THEN View(o, 0, u.selection, o) ELSE View(o, 0, o, u.drag))
  /\ \A i \in DOMAIN batch : batch[i].kind = "offer" =>
       batch[i].offer = o /\ batch[i].type \in types
  /\ \A i \in DOMAIN batch : batch[i].kind \in Naming => batch[i].offer = o
  /\ \A i \in DOMAIN batch : batch[i].kind \in Closing => \A j \in DOMAIN batch : j <= i
  /\ \A t \in types : \E i \in DOMAIN batch :
       batch[i].kind = "offer" /\ batch[i].offer = o /\ batch[i].type = t

AnnouncedAs(o, types, last, offers, batch) ==
  /\ offers = [i \in 1 .. D!Cardinality(types) |->
                [kind |-> "offer", offer |-> o, type |-> D!Listing(types)[i]]]
  /\ batch = <<[kind |-> "dataOffer", offer |-> o]>> \o offers
                \o <<[kind |-> last, offer |-> o]>>

LEMMA OfferBatch ==
  ASSUME NEW u \in OfferViews, u.last = 0, NEW o, o = u.count + 1,
         NEW types \in SUBSET Types, NEW last \in Closing,
         NEW offers, NEW batch, AnnouncedAs(o, types, last, offers, batch)
  PROVE  IsOfferBatch(u, o, types, last, batch)
<1> DEFINE n == D!Cardinality(types)
           first == [kind |-> "dataOffer", offer |-> o]
           closing == [kind |-> last, offer |-> o]
           opened == <<first>> \o offers
           middle == View(o, o, u.selection, u.drag)
           after == IF last = "enter" THEN View(o, 0, u.selection, o)
                    ELSE View(o, 0, o, u.drag)
<1>1. /\ u \in [count : Nat, last : Nat, selection : Nat, drag : Nat]
      /\ u.selection <= u.count /\ u.drag <= u.count /\ o \in Nat
  BY DEF OfferViews
<1>2. /\ n \in Nat /\ D!Listing(types) \in [1 .. n -> types]
      /\ \A a \in types : \E i \in 1 .. n : D!Listing(types)[i] = a
  <2>1. IsFiniteSet(types)
    BY TypesAssumption, FS_Subset
  <2> QED
    BY <2>1, OffersListing
<1> DEFINE l == D!Listing(types)
<1>3. \A i \in 1 .. n : /\ offers[i] \in OfferEvents /\ offers[i].kind = "offer"
                        /\ offers[i].offer = o /\ offers[i].type = l[i] /\ l[i] \in types
  BY <1>1, <1>2 DEF OfferEvents, AnnouncedAs
<1> HIDE DEF l, n
<1>4. offers \in Seq(OfferEvents) /\ Len(offers) = n /\ DOMAIN offers = 1 .. n
  <2>1. offers = [i \in 1 .. n |-> offers[i]]
    BY DEF n, AnnouncedAs
  <2>2. offers \in [1 .. n -> OfferEvents]
    BY <1>3, <2>1
  <2>3. n \in Nat
    BY <1>2
  <2>4. \A f \in [1 .. n -> OfferEvents] :
          f \in Seq(OfferEvents) /\ Len(f) = n /\ DOMAIN f = 1 .. n
    BY <2>3
  <2> QED
    BY <2>2, <2>4
<1>5. first \in OfferEvents /\ first.kind = "dataOffer" /\ first.offer = o
  BY <1>1 DEF OfferEvents
<1>6. closing \in OfferEvents /\ closing.kind = last /\ closing.offer = o
  BY <1>1 DEF OfferEvents, Closing
<1>7. /\ middle.count = o /\ middle.last = o /\ middle.selection = u.selection
      /\ middle.drag = u.drag
  BY DEF View
<1> HIDE DEF first, closing
<1>8. middle = OfferAfter(u, first) /\ MayCome(u, first)
  BY <1>5 DEF OfferAfter, MayCome
<1>9. middle \in OfferViews
  BY <1>5, <1>8, OfferAfterIs
<1>10. after = OfferAfter(middle, closing) /\ MayCome(middle, closing)
  <2>1. o # 0
    BY <1>1
  <2> HIDE DEF middle
  <2> QED
    BY <1>6, <1>7, <2>1 DEF OfferAfter, MayCome, Closing
<1>11. after \in OfferViews
  <2> HIDE DEF middle, after
  <2> QED
    BY <1>6, <1>9, <1>10, OfferAfterIs
<1>12. \A i \in 1 .. n : middle = OfferAfter(middle, offers[i]) /\ MayCome(middle, offers[i])
  <2> HIDE DEF middle
  <2> QED
    BY <1>3, <1>7 DEF OfferAfter, MayCome
<1> HIDE DEF middle, after
<1>13. /\ <<u, first, middle>> \in OfferMoves /\ <<middle, closing, after>> \in OfferMoves
       /\ \A i \in 1 .. n : <<middle, offers[i], middle>> \in OfferMoves
  BY <1>3, <1>5, <1>6, <1>8, <1>9, <1>10, <1>11, <1>12, OfferMove
<1>14. /\ batch \in Seq(OfferEvents) /\ opened \in Seq(OfferEvents)
       /\ batch = Append(opened, closing) /\ DOMAIN batch = 1 .. n + 2
       /\ batch[1] = first /\ batch[n + 2] = closing
       /\ \A k \in 1 .. n : batch[k + 1] = offers[k]
  <2>1. batch = <<first>> \o offers \o <<closing>>
    BY DEF first, closing, AnnouncedAs
  <2>2. /\ batch \in Seq(OfferEvents) /\ opened \in Seq(OfferEvents)
        /\ batch = Append(opened, closing) /\ DOMAIN batch = 1 .. Len(offers) + 2
        /\ batch[1] = first /\ batch[Len(offers) + 2] = closing
        /\ \A k \in 1 .. Len(offers) : batch[k + 1] = offers[k]
    BY <1>4, <1>5, <1>6, <2>1, Enclosed
  <2> QED
    BY <1>4, <2>2
<1> DEFINE head == <<first>>
<1>15. head \in Seq(OfferEvents) /\ DOMAIN head = {1} /\ head[1] = first /\ opened = head \o offers
  BY <1>5
<1> HIDE DEF head, opened
<1>16. Leads(OfferViews, OfferMoves, u, head, middle)
  BY <1>9, <1>13, <1>15, LeadsOnce
<1>17. Leads(OfferViews, OfferMoves, middle, offers, middle)
  BY <1>4, <1>9, <1>13, LeadsSame
<1>18. Leads(OfferViews, OfferMoves, u, opened, middle)
  BY <1>4, <1>15, <1>16, <1>17, LeadsThrough
<1>19. Leads(OfferViews, OfferMoves, u, batch, after)
  <2>1. Leads(OfferViews, OfferMoves, u, Append(opened, closing), after)
    BY <1>6, <1>11, <1>13, <1>14, <1>18, LeadsOn
  <2> QED
    BY <1>14, <2>1
<1>20. n \in Nat
  BY <1>2
<1>21. \A i \in DOMAIN batch :
         i = 1 \/ i = n + 2 \/ \E k \in 1 .. n : batch[i] = offers[k]
  <2> TAKE i \in DOMAIN batch
  <2>1. i = 1 \/ i = n + 2 \/ (i - 1 \in 1 .. n /\ (i - 1) + 1 = i)
    BY <1>14, <1>20
  <2> QED
    BY <1>14, <2>1
<1>22. ASSUME NEW i \in DOMAIN batch, batch[i].kind = "offer"
       PROVE  batch[i].offer = o /\ batch[i].type \in types
  <2>1. batch[i] # first /\ batch[i] # closing
    BY <1>5, <1>6, <1>22 DEF Closing
  <2>2. PICK k \in 1 .. n : batch[i] = offers[k]
    BY <1>14, <1>21, <2>1
  <2> QED
    BY <1>3, <2>2
<1>23. ASSUME NEW i \in DOMAIN batch, batch[i].kind \in Closing
       PROVE  \A j \in DOMAIN batch : j <= i
  <2>1. i = n + 2
    BY <1>3, <1>5, <1>14, <1>21, <1>23 DEF Closing
  <2> QED
    BY <1>6, <1>14, <1>20, <2>1
<1>24. ASSUME NEW t \in types
       PROVE  \E i \in DOMAIN batch :
                batch[i].kind = "offer" /\ batch[i].offer = o /\ batch[i].type = t
  <2>1. PICK k \in 1 .. n : l[k] = t
    BY <1>2 DEF l, n
  <2>2. k + 1 \in DOMAIN batch /\ batch[k + 1] = offers[k]
    BY <1>14, <1>20
  <2>3. offers[k].kind = "offer" /\ offers[k].offer = o /\ offers[k].type = t
    BY <1>3, <2>1
  <2> QED
    BY <2>2, <2>3
<1>25. ASSUME NEW i \in DOMAIN batch, batch[i].kind \in Naming
       PROVE  batch[i].offer = o
  <2>1. i = 1 \/ i = n + 2
    BY <1>3, <1>21, <1>25 DEF Closing, Naming
  <2> QED
    BY <1>5, <1>6, <1>14, <2>1
<1> QED
  BY <1>14, <1>19, <1>22, <1>23, <1>24, <1>25 DEF IsOfferBatch, after

\* The server and the events after an offer was announced.
Announces(o, last, types, offers, batch) ==
  /\ AnnouncedAs(o, types, last, offers, batch)
  /\ dataDevice = "valid" /\ dataEvents' = dataEvents \o batch
  /\ UNCHANGED <<dataDevice, lastOffer, selectionOffer, dragOffer, users, taken, mimeTypes>>
  /\ dataServer' \in [types : Seq(SUBSET Types), selection : Nat, dragOffer : Nat,
                      drag : D!Drags]
  /\ dataServer'.types = Append(dataServer.types, types)
  /\ last = "selection" =>
       dataServer'.selection = o /\ dataServer'.dragOffer = dataServer.dragOffer
  /\ last = "enter" =>
       dataServer'.dragOffer = o /\ dataServer'.selection = dataServer.selection

\* An offer is announced.
LEMMA OffersAnnounced ==
  ASSUME OffersInv, D!OfferSelection \/ D!DragEnters
  PROVE  OffersInv'
<1>0. PICK o : o = Len(dataServer.types) + 1
  OBVIOUS
<1>1. /\ dataEvents \in Seq(OfferEvents) /\ TypesFirst
      /\ dataServer \in [types : Seq(SUBSET Types), selection : Nat, dragOffer : Nat,
                         drag : D!Drags]
  BY DEF OffersInv
<1>2. \E last \in Closing : \E types \in SUBSET Types : \E offers, batch :
        Announces(o, last, types, offers, batch)
  <2>1. CASE D!OfferSelection
    <3>1. PICK types \in SUBSET Types :
            /\ D!Announce(types, "selection")
            /\ dataServer' = [dataServer EXCEPT !.types = Append(@, types), !.selection = o]
      BY <1>0, <2>1 DEF D!OfferSelection
    <3>2. \E offers, batch :
            /\ AnnouncedAs(o, types, "selection", offers, batch)
            /\ dataDevice = "valid" /\ dataEvents' = dataEvents \o batch /\ UNCHANGED D!clientVars
      BY <1>0, <3>1 DEF D!Announce, D!Send, AnnouncedAs
    <3>3. o \in Nat /\ Append(dataServer.types, types) \in Seq(SUBSET Types)
      BY <1>0, <1>1
    <3> DEFINE all == Append(dataServer.types, types)
    <3> HIDE DEF all
    <3>4. /\ dataServer' \in [types : Seq(SUBSET Types), selection : Nat, dragOffer : Nat,
                              drag : D!Drags]
          /\ dataServer'.types = all
          /\ dataServer'.selection = o /\ dataServer'.dragOffer = dataServer.dragOffer
      BY <1>1, <3>1, <3>3 DEF D!Drags, all
    <3>5. \E offers, batch : Announces(o, "selection", types, offers, batch)
      BY <3>2, <3>4 DEF Announces, D!clientVars, all
    <3> QED
      BY <3>5 DEF Closing
  <2>2. CASE D!DragEnters
    <3>1. PICK types \in SUBSET Types :
            /\ D!Announce(types, "enter")
            /\ dataServer' = [dataServer EXCEPT !.types = Append(@, types), !.drag = "over",
                                                !.dragOffer = o]
      BY <1>0, <2>2 DEF D!DragEnters
    <3>2. \E offers, batch :
            /\ AnnouncedAs(o, types, "enter", offers, batch)
            /\ dataDevice = "valid" /\ dataEvents' = dataEvents \o batch /\ UNCHANGED D!clientVars
      BY <1>0, <3>1 DEF D!Announce, D!Send, AnnouncedAs
    <3>3. o \in Nat /\ Append(dataServer.types, types) \in Seq(SUBSET Types)
      BY <1>0, <1>1
    <3> DEFINE all == Append(dataServer.types, types)
    <3> HIDE DEF all
    <3>4. /\ dataServer' \in [types : Seq(SUBSET Types), selection : Nat, dragOffer : Nat,
                              drag : D!Drags]
          /\ dataServer'.types = all
          /\ dataServer'.dragOffer = o /\ dataServer'.selection = dataServer.selection
      BY <1>1, <3>1, <3>3 DEF D!Drags, all
    <3>5. \E offers, batch : Announces(o, "enter", types, offers, batch)
      BY <3>2, <3>4 DEF Announces, D!clientVars, all
    <3> QED
      BY <3>5 DEF Closing
  <2> QED
    BY <2>1, <2>2
<1>3. PICK last \in Closing : \E types \in SUBSET Types : \E offers, batch :
        Announces(o, last, types, offers, batch)
  BY <1>2
<1>4. PICK types \in SUBSET Types : \E offers, batch : Announces(o, last, types, offers, batch)
  BY <1>3
<1>5. PICK offers, batch : Announces(o, last, types, offers, batch)
  BY <1>4
<1>6. /\ AnnouncedAs(o, types, last, offers, batch)
      /\ dataDevice = "valid" /\ dataEvents' = dataEvents \o batch
      /\ UNCHANGED <<dataDevice, lastOffer, selectionOffer, dragOffer, users, taken, mimeTypes>>
      /\ dataServer' \in [types : Seq(SUBSET Types), selection : Nat, dragOffer : Nat,
                          drag : D!Drags]
      /\ dataServer'.types = Append(dataServer.types, types)
      /\ last = "selection" =>
           dataServer'.selection = o /\ dataServer'.dragOffer = dataServer.dragOffer
      /\ last = "enter" =>
           dataServer'.dragOffer = o /\ dataServer'.selection = dataServer.selection
  BY <1>5 DEF Announces
<1>7. PICK u \in OfferViews :
        /\ Leads(OfferViews, OfferMoves, u, dataEvents, Offered)
        /\ Given(u) /\ TypesArrive(u)
  BY <1>6 DEF OffersInv
<1>8. Offered \in OfferViews /\ Offered.last = 0 /\ o = Offered.count + 1
        /\ Offered.selection = dataServer.selection /\ Offered.drag = dataServer.dragOffer
  <2>1. Offered \in OfferViews
    <3> HIDE DEF Offered
    <3>1. Len(dataEvents) \in Nat
      BY <1>1
    <3> QED
      BY <1>7, <3>1 DEF Leads
  <2>2. Offered.last = 0 /\ o = Offered.count + 1
        /\ Offered.selection = dataServer.selection /\ Offered.drag = dataServer.dragOffer
    BY <1>0 DEF Offered
  <2> QED
    BY <2>1, <2>2
<1>9. Offered' = IF last = "enter" THEN View(o, 0, Offered.selection, o)
                 ELSE View(o, 0, o, Offered.drag)
  BY <1>0, <1>1, <1>6, <1>8 DEF Offered, View, Closing
<1>10. IsOfferBatch(Offered, o, types, last, batch)
  <2> HIDE DEF Offered
  <2> QED
    BY <1>6, <1>8, OfferBatch
<1>11. batch \in Seq(OfferEvents) /\ Leads(OfferViews, OfferMoves, Offered, batch, Offered')
  BY <1>9, <1>10 DEF IsOfferBatch
<1>12. Leads(OfferViews, OfferMoves, u, dataEvents', Offered') /\ dataEvents' \in Seq(OfferEvents)
  <2> DEFINE now == Offered
             then == Offered'
  <2>1. Leads(OfferViews, OfferMoves, u, dataEvents, now) /\ Leads(OfferViews, OfferMoves, now, batch, then)
    BY <1>7, <1>11
  <2> HIDE DEF now, then
  <2>2. Leads(OfferViews, OfferMoves, u, dataEvents \o batch, then)
    BY <1>1, <1>11, <2>1, LeadsThrough
  <2> QED
    BY <1>1, <1>6, <1>11, <2>2 DEF then
<1>13. /\ \A k \in DOMAIN dataEvents : k \in DOMAIN dataEvents' /\ dataEvents'[k] = dataEvents[k]
       /\ \A k \in DOMAIN dataEvents' : k \notin DOMAIN dataEvents =>
            k - Len(dataEvents) \in DOMAIN batch /\ dataEvents'[k] = batch[k - Len(dataEvents)]
       /\ \A k \in DOMAIN batch : Len(dataEvents) + k \in DOMAIN dataEvents'
                                  /\ dataEvents'[Len(dataEvents) + k] = batch[k]
       /\ DOMAIN dataEvents = 1 .. Len(dataEvents) /\ Len(dataEvents) \in Nat
       /\ \A k \in DOMAIN dataEvents' : k \in Nat \ {0}
  BY <1>1, <1>6, <1>11, Behind
<1>14. /\ DOMAIN dataServer.types = 1 .. Len(dataServer.types) /\ Len(dataServer.types) \in Nat
       /\ DOMAIN dataServer'.types = 1 .. o /\ Len(dataServer'.types) = o
       /\ o = Len(dataServer.types) + 1 /\ o \notin DOMAIN dataServer.types
       /\ dataServer'.types[o] = types
       /\ \A x \in DOMAIN dataServer.types :
            x \in DOMAIN dataServer'.types /\ dataServer'.types[x] = dataServer.types[x]
  BY <1>0, <1>1, <1>6
<1>15. Given(u)'
  BY <1>6, <1>7 DEF Given
<1>16. /\ \A x, t : IsComing(x, t) => IsComing(x, t)'
       /\ \A t \in types : IsComing(o, t)'
  <2>1. \A t \in types : \E i \in DOMAIN batch :
          batch[i].kind = "offer" /\ batch[i].offer = o /\ batch[i].type = t
    BY <1>10 DEF IsOfferBatch
  <2>2. ASSUME NEW x, NEW t, IsComing(x, t) PROVE IsComing(x, t)'
    BY <1>13, <2>2 DEF IsComing
  <2>3. ASSUME NEW t \in types PROVE IsComing(o, t)'
    <3>1. PICK i \in DOMAIN batch :
            batch[i].kind = "offer" /\ batch[i].offer = o /\ batch[i].type = t
      BY <2>1
    <3> DEFINE k == Len(dataEvents) + i
    <3>2. k \in DOMAIN dataEvents' /\ dataEvents'[k] = batch[i]
      BY <1>13
    <3> HIDE DEF k
    <3> QED
      BY <3>1, <3>2 DEF IsComing
  <2> QED
    BY <2>2, <2>3
<1>17. ASSUME NEW i \in DOMAIN dataEvents', i \notin DOMAIN dataEvents
       PROVE  /\ dataEvents'[i].kind = "offer" =>
                   dataEvents'[i].offer = o /\ dataEvents'[i].type \in types
              /\ dataEvents'[i].kind \in Naming => dataEvents'[i].offer = o
              /\ dataEvents'[i].kind \in Closing => \A j \in DOMAIN dataEvents' : j <= i
  <2>1. i - Len(dataEvents) \in DOMAIN batch /\ dataEvents'[i] = batch[i - Len(dataEvents)]
    BY <1>13, <1>17
  <2>2. /\ dataEvents'[i].kind = "offer" =>
             dataEvents'[i].offer = o /\ dataEvents'[i].type \in types
        /\ dataEvents'[i].kind \in Naming => dataEvents'[i].offer = o
        /\ dataEvents'[i].kind \in Closing =>
             \A j \in DOMAIN batch : j <= i - Len(dataEvents)
    BY <1>10, <2>1 DEF IsOfferBatch
  <2>3. (\A j \in DOMAIN batch : j <= i - Len(dataEvents)) => \A j \in DOMAIN dataEvents' : j <= i
    <3> SUFFICES ASSUME \A j \in DOMAIN batch : j <= i - Len(dataEvents),
                        NEW j \in DOMAIN dataEvents'
                 PROVE  j <= i
      OBVIOUS
    <3>1. j \in Nat /\ i \in Nat /\ Len(dataEvents) \in Nat
      BY <1>13
    <3>2. CASE j \in DOMAIN dataEvents
      BY <1>13, <1>17, <3>1, <3>2
    <3>3. CASE j \notin DOMAIN dataEvents
      <4>1. j - Len(dataEvents) <= i - Len(dataEvents)
        BY <1>13, <3>3
      <4> QED
        BY <3>1, <4>1
    <3> QED
      BY <3>2, <3>3
  <2> QED
    BY <2>2, <2>3
<1>18. TypesArrive(u)'
  <2>1. u.count <= Len(dataServer.types) /\ u.count \in Nat
    BY <1>7 DEF TypesArrive, OfferViews
  <2>2. u.count <= Len(dataServer'.types)
    BY <1>14, <2>1
  <2>3. ASSUME NEW x \in DOMAIN mimeTypes
        PROVE  /\ mimeTypes[x] \subseteq dataServer'.types[x] \cap KnownTypes
               /\ \A t \in dataServer'.types[x] \cap KnownTypes :
                    t \in mimeTypes[x] \/ IsComing(x, t)'
    <3>1. x \in DOMAIN dataServer.types
      <4>1. /\ u \in [count : Nat, last : Nat, selection : Nat, drag : Nat]
            /\ u.last <= u.count /\ u.selection <= u.count /\ u.drag <= u.count
        BY DEF OfferViews
      <4>2. x # 0 /\ (x \in {u.last, u.selection, u.drag} \/ x \in 1 .. u.count)
        BY <1>7 DEF Given, Unless
      <4>3. x \in 1 .. u.count
        BY <4>1, <4>2
      <4> QED
        BY <1>14, <2>1, <4>3
    <3>2. /\ mimeTypes[x] \subseteq dataServer.types[x] \cap KnownTypes
          /\ \A t \in dataServer.types[x] \cap KnownTypes : t \in mimeTypes[x] \/ IsComing(x, t)
      BY <1>7 DEF TypesArrive
    <3> QED
      BY <1>14, <1>16, <3>1, <3>2
  <2>4. ASSUME NEW x \in DOMAIN dataServer'.types, x > u.count, NEW t \in dataServer'.types[x]
        PROVE  IsComing(x, t)'
    <3>1. CASE x = o
      BY <1>14, <1>16, <2>4, <3>1
    <3>2. CASE x \in DOMAIN dataServer.types
      <4>1. IsComing(x, t)
        BY <1>6, <1>7, <1>14, <2>4, <3>2 DEF TypesArrive
      <4> QED
        BY <1>16, <4>1
    <3> QED
      BY <1>14, <3>1, <3>2
  <2>5. ASSUME NEW i \in DOMAIN dataEvents', dataEvents'[i].kind = "offer"
        PROVE  /\ dataEvents'[i].offer \in DOMAIN dataServer'.types
               /\ dataEvents'[i].type \in dataServer'.types[dataEvents'[i].offer]
               /\ dataEvents'[i].offer = u.last \/ dataEvents'[i].offer > u.count
    <3>1. CASE i \in DOMAIN dataEvents
      <4>1. /\ dataEvents[i].offer \in DOMAIN dataServer.types
            /\ dataEvents[i].type \in dataServer.types[dataEvents[i].offer]
            /\ dataEvents[i].offer = u.last \/ dataEvents[i].offer > u.count
        BY <1>7, <1>13, <2>5, <3>1 DEF TypesArrive
      <4> QED
        BY <1>13, <1>14, <3>1, <4>1
    <3>2. CASE i \notin DOMAIN dataEvents
      BY <1>14, <1>17, <2>1, <2>5, <3>2
    <3> QED
      BY <3>1, <3>2
  <2> QED
    BY <1>6, <2>2, <2>3, <2>4, <2>5 DEF TypesArrive
<1>19. TypesFirst'
  <2>1. ASSUME NEW j \in DOMAIN dataEvents, dataEvents'[j].kind \in Naming
        PROVE  dataEvents'[j].offer \in Nat /\ dataEvents'[j].offer <= Len(dataServer.types)
    <3>1. dataEvents[j] = dataEvents'[j] /\ dataEvents[j] \in OfferEvents
      BY <1>1, <1>13, Element
    <3> QED
      BY <1>1, <2>1, <3>1 DEF TypesFirst, Closing, Naming, OfferEvents
  <2>2. ASSUME NEW i \in DOMAIN dataEvents', NEW j \in DOMAIN dataEvents', j < i,
               dataEvents'[i].kind = "offer", dataEvents'[j].kind \in Closing
        PROVE  dataEvents'[j].offer # dataEvents'[i].offer
    <3>1. j \in DOMAIN dataEvents
      <4>1. ~(i <= j)
        BY <1>13, <2>2
      <4> QED
        BY <1>17, <2>2, <4>1
    <3>2. CASE i \in DOMAIN dataEvents
      BY <1>1, <1>13, <2>2, <3>1, <3>2 DEF TypesFirst
    <3>3. CASE i \notin DOMAIN dataEvents
      <4>1. dataEvents'[i].offer = Len(dataServer.types) + 1
        BY <1>14, <1>17, <2>2, <3>3
      <4> QED
        BY <1>14, <2>1, <2>2, <3>1, <4>1 DEF Naming
    <3> QED
      BY <3>2, <3>3
  <2>3. ASSUME NEW j \in DOMAIN dataEvents', dataEvents'[j].kind \in Naming
        PROVE  dataEvents'[j].offer <= Len(dataServer'.types)
    <3>1. CASE j \in DOMAIN dataEvents
      BY <1>14, <2>1, <2>3, <3>1
    <3>2. CASE j \notin DOMAIN dataEvents
      BY <1>14, <1>17, <2>3, <3>2
    <3> QED
      BY <3>1, <3>2
  <2> QED
    BY <2>2, <2>3 DEF TypesFirst
<1>20. \E v \in OfferViews :
         /\ Leads(OfferViews, OfferMoves, v, dataEvents', Offered')
         /\ Given(v)' /\ TypesArrive(v)'
  BY <1>12, <1>15, <1>18
<1> QED
  BY <1>6, <1>12, <1>19, <1>20 DEF OffersInv

\* An event is taken.
LEMMA OffersTaken ==
  ASSUME OffersInv,
         \/ D!dataOfferCallback \/ D!offerCallback \/ D!enterCallback
         \/ D!leaveCallback \/ D!dropCallback \/ D!selectionCallback
  PROVE  OffersInv'
<1>1. /\ dataEvents # <<>> /\ dataEvents' = Tail(dataEvents)
      /\ UNCHANGED <<dataServer, dataDevice, users, taken>>
  BY DEF D!dataOfferCallback, D!offerCallback, D!enterCallback, D!leaveCallback,
         D!dropCallback, D!selectionCallback, D!Takes
<1>2. PICK e : e = Head(dataEvents)
  OBVIOUS
<1>3. /\ dataServer \in [types : Seq(SUBSET Types), selection : Nat, dragOffer : Nat,
                         drag : D!Drags]
      /\ dataEvents \in Seq(OfferEvents) /\ dataDevice \in {"unset", "valid", "ended"}
      /\ TypesFirst
  BY DEF OffersInv
<1>4. PICK u \in OfferViews :
        /\ IF dataDevice = "ended"
           THEN \A i \in DOMAIN dataEvents : dataEvents[i].kind = "offer"
           ELSE Leads(OfferViews, OfferMoves, u, dataEvents, Offered)
        /\ Given(u) /\ TypesArrive(u)
  BY DEF OffersInv
<1>5. /\ 1 \in DOMAIN dataEvents /\ e = dataEvents[1] /\ e \in OfferEvents
      /\ \A k \in DOMAIN dataEvents' :
           k + 1 \in DOMAIN dataEvents /\ dataEvents'[k] = dataEvents[k + 1] /\ k \in Nat \ {0}
      /\ \A k \in DOMAIN dataEvents : k # 1 =>
           k - 1 \in DOMAIN dataEvents' /\ dataEvents'[k - 1] = dataEvents[k]
      /\ dataEvents' \in Seq(OfferEvents)
  <2>1. dataEvents' \in Seq(OfferEvents)
    BY <1>1, <1>3
  <2>2. 1 \in DOMAIN dataEvents /\ Head(dataEvents) = dataEvents[1]
    BY <1>1, <1>3, TailIndices
  <2>3. e \in OfferEvents
    BY <1>2, <1>3, <2>2, Element
  <2>4. \A k \in DOMAIN dataEvents' : k \in Nat \ {0}
    BY <2>1
  <2> QED
    BY <1>1, <1>2, <1>3, <2>1, <2>2, <2>3, <2>4, TailIndices
<1>6. Offered' = Offered
  BY <1>1 DEF Offered
<1>7. TypesFirst'
  <2>1. ASSUME NEW i \in DOMAIN dataEvents', NEW j \in DOMAIN dataEvents', j < i,
               dataEvents'[i].kind = "offer", dataEvents'[j].kind \in Closing
        PROVE  dataEvents'[j].offer # dataEvents'[i].offer
    <3>1. j + 1 < i + 1
      BY <1>5, <2>1
    <3> QED
      BY <1>3, <1>5, <2>1, <3>1 DEF TypesFirst
  <2>2. ASSUME NEW j \in DOMAIN dataEvents', dataEvents'[j].kind \in Naming
        PROVE  dataEvents'[j].offer <= Len(dataServer'.types)
    BY <1>1, <1>3, <1>5, <2>2 DEF TypesFirst
  <2> QED
    BY <2>1, <2>2 DEF TypesFirst
<1>8. \A o, t : IsComing(o, t) /\ ~(e.kind = "offer" /\ e.offer = o /\ e.type = t)
                  => IsComing(o, t)'
  <2> SUFFICES ASSUME NEW o, NEW t, IsComing(o, t),
                      ~(e.kind = "offer" /\ e.offer = o /\ e.type = t)
               PROVE  IsComing(o, t)'
    OBVIOUS
  <2>1. PICK i \in DOMAIN dataEvents :
          dataEvents[i].kind = "offer" /\ dataEvents[i].offer = o /\ dataEvents[i].type = t
    BY DEF IsComing
  <2>2. i # 1
    BY <1>5, <2>1
  <2> QED
    BY <1>5, <2>1, <2>2 DEF IsComing
<1>9. /\ u \in [count : Nat, last : Nat, selection : Nat, drag : Nat]
      /\ u.last <= u.count /\ u.selection <= u.count /\ u.drag <= u.count
      /\ u.last = u.selection \/ u.last = u.drag => u.last = 0
      /\ u.selection = u.drag => u.selection = 0
  BY DEF OfferViews
<1>10. /\ lastOffer = u.last /\ selectionOffer = Unless(u.selection, taken)
       /\ dragOffer = Unless(u.drag, taken)
       /\ users \subseteq taken /\ taken \subseteq (1 .. u.count) \ {u.last}
       /\ DOMAIN mimeTypes = ({lastOffer, selectionOffer, dragOffer} \cup users) \ {0}
  BY <1>4 DEF Given
<1>11. /\ u.count <= Len(dataServer.types)
       /\ \A o \in DOMAIN mimeTypes :
            /\ mimeTypes[o] \subseteq dataServer.types[o] \cap KnownTypes
            /\ \A t \in dataServer.types[o] \cap KnownTypes : t \in mimeTypes[o] \/ IsComing(o, t)
       /\ dataDevice # "ended" =>
            \A o \in DOMAIN dataServer.types :
              o > u.count => \A t \in dataServer.types[o] : IsComing(o, t)
       /\ \A i \in DOMAIN dataEvents : dataEvents[i].kind = "offer" =>
            /\ dataEvents[i].offer \in DOMAIN dataServer.types
            /\ dataEvents[i].type \in dataServer.types[dataEvents[i].offer]
            /\ dataEvents[i].offer = u.last \/ dataEvents[i].offer > u.count
  BY <1>4 DEF TypesArrive
<1>12. dataDevice # "ended" =>
         /\ MayCome(u, e) /\ OfferAfter(u, e) \in OfferViews
         /\ Leads(OfferViews, OfferMoves, OfferAfter(u, e), dataEvents', Offered')
  <2> SUFFICES ASSUME dataDevice # "ended"
               PROVE  /\ MayCome(u, e) /\ OfferAfter(u, e) \in OfferViews
                      /\ Leads(OfferViews, OfferMoves, OfferAfter(u, e), dataEvents', Offered')
    OBVIOUS
  <2> DEFINE last == Offered
  <2>1. Leads(OfferViews, OfferMoves, u, dataEvents, last)
    BY <1>4
  <2>2. last = Offered'
    BY <1>6
  <2> HIDE DEF last
  <2>3. PICK v \in OfferViews :
          /\ <<u, Head(dataEvents), v>> \in OfferMoves
          /\ Leads(OfferViews, OfferMoves, v, Tail(dataEvents), last)
    BY <1>1, <1>3, <2>1, LeadsFrom
  <2>4. MayCome(u, e) /\ v = OfferAfter(u, e)
    BY <1>2, <2>3, OfferMove
  <2> QED
    BY <1>1, <2>2, <2>3, <2>4
<1>13. CASE D!offerCallback
  <2>1. /\ e.kind = "offer" /\ UNCHANGED <<lastOffer, selectionOffer, dragOffer>>
        /\ mimeTypes' = IF e.offer \in DOMAIN mimeTypes /\ e.type \in KnownTypes
                        THEN [mimeTypes EXCEPT ![e.offer] = @ \cup {e.type}]
                        ELSE mimeTypes
    BY <1>2, <1>13 DEF D!offerCallback, D!Takes
  <2>2. /\ DOMAIN mimeTypes' = DOMAIN mimeTypes
        /\ \A o \in DOMAIN mimeTypes :
             mimeTypes'[o] = IF o = e.offer /\ e.type \in KnownTypes
                             THEN mimeTypes[o] \cup {e.type} ELSE mimeTypes[o]
    BY <2>1
  <2>3. Given(u)'
    BY <1>1, <1>10, <2>1, <2>2 DEF Given
  <2>4. /\ e.offer \in DOMAIN dataServer.types /\ e.type \in dataServer.types[e.offer]
        /\ dataDevice # "ended" => e.offer = u.last
    BY <1>5, <1>11, <1>12, <2>1 DEF MayCome
  <2>5. TypesArrive(u)'
    <3>1. ASSUME NEW o \in DOMAIN mimeTypes'
          PROVE  /\ mimeTypes'[o] \subseteq dataServer'.types[o] \cap KnownTypes
                 /\ \A t \in dataServer'.types[o] \cap KnownTypes :
                      t \in mimeTypes'[o] \/ IsComing(o, t)'
      <4>1. /\ mimeTypes[o] \subseteq dataServer.types[o] \cap KnownTypes
            /\ \A t \in dataServer.types[o] \cap KnownTypes : t \in mimeTypes[o] \/ IsComing(o, t)
        BY <1>11, <2>2
      <4>2. mimeTypes'[o] \subseteq dataServer.types[o] \cap KnownTypes
        BY <2>2, <2>4, <4>1
      <4>3. ASSUME NEW t \in dataServer.types[o] \cap KnownTypes
            PROVE  t \in mimeTypes'[o] \/ IsComing(o, t)'
        BY <1>8, <2>2, <4>1
      <4> QED
        BY <1>1, <4>2, <4>3
    <3>2. ASSUME dataDevice # "ended", NEW o \in DOMAIN dataServer.types, o > u.count,
                 NEW t \in dataServer.types[o]
          PROVE  IsComing(o, t)'
      <4>1. o # e.offer
        BY <1>9, <2>4, <3>2
      <4> QED
        BY <1>8, <1>11, <3>2, <4>1
    <3>3. \A i \in DOMAIN dataEvents' : dataEvents'[i].kind = "offer" =>
            /\ dataEvents'[i].offer \in DOMAIN dataServer.types
            /\ dataEvents'[i].type \in dataServer.types[dataEvents'[i].offer]
            /\ dataEvents'[i].offer = u.last \/ dataEvents'[i].offer > u.count
      BY <1>5, <1>11
    <3> QED
      BY <1>1, <1>11, <3>1, <3>2, <3>3 DEF TypesArrive
  <2>6. OfferAfter(u, e) = u
    BY <2>1 DEF OfferAfter
  <2>7. \E v \in OfferViews :
          /\ IF dataDevice' = "ended"
             THEN \A i \in DOMAIN dataEvents' : dataEvents'[i].kind = "offer"
             ELSE Leads(OfferViews, OfferMoves, v, dataEvents', Offered')
          /\ Given(v)' /\ TypesArrive(v)'
    BY <1>1, <1>4, <1>5, <1>12, <2>3, <2>5, <2>6
  <2> QED
    BY <1>1, <1>3, <1>5, <1>7, <2>7 DEF OffersInv
<1>14. CASE ~D!offerCallback
  <2>1. e.kind \in {"dataOffer", "enter", "leave", "drop", "selection"}
    BY <1>2, <1>14 DEF D!dataOfferCallback, D!offerCallback, D!enterCallback, D!leaveCallback,
                       D!dropCallback, D!selectionCallback, D!Takes
  <2>2. dataDevice # "ended"
    BY <1>4, <1>5, <2>1
  <2>3. PICK v \in OfferViews : v = OfferAfter(u, e)
    BY <1>12, <2>2
  <2>4. MayCome(u, e) /\ Leads(OfferViews, OfferMoves, v, dataEvents', Offered')
    BY <1>12, <2>2, <2>3
  <2>5. \A o, t : IsComing(o, t) => IsComing(o, t)'
    BY <1>8, <2>1
  <2>6. \A i \in DOMAIN dataEvents' : dataEvents'[i].kind = "offer" =>
          /\ dataEvents'[i].offer \in DOMAIN dataServer.types
          /\ dataEvents'[i].type \in dataServer.types[dataEvents'[i].offer]
          /\ dataEvents'[i].offer = u.last \/ dataEvents'[i].offer > u.count
          /\ e.kind \in Closing => dataEvents'[i].offer # e.offer
    <3> SUFFICES ASSUME NEW i \in DOMAIN dataEvents', dataEvents'[i].kind = "offer"
                 PROVE  /\ dataEvents'[i].offer \in DOMAIN dataServer.types
                        /\ dataEvents'[i].type \in dataServer.types[dataEvents'[i].offer]
                        /\ dataEvents'[i].offer = u.last \/ dataEvents'[i].offer > u.count
                        /\ e.kind \in Closing => dataEvents'[i].offer # e.offer
      OBVIOUS
    <3>1. i + 1 \in DOMAIN dataEvents /\ dataEvents[i + 1] = dataEvents'[i] /\ 1 < i + 1
      BY <1>5
    <3> QED
      BY <1>3, <1>5, <1>11, <3>1 DEF TypesFirst
  <2>7. Given(v)' /\ TypesArrive(v)'
    <3>1. CASE D!dataOfferCallback
      <4>1. /\ e.kind = "dataOffer" /\ lastOffer' = e.offer
            /\ UNCHANGED <<selectionOffer, dragOffer>>
            /\ mimeTypes' = [x \in (DOMAIN mimeTypes \ {lastOffer}) \cup {e.offer} |->
                               IF x = e.offer THEN {} ELSE mimeTypes[x]]
        BY <1>2, <3>1 DEF D!dataOfferCallback, D!Takes
      <4>2. u.last = 0 /\ e.offer = u.count + 1 /\ e.offer \in DOMAIN dataServer.types
        <5>1. u.last = 0 /\ e.offer = u.count + 1
          BY <2>4, <4>1 DEF MayCome
        <5>2. e.offer <= Len(dataServer.types)
          BY <1>3, <1>5, <4>1 DEF TypesFirst, Naming
        <5>3. DOMAIN dataServer.types = 1 .. Len(dataServer.types) /\ Len(dataServer.types) \in Nat
          BY <1>3
        <5> QED
          BY <1>9, <5>1, <5>2, <5>3
      <4>3. /\ v.count = e.offer /\ v.last = e.offer
            /\ v.selection = u.selection /\ v.drag = u.drag
        BY <2>3, <4>1 DEF OfferAfter, View
      <4>4. e.offer \notin DOMAIN mimeTypes /\ 0 \notin DOMAIN mimeTypes /\ lastOffer = 0
        BY <1>9, <1>10, <4>2 DEF Unless
      <4>5. /\ DOMAIN mimeTypes' = DOMAIN mimeTypes \cup {e.offer}
            /\ mimeTypes'[e.offer] = {}
            /\ \A x \in DOMAIN mimeTypes : mimeTypes'[x] = mimeTypes[x]
        BY <4>1, <4>4
      <4>6. Given(v)'
        <5>1. taken \subseteq (1 .. v.count) \ {v.last}
          BY <1>9, <1>10, <4>2, <4>3
        <5>2. e.offer # 0
          BY <1>9, <4>2
        <5>3. DOMAIN mimeTypes' = ({lastOffer', selectionOffer', dragOffer'} \cup users') \ {0}
          BY <1>1, <1>10, <4>1, <4>4, <4>5, <5>2
        <5> QED
          BY <1>1, <1>10, <4>1, <4>3, <5>1, <5>3 DEF Given
      <4>7. \A t \in dataServer.types[e.offer] : IsComing(e.offer, t)
        BY <1>9, <1>11, <2>2, <4>2
      <4>8. TypesArrive(v)'
        <5>1. v.count <= Len(dataServer.types)
          BY <1>3, <4>2, <4>3
        <5>2. ASSUME NEW o \in DOMAIN mimeTypes'
              PROVE  /\ mimeTypes'[o] \subseteq dataServer'.types[o] \cap KnownTypes
                     /\ \A t \in dataServer'.types[o] \cap KnownTypes :
                          t \in mimeTypes'[o] \/ IsComing(o, t)'
          <6>1. CASE o = e.offer
            <7>1. \A t \in dataServer.types[e.offer] : IsComing(e.offer, t)'
              BY <2>5, <4>7
            <7> QED
              BY <1>1, <4>5, <6>1, <7>1
          <6>2. CASE o \in DOMAIN mimeTypes
            BY <1>1, <1>11, <2>5, <4>5, <6>2
          <6> QED
            BY <4>5, <6>1, <6>2
        <5>3. ASSUME NEW o \in DOMAIN dataServer.types, o > v.count,
                     NEW t \in dataServer.types[o]
              PROVE  IsComing(o, t)'
          <6>1. o > u.count
            BY <1>3, <1>9, <4>2, <4>3, <5>3
          <6> QED
            BY <1>11, <2>2, <2>5, <6>1
        <5>4. ASSUME NEW i \in DOMAIN dataEvents', dataEvents'[i].kind = "offer"
              PROVE  /\ dataEvents'[i].offer \in DOMAIN dataServer.types
                     /\ dataEvents'[i].type \in dataServer.types[dataEvents'[i].offer]
                     /\ dataEvents'[i].offer = v.last \/ dataEvents'[i].offer > v.count
          <6>1. /\ dataEvents'[i].offer \in DOMAIN dataServer.types
                /\ dataEvents'[i].type \in dataServer.types[dataEvents'[i].offer]
                /\ dataEvents'[i].offer = 0 \/ dataEvents'[i].offer > u.count
            BY <2>6, <4>2, <5>4
          <6>2. dataEvents'[i].offer \in Nat \ {0}
            BY <1>3, <6>1
          <6> QED
            BY <1>9, <4>2, <4>3, <6>1, <6>2
        <5> QED
          BY <1>1, <5>1, <5>2, <5>3, <5>4 DEF TypesArrive
      <4> QED
        BY <4>6, <4>8
    <3>2. CASE ~D!dataOfferCallback
      <4>1. /\ v.count = u.count /\ (v.last = u.last \/ (v.last = 0 /\ e.kind \in Closing /\ e.offer = u.last))
            /\ Given(v)'
            /\ DOMAIN mimeTypes' \subseteq DOMAIN mimeTypes
            /\ \A x \in DOMAIN mimeTypes' : mimeTypes'[x] = mimeTypes[x]
        <5>1. /\ 0 \notin taken /\ u.last \notin taken
              /\ \A o \in users : o # lastOffer /\ o # selectionOffer /\ o # dragOffer
              /\ lastOffer = selectionOffer \/ lastOffer = dragOffer => lastOffer = 0
              /\ selectionOffer = dragOffer => selectionOffer = 0
          BY <1>9, <1>10 DEF Unless
        <5>2. \A offers : /\ DOMAIN D!Without(offers) = DOMAIN mimeTypes \ offers
                          /\ \A x \in DOMAIN D!Without(offers) : D!Without(offers)[x] = mimeTypes[x]
          BY DEF D!Without
        <5>3. CASE D!enterCallback
          <6>1. /\ e.kind = "enter" /\ dragOffer' = lastOffer /\ lastOffer' = 0
                /\ mimeTypes' = D!Without({dragOffer}) /\ UNCHANGED selectionOffer
            BY <1>2, <5>3 DEF D!enterCallback, D!Takes, D!None
          <6>2. e.offer = u.last
            BY <2>4, <6>1 DEF MayCome
          <6>3. /\ v.count = u.count /\ v.last = 0 /\ v.selection = u.selection
                /\ v.drag = u.last
            BY <2>3, <6>1, <6>2 DEF OfferAfter, View
          <6>4. /\ DOMAIN mimeTypes' = DOMAIN mimeTypes \ {dragOffer}
                /\ \A x \in DOMAIN mimeTypes' : mimeTypes'[x] = mimeTypes[x]
            BY <5>2, <6>1
          <6>5. DOMAIN mimeTypes' = ({lastOffer', selectionOffer', dragOffer'} \cup users) \ {0}
            BY <1>10, <5>1, <6>1, <6>4
          <6>6. dragOffer' = Unless(v.drag, taken) /\ taken \subseteq (1 .. v.count) \ {v.last}
            BY <1>9, <1>10, <5>1, <6>1, <6>3 DEF Unless
          <6> QED
            BY <1>1, <1>10, <6>1, <6>2, <6>3, <6>4, <6>5, <6>6 DEF Given, Closing
        <5>4. CASE D!leaveCallback
          <6>1. /\ e.kind = "leave" /\ dragOffer' = 0
                /\ mimeTypes' = D!Without({dragOffer}) /\ UNCHANGED <<lastOffer, selectionOffer>>
            BY <1>2, <5>4 DEF D!leaveCallback, D!Takes, D!None
          <6>2. /\ v.count = u.count /\ v.last = u.last /\ v.selection = u.selection
                /\ v.drag = 0
            BY <2>3, <6>1 DEF OfferAfter, View
          <6>3. /\ DOMAIN mimeTypes' = DOMAIN mimeTypes \ {dragOffer}
                /\ \A x \in DOMAIN mimeTypes' : mimeTypes'[x] = mimeTypes[x]
            BY <5>2, <6>1
          <6>4. DOMAIN mimeTypes' = ({lastOffer', selectionOffer', dragOffer'} \cup users) \ {0}
            BY <1>10, <5>1, <6>1, <6>3
          <6>5. dragOffer' = Unless(v.drag, taken) /\ taken \subseteq (1 .. v.count) \ {v.last}
            BY <1>10, <6>1, <6>2 DEF Unless
          <6> QED
            BY <1>1, <1>10, <6>1, <6>2, <6>3, <6>4, <6>5 DEF Given
        <5>5. CASE D!dropCallback
          <6>1. e.kind = "drop" /\ UNCHANGED <<lastOffer, selectionOffer, dragOffer, mimeTypes>>
            BY <1>2, <5>5 DEF D!dropCallback, D!Takes
          <6>2. v = u
            BY <2>3, <6>1 DEF OfferAfter
          <6> QED
            BY <1>1, <1>10, <6>1, <6>2 DEF Given
        <5>6. CASE D!selectionCallback
          <6>1. /\ e.kind = "selection" /\ mimeTypes' = D!Without({selectionOffer})
                /\ UNCHANGED dragOffer
                /\ IF e.offer = 0 THEN selectionOffer' = 0 /\ lastOffer' = lastOffer
                   ELSE selectionOffer' = lastOffer /\ lastOffer' = 0
            BY <1>2, <5>6 DEF D!selectionCallback, D!Takes, D!None
          <6>2. e.offer = u.last \/ e.offer = 0
            BY <2>4, <6>1 DEF MayCome
          <6>3. /\ v.count = u.count /\ v.last = (IF e.offer = 0 THEN u.last ELSE 0)
                /\ v.selection = e.offer /\ v.drag = u.drag
            BY <2>3, <6>1 DEF OfferAfter, View
          <6>4. /\ DOMAIN mimeTypes' = DOMAIN mimeTypes \ {selectionOffer}
                /\ \A x \in DOMAIN mimeTypes' : mimeTypes'[x] = mimeTypes[x]
            BY <5>2, <6>1
          <6>5. DOMAIN mimeTypes' = ({lastOffer', selectionOffer', dragOffer'} \cup users) \ {0}
            <7>1. DOMAIN mimeTypes = ({lastOffer, selectionOffer, dragOffer} \cup users) \ {0}
              BY <1>10
            <7>2. CASE selectionOffer' = 0 /\ lastOffer' = lastOffer
              BY <5>1, <6>1, <6>4, <7>1, <7>2
            <7>3. CASE selectionOffer' = lastOffer /\ lastOffer' = 0
              BY <5>1, <6>1, <6>4, <7>1, <7>3
            <7> QED
              BY <6>1, <7>2, <7>3
          <6>6. /\ selectionOffer' = Unless(v.selection, taken) /\ lastOffer' = v.last
                /\ taken \subseteq (1 .. v.count) \ {v.last}
            BY <1>9, <1>10, <5>1, <6>1, <6>2, <6>3 DEF Unless
          <6> QED
            BY <1>1, <1>10, <6>1, <6>2, <6>3, <6>4, <6>5, <6>6 DEF Given, Closing
        <5> QED
          BY <1>14, <3>2, <5>3, <5>4, <5>5, <5>6
      <4>2. \A o \in DOMAIN mimeTypes' :
              /\ mimeTypes'[o] \subseteq dataServer.types[o] \cap KnownTypes
              /\ \A t \in dataServer.types[o] \cap KnownTypes :
                   t \in mimeTypes'[o] \/ IsComing(o, t)'
        BY <1>11, <2>5, <4>1
      <4>3. \A o \in DOMAIN dataServer.types :
              o > v.count => \A t \in dataServer.types[o] : IsComing(o, t)'
        BY <1>11, <2>2, <2>5, <4>1
      <4>4. \A i \in DOMAIN dataEvents' : dataEvents'[i].kind = "offer" =>
              /\ dataEvents'[i].offer \in DOMAIN dataServer.types
              /\ dataEvents'[i].type \in dataServer.types[dataEvents'[i].offer]
              /\ dataEvents'[i].offer = v.last \/ dataEvents'[i].offer > v.count
        BY <2>6, <4>1
      <4> QED
        BY <1>1, <1>11, <4>1, <4>2, <4>3, <4>4 DEF TypesArrive
    <3> QED
      BY <3>1, <3>2
  <2> QED
    BY <1>1, <1>3, <1>5, <1>7, <2>2, <2>3, <2>4, <2>7 DEF OffersInv
<1> QED
  BY <1>13, <1>14

\* The device is released or destroyed: only events for the offers are still taken.
LEMMA OffersEnded == ASSUME OffersInv, D!End PROVE OffersInv'
<1> DEFINE places == {i \in DOMAIN dataEvents : dataEvents[i].kind = "offer"}
<1>1. /\ dataDevice = "valid" /\ dataDevice' = "ended"
      /\ dataEvents' = Kept(dataEvents, places)
      /\ UNCHANGED <<dataServer, lastOffer, selectionOffer, dragOffer, users, taken, mimeTypes>>
  BY OffersKeptIs DEF D!End
<1>2. /\ dataServer \in [types : Seq(SUBSET Types), selection : Nat, dragOffer : Nat,
                         drag : D!Drags]
      /\ dataEvents \in Seq(OfferEvents)
  BY DEF OffersInv
<1>3. PICK u \in OfferViews : Given(u) /\ TypesArrive(u)
  BY DEF OffersInv
<1>4. \A k \in places : k \in DOMAIN dataEvents /\ dataEvents[k].kind = "offer"
  OBVIOUS
<1>5. \A k \in DOMAIN dataEvents : dataEvents[k].kind = "offer" => k \in places
  OBVIOUS
<1>6. places \in SUBSET DOMAIN dataEvents
  OBVIOUS
<1> HIDE DEF places
<1> DEFINE n == Cardinality(places)
<1>7. PICK f \in [1 .. n -> places] :
        /\ dataEvents' \in Seq(OfferEvents) /\ Len(dataEvents') = n /\ n \in Nat
        /\ \A k \in places : \E i \in 1 .. n : f[i] = k
        /\ \A i \in 1 .. n : dataEvents'[i] = dataEvents[f[i]]
  <2>1. /\ Kept(dataEvents, places) \in Seq(OfferEvents)
        /\ Len(Kept(dataEvents, places)) = n /\ n \in Nat
        /\ \E f : /\ Enumerates(f, places)
                  /\ \A i \in 1 .. n : Kept(dataEvents, places)[i] = dataEvents[f[i]]
    BY <1>2, <1>6, KeptFacts
  <2>2. PICK f : /\ Enumerates(f, places)
                 /\ \A i \in 1 .. n : dataEvents'[i] = dataEvents[f[i]]
    BY <1>1, <2>1
  <2>3. f \in [1 .. n -> places] /\ \A k \in places : \E i \in 1 .. n : f[i] = k
    BY <2>2 DEF Enumerates
  <2> QED
    BY <1>1, <2>1, <2>2, <2>3
<1> HIDE DEF n
<1>8. DOMAIN dataEvents' = 1 .. n
  BY <1>7
<1>9. \A i \in DOMAIN dataEvents' :
        /\ f[i] \in DOMAIN dataEvents /\ dataEvents'[i] = dataEvents[f[i]]
        /\ dataEvents'[i].kind = "offer"
  BY <1>4, <1>7, <1>8
<1>10. TypesFirst'
  BY <1>9 DEF TypesFirst, Closing, Naming
<1>11. \A o, t : IsComing(o, t) => IsComing(o, t)'
  <2> SUFFICES ASSUME NEW o, NEW t, IsComing(o, t) PROVE IsComing(o, t)'
    OBVIOUS
  <2>1. PICK k \in DOMAIN dataEvents :
          dataEvents[k].kind = "offer" /\ dataEvents[k].offer = o /\ dataEvents[k].type = t
    BY DEF IsComing
  <2>2. PICK i \in DOMAIN dataEvents' : dataEvents'[i] = dataEvents[k]
    BY <1>5, <1>7, <1>8, <2>1
  <2> QED
    BY <2>1, <2>2 DEF IsComing
<1>12. TypesArrive(u)'
  BY <1>1, <1>3, <1>9, <1>11 DEF TypesArrive
<1>13. Given(u)'
  BY <1>1, <1>3 DEF Given
<1> QED
  BY <1>1, <1>2, <1>7, <1>9, <1>10, <1>12, <1>13 DEF OffersInv

LEMMA OffersStep == ASSUME OffersInv, D!Next PROVE OffersInv'
BY OffersUsed, OffersOne, OffersAnnounced, OffersTaken, OffersEnded DEF D!Next

LEMMA OffersQuiet == ASSUME OffersInv, UNCHANGED dataVars PROVE OffersInv'
<1>1. UNCHANGED <<dataServer, dataEvents, dataDevice, lastOffer, selectionOffer, dragOffer,
                  users, taken, mimeTypes>>
  BY DEF dataVars
<1>2. \A u \in OfferViews : Given(u) => Given(u)'
  BY <1>1 DEF Given
<1> QED
  BY <1>1, <1>2, OffersKeep

\* What the invariant says is what the property says.
LEMMA OffersFit == OffersInv => D!OffersFollow
<1> SUFFICES ASSUME OffersInv PROVE D!OffersFollow
  OBVIOUS
<1>1. PICK u \in OfferViews :
        /\ IF dataDevice = "ended"
           THEN \A i \in DOMAIN dataEvents : dataEvents[i].kind = "offer"
           ELSE Leads(OfferViews, OfferMoves, u, dataEvents, Offered)
        /\ Given(u) /\ TypesArrive(u)
  BY DEF OffersInv
<1>2. /\ u \in [count : Nat, last : Nat, selection : Nat, drag : Nat]
      /\ u.last <= u.count /\ u.selection <= u.count /\ u.drag <= u.count
      /\ u.last = u.selection \/ u.last = u.drag => u.last = 0
      /\ u.selection = u.drag => u.selection = 0
  BY DEF OfferViews
<1>3. /\ lastOffer = u.last /\ selectionOffer = Unless(u.selection, taken)
      /\ dragOffer = Unless(u.drag, taken)
      /\ users \subseteq taken /\ taken \subseteq (1 .. u.count) \ {u.last}
      /\ DOMAIN mimeTypes = ({lastOffer, selectionOffer, dragOffer} \cup users) \ {0}
  BY <1>1 DEF Given
<1>4. dataDevice = "valid" /\ dataEvents = <<>> =>
        /\ selectionOffer = IF dataServer.selection \in taken THEN 0 ELSE dataServer.selection
        /\ dragOffer = IF dataServer.dragOffer \in taken THEN 0 ELSE dataServer.dragOffer
  <2> SUFFICES ASSUME dataDevice = "valid", dataEvents = <<>>
               PROVE  /\ selectionOffer = Unless(dataServer.selection, taken)
                      /\ dragOffer = Unless(dataServer.dragOffer, taken)
    BY DEF Unless
  <2>1. u = Offered
    <3> HIDE DEF Offered
    <3> QED
      BY <1>1, LeadsNowhere
  <2> QED
    BY <1>3, <2>1 DEF Offered
<1>5. ASSUME NEW o \in {selectionOffer, dragOffer} \cup users, o # 0
      PROVE  mimeTypes[o] = dataServer.types[o] \cap KnownTypes
  <2>1. o \in DOMAIN mimeTypes
    BY <1>3, <1>5
  <2>2. o # u.last /\ o \in Nat /\ o <= u.count
    BY <1>2, <1>3, <1>5 DEF Unless
  <2>3. \A t : ~IsComing(o, t)
    <3>1. \A i \in DOMAIN dataEvents : dataEvents[i].kind = "offer" => dataEvents[i].offer # o
      BY <1>1, <1>2, <2>2 DEF TypesArrive
    <3> QED
      BY <3>1 DEF IsComing
  <2> QED
    BY <1>1, <2>1, <2>3 DEF TypesArrive
<1>6. ASSUME NEW o \in DOMAIN mimeTypes
      PROVE  D!Cardinality({h \in {<<"last", lastOffer>>, <<"selection", selectionOffer>>,
                                 <<"drag", dragOffer>>} : h[2] = o})
               + (IF o \in users THEN 1 ELSE 0) = 1
  <2> DEFINE owners == {h \in {<<"last", lastOffer>>, <<"selection", selectionOffer>>,
                               <<"drag", dragOffer>>} : h[2] = o}
  <2>1. /\ o # 0 /\ o \in {lastOffer, selectionOffer, dragOffer} \cup users
        /\ 0 \notin taken /\ \A x \in users : x # lastOffer /\ x # selectionOffer /\ x # dragOffer
        /\ lastOffer = selectionOffer \/ lastOffer = dragOffer => lastOffer = 0
        /\ selectionOffer = dragOffer => selectionOffer = 0
    BY <1>2, <1>3 DEF Unless
  <2>2. CASE o \in users
    <3>1. owners = {}
      BY <2>1, <2>2
    <3> HIDE DEF owners
    <3>2. D!Cardinality(owners) = 0
      BY <3>1, FS_EmptySet DEF D!Cardinality, Cardinality
    <3> QED
      BY <2>2, <3>2 DEF owners
  <2>3. CASE o \notin users
    <3>1. \E h : owners = {h}
      <4>1. CASE o = lastOffer
        <5>1. owners = {<<"last", lastOffer>>}
          BY <2>1, <4>1
        <5> QED
          BY <5>1
      <4>2. CASE o = selectionOffer
        <5>1. owners = {<<"selection", selectionOffer>>}
          BY <2>1, <4>2
        <5> QED
          BY <5>1
      <4>3. CASE o = dragOffer
        <5>1. owners = {<<"drag", dragOffer>>}
          BY <2>1, <4>3
        <5> QED
          BY <5>1
      <4> QED
        BY <2>1, <2>3, <4>1, <4>2, <4>3
    <3> HIDE DEF owners
    <3>2. Cardinality(owners) = 1
      BY <3>1, FS_Singleton
    <3>3. D!Cardinality(owners) = Cardinality(owners)
      BY DEF D!Cardinality, Cardinality
    <3> QED
      BY <2>3, <3>2, <3>3 DEF owners
  <2> QED
    BY <2>2, <2>3
<1> QED
  BY <1>3, <1>4, <1>5, <1>6 DEF D!OffersFollow, D!None

OffersLooked == component = "DataDevice" => OffersInv

LEMMA OffersStart == Init => OffersLooked
BY OffersInit DEF Init, OffersLooked

LEMMA OffersGoOn == OffersLooked /\ [Next]_vars => OffersLooked'
<1> SUFFICES ASSUME OffersLooked, [Next]_vars, component' = "DataDevice"
             PROVE  OffersInv'
  BY DEF OffersLooked
<1>1. component = "DataDevice" /\ (D!Next \/ UNCHANGED dataVars)
  BY DEF Next, ViewsNext, vars
<1>2. OffersInv
  BY <1>1 DEF OffersLooked
<1> QED
  BY <1>1, <1>2, OffersStep, OffersQuiet

\* With nothing on its way a device has the offers the compositor has given it and the
\* user has not taken; an offer has all its known types when it can be seen, and one
\* owner, however selections and drags were mixed and whenever the device was released.
THEOREM OffersAreFollowed == Spec => []OffersFollow
<1>1. OffersLooked => OffersFollow
  BY OffersFit DEF OffersLooked, OffersFollow
<1> QED
  BY <1>1, OffersStart, OffersGoOn, PTL DEF Spec

-----------------------------------------------------------------------------
(* XdgShell: what the compositor reads in the requests of a step.          *)

\* A request of this name has this value, if there is one.
OnlySays(w, name, value) ==
  \A i \in DOMAIN w : w[i].request = name => w[i].value = value
Says(w, name) == \E i \in DOMAIN w : w[i].request = name
Requests(w) == \E set : w \in Seq(set)

LEMMA RequestsJoined ==
  ASSUME NEW s, NEW t, Requests(s), Requests(t)
  PROVE  /\ Requests(s \o t)
         /\ \A name, value : OnlySays(s, name, value) /\ OnlySays(t, name, value)
                               => OnlySays(s \o t, name, value)
         /\ \A name : Says(s, name) \/ Says(t, name) => Says(s \o t, name)
<1>1. PICK S1 : s \in Seq(S1)
  BY DEF Requests
<1>2. PICK S2 : t \in Seq(S2)
  BY DEF Requests
<1> DEFINE set == S1 \cup S2
           all == s \o t
<1>3. s \in Seq(set) /\ t \in Seq(set)
  <2>1. /\ s \in [1 .. Len(s) -> S1] /\ Len(s) \in Nat
        /\ t \in [1 .. Len(t) -> S2] /\ Len(t) \in Nat
    BY <1>1, <1>2
  <2>2. s \in [1 .. Len(s) -> set] /\ t \in [1 .. Len(t) -> set]
    BY <2>1
  <2> HIDE DEF set
  <2> QED
    BY <2>1, <2>2
<1> HIDE DEF set
<1>4. /\ all \in Seq(set)
      /\ DOMAIN s = 1 .. Len(s) /\ DOMAIN t = 1 .. Len(t) /\ Len(s) \in Nat /\ Len(t) \in Nat
      /\ DOMAIN all = 1 .. Len(s) + Len(t)
      /\ \A k \in 1 .. Len(s) : all[k] = s[k]
      /\ \A k \in 1 .. Len(t) : all[Len(s) + k] = t[k]
  BY <1>3
<1> HIDE DEF all
<1>5. ASSUME NEW i \in DOMAIN all
      PROVE  \/ i \in DOMAIN s /\ all[i] = s[i]
             \/ \E k \in DOMAIN t : all[i] = t[k]
  <2>1. CASE i <= Len(s)
    BY <1>4, <2>1
  <2>2. CASE ~(i <= Len(s))
    <3>1. i - Len(s) \in 1 .. Len(t) /\ Len(s) + (i - Len(s)) = i
      BY <1>4, <2>2
    <3> QED
      BY <1>4, <3>1
  <2> QED
    BY <2>1, <2>2
<1>6. /\ \A k \in DOMAIN s : k \in DOMAIN all
      /\ \A k \in DOMAIN t : Len(s) + k \in DOMAIN all
  BY <1>4
<1>7. Requests(all)
  BY <1>4 DEF Requests
<1>8. ASSUME NEW name, NEW value, OnlySays(s, name, value), OnlySays(t, name, value)
      PROVE  OnlySays(all, name, value)
  BY <1>5, <1>8 DEF OnlySays
<1>9. ASSUME NEW name, Says(s, name) \/ Says(t, name) PROVE Says(all, name)
  BY <1>4, <1>6, <1>9 DEF Says
<1> QED
  BY <1>7, <1>8, <1>9 DEF all

\* A request that is only sent when it is not the default.
LEMMA RequestUnless ==
  ASSUME NEW default, NEW name, NEW value
  PROVE  LET w == X!Unless(default, name, value)
         IN  /\ Requests(w) /\ OnlySays(w, name, value)
             /\ value # default => Says(w, name)
             /\ \A other, v : other # name => OnlySays(w, other, v)
<1> DEFINE r == [request |-> name, value |-> value]
           w == X!Unless(default, name, value)
<1>1. \/ w = <<>> /\ value = default
      \/ w = <<r>> /\ value # default
  BY DEF X!Unless, X!Request
<1>2. r.request = name /\ r.value = value
  OBVIOUS
<1>3. w = <<>> => Requests(w) /\ DOMAIN w = {}
  BY DEF Requests
<1> HIDE DEF r
<1>4. w = <<r>> => w \in Seq({r}) /\ DOMAIN w = {1} /\ w[1] = r
  <2> HIDE DEF w
  <2> QED
    OBVIOUS
<1> HIDE DEF w
<1>5. Requests(w)
  BY <1>1, <1>3, <1>4 DEF Requests
<1>6. OnlySays(w, name, value) /\ \A other, v : other # name => OnlySays(w, other, v)
  BY <1>1, <1>2, <1>3, <1>4 DEF OnlySays
<1>7. value # default => Says(w, name)
  BY <1>1, <1>2, <1>4 DEF Says
<1> QED
  BY <1>5, <1>6, <1>7 DEF w

\* The compositor reads the value, or takes the default.
LEMMA RequestRead ==
  ASSUME NEW name, NEW value, NEW default,
         OnlySays(wire', name, value), value = default \/ Says(wire', name)
  PROVE  X!Read(name, default)' = value
<1> DEFINE at == {i \in DOMAIN wire' : wire'[i].request = name}
<1>1. at # {} => (CHOOSE i \in at : TRUE) \in at
  OBVIOUS
<1>2. X!Read(name, default)' =
        IF at = {} THEN default ELSE wire'[CHOOSE i \in at : TRUE].value
  BY DEF X!Read
<1>3. at # {} => wire'[CHOOSE i \in at : TRUE].value = value
  BY <1>1 DEF OnlySays
<1>4. at = {} => value = default
  BY DEF Says
<1> QED
  BY <1>2, <1>3, <1>4

\* Each set of edges has the name that means it, or none.
LEMMA EdgeNames ==
  ASSUME NEW e \in SUBSET X!Edges
  PROVE  X!MeaningOf[X!EdgeName(e)] = X!Meant(e)
<1> DEFINE t == "Top" \in e
           b == "Bottom" \in e
           l == "Left" \in e
           r == "Right" \in e
<1>1. \A d \in e : d = "Top" \/ d = "Bottom" \/ d = "Left" \/ d = "Right"
  BY DEF X!Edges
<1>2. /\ (e \ {"Left"} = {"Top"}) <=> (t /\ ~b /\ ~r)
      /\ (e \ {"Right"} = {"Top"}) <=> (t /\ ~b /\ ~l)
      /\ (e \ {"Top"} = {}) <=> (~b /\ ~l /\ ~r)
      /\ (e \ {"Left"} = {"Bottom"}) <=> (b /\ ~t /\ ~r)
      /\ (e \ {"Right"} = {"Bottom"}) <=> (b /\ ~t /\ ~l)
      /\ (e \ {"Bottom"} = {}) <=> (~t /\ ~l /\ ~r)
      /\ (e \ {"Right"} = {}) <=> (~t /\ ~b /\ ~l)
      /\ (e \ {"Left"} = {}) <=> (~t /\ ~b /\ ~r)
  <2>1. (e \ {"Left"} = {"Top"}) <=> (t /\ ~b /\ ~r)
    BY <1>1
  <2>2. (e \ {"Right"} = {"Top"}) <=> (t /\ ~b /\ ~l)
    BY <1>1
  <2>3. (e \ {"Top"} = {}) <=> (~b /\ ~l /\ ~r)
    BY <1>1
  <2>4. (e \ {"Left"} = {"Bottom"}) <=> (b /\ ~t /\ ~r)
    BY <1>1
  <2>5. (e \ {"Right"} = {"Bottom"}) <=> (b /\ ~t /\ ~l)
    BY <1>1
  <2>6. (e \ {"Bottom"} = {}) <=> (~t /\ ~l /\ ~r)
    BY <1>1
  <2>7. (e \ {"Right"} = {}) <=> (~t /\ ~b /\ ~l)
    BY <1>1
  <2>8. (e \ {"Left"} = {}) <=> (~t /\ ~b /\ ~r)
    BY <1>1
  <2> QED
    BY <2>1, <2>2, <2>3, <2>4, <2>5, <2>6, <2>7, <2>8
<1>3. X!Opposite(e) <=> ((t /\ b) \/ (l /\ r))
  BY DEF X!Opposite
<1>4. /\ ~t /\ ~b /\ ~l /\ ~r => e = {}
      /\ t /\ ~b /\ ~l /\ ~r => e = {"Top"}
      /\ ~t /\ b /\ ~l /\ ~r => e = {"Bottom"}
      /\ ~t /\ ~b /\ l /\ ~r => e = {"Left"}
      /\ ~t /\ ~b /\ ~l /\ r => e = {"Right"}
      /\ t /\ ~b /\ l /\ ~r => e = {"Top", "Left"}
      /\ t /\ ~b /\ ~l /\ r => e = {"Top", "Right"}
      /\ ~t /\ b /\ l /\ ~r => e = {"Bottom", "Left"}
      /\ ~t /\ b /\ ~l /\ r => e = {"Bottom", "Right"}
  BY DEF X!Edges
<1>5. X!EdgeName(e) =
        IF (t /\ b) \/ (l /\ r) THEN "none"
        ELSE IF t THEN IF l THEN "top_left" ELSE IF r THEN "top_right" ELSE "top"
        ELSE IF b THEN IF l THEN "bottom_left" ELSE IF r THEN "bottom_right" ELSE "bottom"
        ELSE IF r THEN "right" ELSE IF l THEN "left" ELSE "none"
  <2>1. t => X!EdgeName(e) = X!OnSide(e, "Top", "top_left", "top_right", "top")
    BY DEF X!EdgeName
  <2>2. ~t /\ b => X!EdgeName(e) = X!OnSide(e, "Bottom", "bottom_left", "bottom_right", "bottom")
    BY DEF X!EdgeName
  <2>3. ~t /\ ~b => X!EdgeName(e) =
          IF r /\ e \ {"Right"} = {} THEN "right"
          ELSE IF l /\ e \ {"Left"} = {} THEN "left" ELSE "none"
    BY DEF X!EdgeName
  <2>4. t => X!OnSide(e, "Top", "top_left", "top_right", "top") =
               IF b \/ (l /\ r) THEN "none"
               ELSE IF l THEN "top_left" ELSE IF r THEN "top_right" ELSE "top"
    BY <1>2 DEF X!OnSide
  <2>5. ~t /\ b => X!OnSide(e, "Bottom", "bottom_left", "bottom_right", "bottom") =
               IF l /\ r THEN "none"
               ELSE IF l THEN "bottom_left" ELSE IF r THEN "bottom_right" ELSE "bottom"
    BY <1>2 DEF X!OnSide
  <2> HIDE DEF t, b, l, r
  <2>6. CASE t
    BY <2>1, <2>4, <2>6
  <2>7. CASE ~t /\ b
    BY <2>2, <2>5, <2>7
  <2>8. CASE ~t /\ ~b
    BY <1>2, <2>3, <2>8
  <2> QED
    BY <2>6, <2>7, <2>8
<1>6. X!Meant(e) = IF (t /\ b) \/ (l /\ r) THEN {} ELSE e
  BY <1>3 DEF X!Meant
<1>7. /\ X!MeaningOf["none"] = {} /\ X!MeaningOf["top"] = {"Top"}
      /\ X!MeaningOf["bottom"] = {"Bottom"} /\ X!MeaningOf["left"] = {"Left"}
      /\ X!MeaningOf["right"] = {"Right"} /\ X!MeaningOf["top_left"] = {"Top", "Left"}
      /\ X!MeaningOf["top_right"] = {"Top", "Right"}
      /\ X!MeaningOf["bottom_left"] = {"Bottom", "Left"}
      /\ X!MeaningOf["bottom_right"] = {"Bottom", "Right"}
  BY DEF X!MeaningOf
<1> HIDE DEF t, b, l, r
<1>8. CASE (t /\ b) \/ (l /\ r)
  BY <1>5, <1>6, <1>7, <1>8
<1>9. CASE ~((t /\ b) \/ (l /\ r))
  BY <1>4, <1>5, <1>6, <1>7, <1>9
<1> QED
  BY <1>8, <1>9

\* The bits of the edges are those of the flags.
LEMMA EdgeBits ==
  ASSUME NEW e \in SUBSET X!Edges
  PROVE  {d \in X!Edges : (X!BitsV6(e) \div X!Bit[d]) % 2 = 1} = e
<1> DEFINE t == IF "Top" \in e THEN 1 ELSE 0
           b == IF "Bottom" \in e THEN 1 ELSE 0
           l == IF "Left" \in e THEN 1 ELSE 0
           r == IF "Right" \in e THEN 1 ELSE 0
           sum == 4 * l + t + 8 * r + 2 * b
<1>1. /\ X!Bit["Top"] = 1 /\ X!Bit["Bottom"] = 2 /\ X!Bit["Left"] = 4 /\ X!Bit["Right"] = 8
  BY DEF X!Bit
<1>2. X!BitsV6(e) = sum
  BY <1>1 DEF X!BitsV6
<1>3. t \in {0, 1} /\ b \in {0, 1} /\ l \in {0, 1} /\ r \in {0, 1}
  OBVIOUS
<1>4. /\ (sum \div 1) % 2 = t /\ (sum \div 2) % 2 = b
      /\ (sum \div 4) % 2 = l /\ (sum \div 8) % 2 = r
  <2> HIDE DEF t, b, l, r
  <2> QED
    BY <1>3
<1> HIDE DEF sum
<1>5. ASSUME NEW d \in X!Edges PROVE (X!BitsV6(e) \div X!Bit[d]) % 2 = 1 <=> d \in e
  <2>1. d \in {"Top", "Bottom", "Left", "Right"}
    BY DEF X!Edges
  <2> QED
    BY <1>1, <1>2, <1>4, <2>1
<1> QED
  BY <1>5

\* The requests of a popup in both protocols that have them, and what they say.
PopupWire(rect, extent, offset, none, anchor, gravity, constraints) ==
  <<X!Request("get_xdg_surface", {}), X!Request("create_positioner", {}),
    X!Request("set_anchor_rect", rect), X!Request("set_size", extent)>>
    \o X!Unless(X!Null, "set_offset", offset)
    \o X!Unless(none, "set_anchor", anchor)
    \o X!Unless(none, "set_gravity", gravity)
    \o X!Unless({}, "set_constraint_adjustment", constraints)
    \o <<X!Request("get_popup", {}), X!Request("destroy_positioner", {})>>

PopupSays(w, rect, extent, offset, none, anchor, gravity, constraints) ==
  /\ OnlySays(w, "set_size", extent) /\ Says(w, "set_size")
  /\ OnlySays(w, "set_anchor_rect", rect) /\ Says(w, "set_anchor_rect")
  /\ OnlySays(w, "set_offset", offset)
  /\ offset = X!Null \/ Says(w, "set_offset")
  /\ OnlySays(w, "set_anchor", anchor)
  /\ anchor = none \/ Says(w, "set_anchor")
  /\ OnlySays(w, "set_gravity", gravity)
  /\ gravity = none \/ Says(w, "set_gravity")
  /\ OnlySays(w, "set_constraint_adjustment", constraints)
  /\ constraints = {} \/ Says(w, "set_constraint_adjustment")

LEMMA PopupRequests ==
  ASSUME NEW rect, NEW extent, NEW offset, NEW none, NEW anchor, NEW gravity,
         NEW constraints
  PROVE  PopupSays(PopupWire(rect, extent, offset, none, anchor, gravity, constraints),
                   rect, extent, offset, none, anchor, gravity, constraints)
<1> DEFINE a == <<X!Request("get_xdg_surface", {}), X!Request("create_positioner", {}),
                  X!Request("set_anchor_rect", rect), X!Request("set_size", extent)>>
           b == X!Unless(X!Null, "set_offset", offset)
           c == X!Unless(none, "set_anchor", anchor)
           d == X!Unless(none, "set_gravity", gravity)
           e == X!Unless({}, "set_constraint_adjustment", constraints)
           f == <<X!Request("get_popup", {}), X!Request("destroy_positioner", {})>>
           ab == a \o b
           abc == ab \o c
           abcd == abc \o d
           abcde == abcd \o e
           w == PopupWire(rect, extent, offset, none, anchor, gravity, constraints)
<1>1. w = abcde \o f
  BY DEF PopupWire
<1> HIDE DEF w
<1>2. /\ DOMAIN a = 1 .. 4 /\ a[1].request = "get_xdg_surface"
      /\ a[2].request = "create_positioner"
      /\ a[3].request = "set_anchor_rect" /\ a[3].value = rect
      /\ a[4].request = "set_size" /\ a[4].value = extent
  BY DEF X!Request
<1>3. DOMAIN f = 1 .. 2 /\ f[1].request = "get_popup" /\ f[2].request = "destroy_positioner"
  BY DEF X!Request
<1>4. Requests(a)
  <2>1. a \in Seq({X!Request("get_xdg_surface", {}), X!Request("create_positioner", {}),
                  X!Request("set_anchor_rect", rect), X!Request("set_size", extent)})
    OBVIOUS
  <2> QED
    BY <2>1 DEF Requests
<1>5. Requests(f)
  <2>1. f \in Seq({X!Request("get_popup", {}), X!Request("destroy_positioner", {})})
    OBVIOUS
  <2> QED
    BY <2>1 DEF Requests
<1>6. /\ Requests(b) /\ OnlySays(b, "set_offset", offset)
      /\ offset # X!Null => Says(b, "set_offset")
      /\ \A other, v : other # "set_offset" => OnlySays(b, other, v)
  BY RequestUnless
<1>7. /\ Requests(c) /\ OnlySays(c, "set_anchor", anchor)
      /\ anchor # none => Says(c, "set_anchor")
      /\ \A other, v : other # "set_anchor" => OnlySays(c, other, v)
  BY RequestUnless
<1>8. /\ Requests(d) /\ OnlySays(d, "set_gravity", gravity)
      /\ gravity # none => Says(d, "set_gravity")
      /\ \A other, v : other # "set_gravity" => OnlySays(d, other, v)
  BY RequestUnless
<1>9. /\ Requests(e) /\ OnlySays(e, "set_constraint_adjustment", constraints)
      /\ constraints # {} => Says(e, "set_constraint_adjustment")
      /\ \A other, v : other # "set_constraint_adjustment" => OnlySays(e, other, v)
  BY RequestUnless
<1> HIDE DEF a, b, c, d, e, f
<1>10. /\ OnlySays(a, "set_size", extent) /\ Says(a, "set_size")
       /\ OnlySays(a, "set_anchor_rect", rect) /\ Says(a, "set_anchor_rect")
       /\ \A v : /\ OnlySays(a, "set_offset", v) /\ OnlySays(a, "set_anchor", v)
                 /\ OnlySays(a, "set_gravity", v)
                 /\ OnlySays(a, "set_constraint_adjustment", v)
  <2>1. \A i \in DOMAIN a : i = 1 \/ i = 2 \/ i = 3 \/ i = 4
    BY <1>2
  <2>2. 3 \in DOMAIN a /\ 4 \in DOMAIN a
    BY <1>2
  <2> QED
    BY <1>2, <2>1, <2>2 DEF OnlySays, Says
<1>11. \A v : /\ OnlySays(f, "set_size", v) /\ OnlySays(f, "set_anchor_rect", v)
              /\ OnlySays(f, "set_offset", v) /\ OnlySays(f, "set_anchor", v)
              /\ OnlySays(f, "set_gravity", v)
              /\ OnlySays(f, "set_constraint_adjustment", v)
  <2>1. \A i \in DOMAIN f : i = 1 \/ i = 2
    BY <1>3
  <2> QED
    BY <1>3, <2>1 DEF OnlySays
<1>12. /\ Requests(ab)
       /\ \A name, v : OnlySays(a, name, v) /\ OnlySays(b, name, v) => OnlySays(ab, name, v)
       /\ \A name : Says(a, name) \/ Says(b, name) => Says(ab, name)
  BY <1>4, <1>6, RequestsJoined
<1> HIDE DEF ab
<1>13. /\ Requests(abc)
       /\ \A name, v : OnlySays(ab, name, v) /\ OnlySays(c, name, v) => OnlySays(abc, name, v)
       /\ \A name : Says(ab, name) \/ Says(c, name) => Says(abc, name)
  BY <1>7, <1>12, RequestsJoined
<1> HIDE DEF abc
<1>14. /\ Requests(abcd)
       /\ \A name, v : OnlySays(abc, name, v) /\ OnlySays(d, name, v) => OnlySays(abcd, name, v)
       /\ \A name : Says(abc, name) \/ Says(d, name) => Says(abcd, name)
  BY <1>8, <1>13, RequestsJoined
<1> HIDE DEF abcd
<1>15. /\ Requests(abcde)
       /\ \A name, v : OnlySays(abcd, name, v) /\ OnlySays(e, name, v) => OnlySays(abcde, name, v)
       /\ \A name : Says(abcd, name) \/ Says(e, name) => Says(abcde, name)
  BY <1>9, <1>14, RequestsJoined
<1> HIDE DEF abcde
<1>16. /\ \A name, v : OnlySays(abcde, name, v) /\ OnlySays(f, name, v) => OnlySays(w, name, v)
       /\ \A name : Says(abcde, name) => Says(w, name)
  BY <1>1, <1>5, <1>15, RequestsJoined
<1>17. \A name, v : /\ OnlySays(a, name, v) /\ OnlySays(b, name, v) /\ OnlySays(c, name, v)
                    /\ OnlySays(d, name, v) /\ OnlySays(e, name, v) /\ OnlySays(f, name, v)
                    => OnlySays(w, name, v)
  BY <1>12, <1>13, <1>14, <1>15, <1>16
<1>18. \A name : \/ Says(a, name) \/ Says(b, name) \/ Says(c, name) \/ Says(d, name)
                 \/ Says(e, name)
                 => Says(w, name)
  BY <1>12, <1>13, <1>14, <1>15, <1>16
<1>19. /\ "set_size" # "set_offset" /\ "set_size" # "set_anchor" /\ "set_size" # "set_gravity"
       /\ "set_size" # "set_constraint_adjustment"
       /\ "set_anchor_rect" # "set_offset" /\ "set_anchor_rect" # "set_anchor"
       /\ "set_anchor_rect" # "set_gravity"
       /\ "set_anchor_rect" # "set_constraint_adjustment"
       /\ "set_offset" # "set_anchor" /\ "set_offset" # "set_gravity"
       /\ "set_offset" # "set_constraint_adjustment" /\ "set_anchor" # "set_gravity"
       /\ "set_anchor" # "set_constraint_adjustment"
       /\ "set_gravity" # "set_constraint_adjustment"
  OBVIOUS
<1>20. /\ OnlySays(w, "set_size", extent) /\ OnlySays(w, "set_anchor_rect", rect)
       /\ OnlySays(w, "set_offset", offset) /\ OnlySays(w, "set_anchor", anchor)
       /\ OnlySays(w, "set_gravity", gravity)
       /\ OnlySays(w, "set_constraint_adjustment", constraints)
  BY <1>6, <1>7, <1>8, <1>9, <1>10, <1>11, <1>17, <1>19
<1> QED
  BY <1>6, <1>7, <1>8, <1>9, <1>10, <1>18, <1>20 DEF PopupSays, w

LEMMA XdgAsksPopup ==
  ASSUME X!CreatePopup
  PROVE  X!RequestsSayWhatIsMeant'
<1>1. PICK p \in Positioners :
        /\ xdgAsked' = [kind |-> "popup", positioner |-> p]
        /\ wire' = IF xdgVersion = "stable" THEN X!PopupStable(p) ELSE X!PopupV6(p)
  BY DEF X!CreatePopup
<1>2. xdgVersion' = xdgVersion
  BY DEF X!CreatePopup, X!Fresh
<1>3. p.anchorEdge \in SUBSET X!Edges /\ p.gravity \in SUBSET X!Edges
  BY PositionersAssumption
<1> DEFINE none == IF xdgVersion = "stable" THEN "none" ELSE 0
           sends(e) == IF xdgVersion = "stable" THEN X!EdgeName(e) ELSE X!BitsV6(e)
           means(e) == IF xdgVersion = "stable" THEN X!Meant(e) ELSE e
<1>4. PopupSays(wire', p.anchorRect, p.size, p.anchorOffset, none, sends(p.anchorEdge),
                sends(p.gravity), p.constraints)
  <2>1. CASE xdgVersion = "stable"
    <3>1. wire' = X!PopupStable(p)
      BY <1>1, <2>1
    <3>2. /\ none = "none" /\ sends(p.anchorEdge) = X!EdgeName(p.anchorEdge)
          /\ sends(p.gravity) = X!EdgeName(p.gravity)
      BY <2>1
    <3> HIDE DEF none, sends
    <3>3. wire' = PopupWire(p.anchorRect, p.size, p.anchorOffset, none, sends(p.anchorEdge),
                            sends(p.gravity), p.constraints)
      BY <3>1, <3>2 DEF X!PopupStable, PopupWire
    <3> QED
      BY <3>3, PopupRequests
  <2>2. CASE xdgVersion # "stable"
    <3>1. wire' = X!PopupV6(p)
      BY <1>1, <2>2
    <3>2. /\ none = 0 /\ sends(p.anchorEdge) = X!BitsV6(p.anchorEdge)
          /\ sends(p.gravity) = X!BitsV6(p.gravity)
      BY <2>2
    <3> HIDE DEF none, sends
    <3>3. wire' = PopupWire(p.anchorRect, p.size, p.anchorOffset, none, sends(p.anchorEdge),
                            sends(p.gravity), p.constraints)
      BY <3>1, <3>2 DEF X!PopupV6, PopupWire
    <3> QED
      BY <3>3, PopupRequests
  <2> QED
    BY <2>1, <2>2
<1>5. /\ X!Read("set_size", X!Unset)' = p.size
      /\ X!Read("set_anchor_rect", X!Unset)' = p.anchorRect
      /\ X!Read("set_offset", X!Null)' = p.anchorOffset
      /\ X!Read("set_constraint_adjustment", {})' = p.constraints
  BY <1>4, RequestRead DEF PopupSays
<1>6. ASSUME NEW name, NEW e \in SUBSET X!Edges, OnlySays(wire', name, sends(e)),
             sends(e) = none \/ Says(wire', name)
      PROVE  X!ReadEdges(name)' = means(e)
  <2>1. CASE xdgVersion = "stable"
    <3>1. X!Read(name, "none")' = X!EdgeName(e)
      <4>1. OnlySays(wire', name, X!EdgeName(e)) /\ (X!EdgeName(e) = "none" \/ Says(wire', name))
        BY <1>6, <2>1
      <4> QED
        BY <4>1, RequestRead
    <3>2. X!ReadEdges(name)' = X!MeaningOf[X!Read(name, "none")']
      BY <1>2, <2>1 DEF X!ReadEdges
    <3> QED
      BY <2>1, <3>1, <3>2, EdgeNames
  <2>2. CASE xdgVersion # "stable"
    <3>1. X!Read(name, 0)' = X!BitsV6(e)
      <4>1. OnlySays(wire', name, X!BitsV6(e)) /\ (X!BitsV6(e) = 0 \/ Says(wire', name))
        BY <1>6, <2>2
      <4> QED
        BY <4>1, RequestRead
    <3>2. X!ReadEdges(name)' = {d \in X!Edges : (X!Read(name, 0)' \div X!Bit[d]) % 2 = 1}
      BY <1>2, <2>2 DEF X!ReadEdges
    <3> QED
      BY <2>2, <3>1, <3>2, EdgeBits
  <2> QED
    BY <2>1, <2>2
<1>7. X!ReadEdges("set_anchor")' = means(p.anchorEdge) /\ X!ReadEdges("set_gravity")' = means(p.gravity)
  <2> HIDE DEF sends, none, means
  <2> QED
    BY <1>3, <1>4, <1>6 DEF PopupSays
<1>8. xdgAsked'.kind = "popup" /\ xdgAsked'.positioner = p
  BY <1>1
<1> QED
  BY <1>2, <1>5, <1>7, <1>8 DEF X!RequestsSayWhatIsMeant

LEMMA XdgAsksResize ==
  ASSUME X!RequestResize, xdgVersion \in X!Versions
  PROVE  X!RequestsSayWhatIsMeant'
<1>1. PICK e \in SUBSET X!Edges :
        /\ xdgAsked' = [kind |-> "resize", edges |-> e]
        /\ wire' = <<X!Request("resize", X!ResizeEdge(xdgVersion, e))>>
  BY DEF X!RequestResize
<1>2. X!ResizeEdge(xdgVersion, e) = X!EdgeName(e)
  BY DEF X!ResizeEdge, X!Versions, X!Batched, X!ResizeStable, X!ResizeV6, X!ResizeV5,
         X!ResizeWlShell
<1>3. /\ DOMAIN wire' = {1} /\ wire'[1].request = "resize"
      /\ wire'[1].value = X!EdgeName(e)
  BY <1>1, <1>2 DEF X!Request
<1>4. OnlySays(wire', "resize", X!EdgeName(e)) /\ Says(wire', "resize")
  BY <1>3 DEF OnlySays, Says
<1>5. X!Read("resize", "none")' = X!EdgeName(e)
  BY <1>4, RequestRead
<1>6. xdgAsked'.kind = "resize" /\ xdgAsked'.edges = e
  BY <1>1
<1> QED
  BY <1>5, <1>6, EdgeNames DEF X!RequestsSayWhatIsMeant

LEMMA XdgAsks == X!Next /\ xdgVersion \in X!Versions => X!RequestsSayWhatIsMeant'
<1>1. xdgAsked' = X!Idle => X!RequestsSayWhatIsMeant'
  BY DEF X!Idle, X!RequestsSayWhatIsMeant
<1>2. X!Next => xdgAsked' = X!Idle \/ X!CreatePopup \/ X!RequestResize
  BY DEF X!Next, X!CreateToplevel, X!Release, X!ReleasePopup, X!SendRole, X!SendSurface,
         X!SendConfigure, X!configureCallback, X!droppedConfigure,
         X!surfaceConfigureCallback, X!popupConfigureCallback, X!configureCallbackV5,
         X!configureCallbackWlShell, X!Takes, X!Silent
<1> QED
  BY <1>1, <1>2, XdgAsksPopup, XdgAsksResize

-----------------------------------------------------------------------------
(* TextInput: the surrounding text in bytes.                               *)

LEMMA TextJoinedIs == \A list, room : N!Joined(list, room) = Joined(list, room)
<1>1. \A set : N!Cardinality(set) = Cardinality(set)
  BY DEF N!Cardinality, Cardinality
<1>2. \A places, k : N!Rank(places, k) = Rank(places, k)
  BY <1>1 DEF N!Rank, Rank
<1>3. ASSUME NEW s, NEW places PROVE N!Kept(s, places) = Kept(s, places)
  <2>1. N!Kept(s, places) =
          [n \in 1 .. Cardinality(places) |->
             s[CHOOSE k \in places : N!Rank(places, k) = n]]
    BY <1>1 DEF N!Kept
  <2>2. \A n \in 1 .. Cardinality(places) :
          (CHOOSE k \in places : N!Rank(places, k) = n)
            = (CHOOSE k \in places : Rank(places, k) = n)
    BY <1>2
  <2> QED
    BY <2>1, <2>2 DEF Kept
<1> QED
  BY <1>3 DEF N!Joined, Joined

\* The bytes of the first units are the first bytes.
LEMMA JoinedFront ==
  ASSUME NEW l \in Nat, NEW n \in 0 .. l, NEW list, NEW front,
         Len(list) = l, Len(front) = n, \A i \in 1 .. n : front[i] = list[i]
  PROVE  BeginsWith(Joined(list, 4), Joined(front, 4))
<1> DEFINE at(k) == ((k - 1) % 4) + 1
           of(k) == (k + 4 - 1) \div 4
           places == {k \in 1 .. 4 * Len(list) : at(k) <= Len(list[of(k)])}
           below == {k \in 1 .. 4 * Len(front) : at(k) <= Len(front[of(k)])}
           s == [k \in places |-> list[of(k)][at(k)]]
           t == [k \in below |-> front[of(k)][at(k)]]
<1>1. \A k \in 1 .. 4 * n : of(k) \in 1 .. n
  OBVIOUS
<1>2. 4 * l \in Nat /\ 4 * n \in Nat /\ 4 * n <= 4 * l
  OBVIOUS
<1>3. \A k \in 1 .. 4 * n : front[of(k)] = list[of(k)]
  BY <1>1
<1>4. below = {k \in places : k <= 4 * n}
  <2>1. ASSUME NEW k PROVE k \in below <=> k \in places /\ k <= 4 * n
    <3>1. k \in 1 .. 4 * l /\ k <= 4 * n <=> k \in 1 .. 4 * n
      BY <1>2
    <3> HIDE DEF at, of
    <3> QED
      BY <1>3, <3>1
  <2> QED
    BY <2>1
<1>5. \A k \in below : t[k] = s[k]
  <2>1. ASSUME NEW k \in below PROVE t[k] = s[k]
    <3>1. k \in places /\ k \in 1 .. 4 * n
      BY <1>4
    <3> HIDE DEF at, of, places, below
    <3> QED
      BY <1>3, <3>1
  <2> QED
    BY <2>1
<1>6. places \in SUBSET (1 .. 4 * l)
  OBVIOUS
<1>7. BeginsWith(Kept(s, places), Kept(t, below))
  <2> HIDE DEF s, t, places, below
  <2> QED
    BY <1>2, <1>4, <1>5, <1>6, KeptFront
<1> QED
  BY <1>7 DEF Joined

\* The units of a text are a sequence.
LEMMA JoinedInPairs ==
  ASSUME NEW l \in Nat, NEW list, Len(list) = l
  PROVE  \E set : Joined(list, 2) \in Seq(set)
<1> DEFINE at(k) == ((k - 1) % 2) + 1
           of(k) == (k + 2 - 1) \div 2
           places == {k \in 1 .. 2 * Len(list) : at(k) <= Len(list[of(k)])}
           s == [k \in places |-> list[of(k)][at(k)]]
<1>1. 2 * l \in Nat /\ places \in SUBSET (1 .. 2 * l)
  OBVIOUS
<1>2. \E set : Kept(s, places) \in Seq(set)
  <2> HIDE DEF s, places
  <2> QED
    BY <1>1, KeptSomething
<1> QED
  BY <1>2 DEF Joined

\* What is written at the units before an index does not depend on what follows, unless
\* the index is within a pair.
LEMMA TextBefore ==
  ASSUME NEW set, NEW units \in Seq(set), NEW c \in 0 .. Len(units)
  PROVE  \/ N!Splits(units, c)
         \/ BeginsWith(N!toUtf8(units), N!toUtf8(N!left(units, c)))
<1> SUFFICES ASSUME ~N!Splits(units, c)
             PROVE  BeginsWith(N!toUtf8(units), N!toUtf8(N!left(units, c)))
  OBVIOUS
<1> DEFINE front == N!left(units, c)
           l == Len(units)
           all == [i \in DOMAIN units |-> N!Written(units, i)]
           some == [i \in DOMAIN front |-> N!Written(front, i)]
<1>1. l \in Nat /\ c \in Nat /\ c \in 0 .. l /\ c <= l /\ DOMAIN units = 1 .. l
  OBVIOUS
<1>2. front = SubSeq(units, 1, c)
  <2>1. c < l \/ c = l
    <3> HIDE DEF l
    <3> QED
      BY <1>1
  <2> QED
    BY <2>1 DEF N!left
<1>3. Len(front) = c /\ DOMAIN front = 1 .. c /\ \A i \in 1 .. c : front[i] = units[i]
  <2> HIDE DEF front
  <2> QED
    BY <1>1, <1>2
<1> HIDE DEF front, l
<1>4. ASSUME NEW i \in 1 .. c PROVE N!Opens(front, i) <=> N!Opens(units, i)
  <2>1. CASE i < c
    <3>1. i + 1 \in 1 .. c /\ i < l
      BY <1>1, <2>1
    <3> QED
      BY <1>3, <2>1, <3>1 DEF N!Opens, l
  <2>2. CASE i = c
    <3>1. ~(i < c) /\ (i < l => i \in 1 .. l - 1)
      BY <1>1, <2>2
    <3>2. ~N!Opens(front, i)
      BY <1>3, <3>1 DEF N!Opens
    <3>3. ~N!Opens(units, i)
      BY <2>2, <3>1 DEF N!Opens, N!Splits, l
    <3> QED
      BY <3>2, <3>3
  <2> QED
    BY <1>1, <2>1, <2>2
<1>5. ASSUME NEW i \in 1 .. c PROVE N!Written(front, i) = N!Written(units, i)
  <2>1. i > 1 => i - 1 \in 1 .. c
    BY <1>1
  <2>2. i > 1 => (N!Opens(front, i - 1) <=> N!Opens(units, i - 1))
    BY <1>4, <2>1
  <2>3. front[i] = units[i] /\ (N!Opens(front, i) <=> N!Opens(units, i))
    BY <1>3, <1>4
  <2> QED
    BY <2>2, <2>3 DEF N!Written
<1>6. /\ \A i \in 1 .. c : some[i] = all[i]
      /\ all = [i \in 1 .. l |-> N!Written(units, i)]
      /\ some = [i \in 1 .. c |-> N!Written(front, i)]
  <2>1. \A i \in 1 .. c : i \in 1 .. l
    BY <1>1
  <2> QED
    BY <1>1, <1>3, <1>5, <2>1
<1>7. N!toUtf8(units) = Joined(all, 4) /\ N!toUtf8(front) = Joined(some, 4)
  BY TextJoinedIs DEF N!toUtf8
<1>8. Len(all) = l /\ Len(some) = c
  <2>1. all \in [1 .. l -> {all[i] : i \in 1 .. l}] /\ some \in [1 .. c -> {some[i] : i \in 1 .. c}]
    BY <1>6
  <2> HIDE DEF all, some
  <2> QED
    BY <1>1, <2>1
<1>9. BeginsWith(Joined(all, 4), Joined(some, 4))
  <2> HIDE DEF all, some
  <2> QED
    BY <1>1, <1>6, <1>8, JoinedFront
<1> QED
  BY <1>7, <1>9 DEF front

LEMMA TextAsked ==
  ASSUME N!setSurroundingText
  PROVE  N!RequestsSayWhatIsMeant'
<1>1. PICK text \in UNION {[1 .. n -> Characters] : n \in 0 .. MaxText} :
        LET units == N!Joined([i \in DOMAIN text |-> N!Units[text[i]]], 2)
        IN  \E cursor, anchor \in 0 .. Len(units) :
              textAsked' = [kind |-> "setSurroundingText", units |-> units,
                            cursor |-> cursor, anchor |-> anchor,
                            text |-> N!toUtf8(units),
                            cursorByte |-> N!ByteIndex(units, cursor),
                            anchorByte |-> N!ByteIndex(units, anchor)]
  BY DEF N!setSurroundingText
<1> DEFINE list == [i \in DOMAIN text |-> N!Units[text[i]]]
           units == N!Joined(list, 2)
<1>2. PICK n \in Nat : Len(list) = n
  <2>1. PICK n \in 0 .. MaxText : text \in [1 .. n -> Characters]
    OBVIOUS
  <2>2. n \in Nat
    OBVIOUS
  <2>3. list \in [1 .. n -> {list[i] : i \in 1 .. n}]
    BY <2>1
  <2> HIDE DEF list
  <2> QED
    BY <2>2, <2>3
<1>3. PICK set : units \in Seq(set)
  <2> HIDE DEF list
  <2> QED
    BY <1>2, JoinedInPairs, TextJoinedIs
<1>4. PICK cursor \in 0 .. Len(units), anchor \in 0 .. Len(units) :
        textAsked' = [kind |-> "setSurroundingText", units |-> units,
                      cursor |-> cursor, anchor |-> anchor, text |-> N!toUtf8(units),
                      cursorByte |-> N!ByteIndex(units, cursor),
                      anchorByte |-> N!ByteIndex(units, anchor)]
  BY <1>1
<1> HIDE DEF list, units
<1>5. ASSUME NEW c \in 0 .. Len(units)
      PROVE  \/ N!Splits(units, c)
             \/ /\ N!ByteIndex(units, c) <= Len(N!toUtf8(units))
                /\ SubSeq(N!toUtf8(units), 1, N!ByteIndex(units, c))
                     = N!toUtf8(N!left(units, c))
  BY <1>3, TextBefore DEF BeginsWith, N!ByteIndex
<1>6. /\ textAsked'.units = units /\ textAsked'.text = N!toUtf8(units)
      /\ textAsked'.cursor = cursor /\ textAsked'.cursorByte = N!ByteIndex(units, cursor)
      /\ textAsked'.anchor = anchor /\ textAsked'.anchorByte = N!ByteIndex(units, anchor)
  BY <1>4
<1>7. ASSUME NEW pair \in {<<textAsked'.cursor, textAsked'.cursorByte>>,
                           <<textAsked'.anchor, textAsked'.anchorByte>>}
      PROVE  \E c \in 0 .. Len(units) : pair = <<c, N!ByteIndex(units, c)>>
  BY <1>6
<1>8. ASSUME NEW pair \in {<<textAsked'.cursor, textAsked'.cursorByte>>,
                           <<textAsked'.anchor, textAsked'.anchorByte>>}
      PROVE  \/ N!Splits(textAsked'.units, pair[1])
             \/ /\ pair[2] <= Len(textAsked'.text)
                /\ SubSeq(textAsked'.text, 1, pair[2])
                     = N!toUtf8(N!left(textAsked'.units, pair[1]))
  <2>1. PICK c \in 0 .. Len(units) : pair = <<c, N!ByteIndex(units, c)>>
    BY <1>7
  <2>2. pair[1] = c /\ pair[2] = N!ByteIndex(units, c)
    BY <2>1
  <2> QED
    BY <1>5, <1>6, <2>2
<1> QED
  BY <1>8 DEF N!RequestsSayWhatIsMeant

\* Whatever else happens, nothing is asked in that step.
LEMMA TextAsks == N!Next => N!RequestsSayWhatIsMeant'
<1>1. textAsked' = N!Nothing => N!RequestsSayWhatIsMeant'
  BY DEF N!Nothing, N!RequestsSayWhatIsMeant
<1>2. /\ \A e : N!Send(e) => textAsked' = N!Nothing
      /\ \A k : N!Takes(k) => textAsked' = N!Nothing
  BY DEF N!Send, N!Takes
<1>3. \/ N!SendPreeditCursor \/ N!SendPreeditString \/ N!SendCursorPosition
      \/ N!SendDeleteSurroundingText \/ N!SendCommitString
      => textAsked' = N!Nothing
  <2>1. N!SendPreeditCursor => \E e : N!Send(e)
    BY Zenon DEF N!SendPreeditCursor
  <2>2. N!SendPreeditString => \E e : N!Send(e)
    BY Zenon DEF N!SendPreeditString
  <2>3. N!SendCursorPosition => \E e : N!Send(e)
    BY Zenon DEF N!SendCursorPosition
  <2>4. N!SendDeleteSurroundingText => \E e : N!Send(e)
    BY Zenon DEF N!SendDeleteSurroundingText
  <2>5. N!SendCommitString => \E e : N!Send(e)
    BY Zenon DEF N!SendCommitString
  <2> QED
    BY <1>2, <2>1, <2>2, <2>3, <2>4, <2>5
<1>4. \/ N!preeditCursorCallback \/ N!preeditStringCallback \/ N!cursorPositionCallback
      \/ N!deleteSurroundingTextCallback \/ N!commitStringCallback
      => textAsked' = N!Nothing
  BY <1>2 DEF N!preeditCursorCallback, N!preeditStringCallback, N!cursorPositionCallback,
              N!deleteSurroundingTextCallback, N!commitStringCallback
<1> QED
  BY <1>1, <1>3, <1>4, TextAsked DEF N!Next
-----------------------------------------------------------------------------
(* The requests of both.                                                   *)

RequestsLooked ==
  /\ component = "XdgShell" => xdgVersion \in X!Versions /\ X!RequestsSayWhatIsMeant
  /\ component = "TextInput" => N!RequestsSayWhatIsMeant

LEMMA RequestsStart == Init => RequestsLooked
<1> SUFFICES ASSUME Init PROVE RequestsLooked
  OBVIOUS
<1>1. X!Init /\ N!Init
  BY DEF Init
<1>2. xdgVersion \in X!Versions /\ X!RequestsSayWhatIsMeant
  BY <1>1 DEF X!Init, X!Idle, X!RequestsSayWhatIsMeant
<1>3. N!RequestsSayWhatIsMeant
  BY <1>1 DEF N!Init, N!Nothing, N!RequestsSayWhatIsMeant
<1> QED
  BY <1>2, <1>3 DEF RequestsLooked

LEMMA RequestsGoOn == RequestsLooked /\ [Next]_vars => RequestsLooked'
<1> SUFFICES ASSUME RequestsLooked, [Next]_vars PROVE RequestsLooked'
  OBVIOUS
<1>1. ASSUME component' = "XdgShell"
      PROVE  xdgVersion' \in X!Versions /\ X!RequestsSayWhatIsMeant'
  <2>1. component = "XdgShell" /\ (X!Next \/ UNCHANGED xdgVars)
    BY <1>1 DEF Next, ViewsNext, vars
  <2>2. xdgVersion \in X!Versions /\ X!RequestsSayWhatIsMeant
    BY <2>1 DEF RequestsLooked
  <2>3. X!Next => xdgVersion' = xdgVersion
    BY DEF X!Next, X!CreateToplevel, X!CreatePopup, X!Fresh, X!Release, X!ReleasePopup,
           X!RequestResize, X!SendRole, X!SendSurface, X!SendConfigure,
           X!configureCallback, X!droppedConfigure, X!surfaceConfigureCallback, X!popupConfigureCallback, X!configureCallbackV5,
           X!configureCallbackWlShell, X!Takes
  <2>4. CASE X!Next
    BY <2>2, <2>3, <2>4, XdgAsks
  <2>5. CASE UNCHANGED xdgVars
    <3>1. xdgVersion' = xdgVersion /\ xdgAsked' = xdgAsked /\ wire' = wire
      BY <2>5 DEF xdgVars
    <3> QED
      BY <2>2, <3>1 DEF X!RequestsSayWhatIsMeant, X!ReadEdges, X!Read
  <2> QED
    BY <2>1, <2>4, <2>5
<1>2. ASSUME component' = "TextInput" PROVE N!RequestsSayWhatIsMeant'
  <2>1. component = "TextInput" /\ (N!Next \/ UNCHANGED textVars)
    BY <1>2 DEF Next, ViewsNext, vars
  <2>2. N!RequestsSayWhatIsMeant
    BY <2>1 DEF RequestsLooked
  <2>3. CASE N!Next
    BY <2>3, TextAsks
  <2>4. CASE UNCHANGED textVars
    BY <2>2, <2>4 DEF textVars, N!RequestsSayWhatIsMeant
  <2> QED
    BY <2>1, <2>3, <2>4
<1> QED
  BY <1>1, <1>2 DEF RequestsLooked

\* The edges of a resize, the positioner of a popup and the indices into the surrounding
\* text are what the user gave, read by the rules of each protocol: for every set of
\* edges and flags (OnSide, the flags of version 6) and every text whose index does not
\* split a pair (setSurroundingText).
THEOREM RequestsAreMeant == Spec => []RequestsSayWhatIsMeant
<1>1. RequestsLooked => RequestsSayWhatIsMeant
  BY DEF RequestsLooked, RequestsSayWhatIsMeant
<1> QED
  BY <1>1, RequestsStart, RequestsGoOn, PTL DEF Spec

-----------------------------------------------------------------------------
(* The types of the states.  The invariants above say what there is; what  *)
(* is left are the bounds of the instance and values no other part is      *)
(* related to.                                                             *)

\* The rest of a window of a shell: a size was given or is unset.
SomeSizes == Sizes \cup {X!Unset}
XdgRest ==
  /\ objects \in 0 .. MaxWindows /\ drafts \in 0 .. MaxDrafts
  /\ Len(xdgBatches) <= MaxConfigures
  /\ pendingSize \in SomeSizes /\ size \in SomeSizes /\ pendingState \in SUBSET X!Known
  /\ xdgAnnounced \in [size : SomeSizes, states : SUBSET X!Known, serial : Nat]

LEMMA XdgRestStarts == X!Init => XdgRest
<1> SUFFICES ASSUME X!Init PROVE XdgRest
  OBVIOUS
<1>1. MaxWindows \in Nat /\ MaxDrafts \in Nat /\ MaxConfigures \in Nat
  BY BoundsAssumption
<1>2. objects = 0 /\ drafts = 0 /\ xdgBatches = <<>> /\ pendingSize = X!Unset
      /\ size = X!Unset /\ pendingState = {}
      /\ xdgAnnounced = [size |-> X!Unset, states |-> {}, serial |-> 0]
  BY DEF X!Init, X!Nobody
<1>3. Len(xdgBatches) = 0
  BY <1>2
<1>4. objects \in 0 .. MaxWindows /\ drafts \in 0 .. MaxDrafts
      /\ Len(xdgBatches) <= MaxConfigures
  BY <1>1, <1>2, <1>3
<1>5. X!Unset \in SomeSizes
  BY DEF SomeSizes
<1> QED
  BY <1>2, <1>4, <1>5 DEF XdgRest

LEMMA XdgTyped == ASSUME XdgInv, XdgRest PROVE X!TypeOK
<1>1. /\ xdgEvents \in Seq(XdgEvents) /\ XdgNumbered /\ MaxConfigures \in Nat
      /\ Len(xdgBatches) \in Nat /\ Len(xdgBatches) <= MaxConfigures
      /\ xdgAnnounced.serial \in 0 .. Len(xdgBatches)
  BY BoundsAssumption DEF XdgInv, XdgType, XdgRest
<1>2. ASSUME NEW i \in DOMAIN xdgEvents
      PROVE  xdgEvents[i] \in
               [kind : {"role"}, size : Sizes, states : SUBSET States]
                 \cup [kind : {"surface"}, serial : 1 .. MaxConfigures]
                 \cup [kind : {"configure"}, size : Sizes, states : SUBSET States,
                       serial : 1 .. MaxConfigures]
  <2> DEFINE e == xdgEvents[i]
  <2>1. e \in XdgEvents
    <3> HIDE DEF XdgEvents
    <3> QED
      BY <1>1
  <2>2. e.kind # "role" => e.serial \in 1 .. MaxConfigures
    <3>1. e.kind # "role" => /\ e.serial \in Nat /\ xdgAnnounced.serial < e.serial
                             /\ e.serial <= Len(xdgBatches)
      BY <1>1 DEF XdgNumbered, Ends
    <3> HIDE DEF e
    <3> QED
      BY <1>1, <3>1
  <2> HIDE DEF e
  <2>3. e \in [kind : {"role"}, size : Sizes, states : SUBSET States]
                \cup [kind : {"surface"}, serial : 1 .. MaxConfigures]
                \cup [kind : {"configure"}, size : Sizes, states : SUBSET States,
                      serial : 1 .. MaxConfigures]
    BY <2>1, <2>2 DEF XdgEvents
  <2> QED
    BY <2>3 DEF e
<1>3. draft \in X!Contents \cup {X!Bare}
  BY DEF XdgInv, XdgType, XdgBatches, X!Contents
<1>4. xdgAnnounced \in [size : Sizes \cup {X!Unset}, states : SUBSET X!Known,
                        serial : 0 .. MaxConfigures]
  BY <1>1 DEF XdgRest, SomeSizes
<1> QED
  BY <1>1, <1>2, <1>3, <1>4 DEF XdgInv, XdgType, XdgRest, SomeSizes, X!TypeOK

LEMMA XdgRestStep == ASSUME XdgInv, XdgRest, X!Next PROVE XdgRest'
<1>1. /\ MaxWindows \in Nat /\ MaxDrafts \in Nat /\ MaxConfigures \in Nat
      /\ xdgBatches \in Seq(XdgBatches) /\ Len(xdgBatches) \in Nat
      /\ xdgEvents \in Seq(XdgEvents)
      /\ objects \in 0 .. MaxWindows /\ drafts \in 0 .. MaxDrafts
      /\ Len(xdgBatches) <= MaxConfigures
  BY BoundsAssumption DEF XdgInv, XdgType, XdgRest
<1>2. X!Unset \in SomeSizes /\ Sizes \subseteq SomeSizes
  BY DEF SomeSizes
<1>3. CASE X!CreateToplevel \/ X!CreatePopup \/ X!ReleasePopup \/ X!RequestResize
  <2>1. /\ objects' = objects \/ (objects < MaxWindows /\ objects' = objects + 1)
        /\ UNCHANGED <<drafts, xdgBatches, pendingSize, pendingState, size, xdgAnnounced>>
    BY <1>3 DEF X!CreateToplevel, X!CreatePopup, X!ReleasePopup, X!RequestResize, X!Fresh,
                X!compositorVars, X!clientVars
  <2>2. objects' \in 0 .. MaxWindows
    BY <1>1, <2>1
  <2> QED
    BY <2>1, <2>2 DEF XdgRest
<1>4. CASE X!Release
  <2>1. /\ drafts' = 0 /\ xdgBatches' = <<>> /\ Len(<<>>) = 0
        /\ xdgAnnounced' = [size |-> X!Unset, states |-> {}, serial |-> 0]
        /\ UNCHANGED <<objects, pendingSize, pendingState, size>>
    BY <1>4 DEF X!Release, X!Nobody
  <2>2. drafts' \in 0 .. MaxDrafts /\ Len(xdgBatches') <= MaxConfigures
    BY <1>1, <2>1
  <2>3. xdgAnnounced' \in [size : SomeSizes, states : SUBSET X!Known, serial : Nat]
    BY <1>2, <2>1
  <2> QED
    BY <2>1, <2>2, <2>3 DEF XdgRest
<1>5. CASE X!SendRole
  <2>1. /\ drafts < MaxDrafts /\ drafts' = drafts + 1
        /\ UNCHANGED <<objects, xdgBatches, pendingSize, pendingState, size, xdgAnnounced>>
    BY <1>5 DEF X!SendRole, X!clientVars
  <2>2. drafts' \in 0 .. MaxDrafts
    BY <1>1, <2>1
  <2> QED
    BY <2>1, <2>2 DEF XdgRest
<1>6. CASE X!SendSurface \/ X!SendConfigure
  <2>1. /\ Len(xdgBatches) < MaxConfigures
        /\ \E b : xdgBatches' = Append(xdgBatches, b)
        /\ drafts' \in {0, drafts}
        /\ UNCHANGED <<objects, pendingSize, pendingState, size, xdgAnnounced>>
    BY <1>6 DEF X!SendSurface, X!SendConfigure, X!clientVars
  <2>2. Len(xdgBatches') = Len(xdgBatches) + 1
    BY <1>1, <2>1
  <2>3. Len(xdgBatches') <= MaxConfigures /\ drafts' \in 0 .. MaxDrafts
    BY <1>1, <2>1, <2>2
  <2> QED
    BY <2>1, <2>3 DEF XdgRest
<1>7. ASSUME NEW k, X!Takes(k)
      PROVE  /\ Head(xdgEvents) \in XdgEvents /\ Head(xdgEvents).kind = k
             /\ UNCHANGED <<objects, drafts, xdgBatches>>
  <2>1. xdgEvents # <<>> /\ Head(xdgEvents).kind = k /\ UNCHANGED <<objects, drafts, xdgBatches>>
    BY <1>7 DEF X!Takes
  <2> HIDE DEF XdgEvents
  <2> QED
    BY <1>1, <2>1
<1>8. CASE X!configureCallback
  <2>1. /\ X!Takes("role") /\ pendingSize' = Head(xdgEvents).size
        /\ pendingState' = Head(xdgEvents).states \cap X!Known
        /\ UNCHANGED <<size, xdgAnnounced>>
    BY <1>8 DEF X!configureCallback
  <2>2. pendingSize' \in SomeSizes
    BY <1>2, <1>7, <2>1 DEF XdgEvents
  <2> QED
    BY <1>7, <2>1, <2>2 DEF XdgRest
<1>11. CASE X!droppedConfigure
  <2>1. X!Takes("role") /\ UNCHANGED <<pendingSize, pendingState, size, xdgAnnounced>>
    BY <1>11 DEF X!droppedConfigure, X!clientVars
  <2> QED
    BY <1>7, <2>1 DEF XdgRest
<1>9. CASE X!surfaceConfigureCallback \/ X!popupConfigureCallback
  <2>1. /\ X!Takes("surface")
        /\ \E states \in {pendingState, {}} :
             xdgAnnounced' = [size |-> pendingSize, states |-> states,
                              serial |-> Head(xdgEvents).serial]
        /\ size' \in {pendingSize, size} /\ pendingSize' \in {X!Unset, pendingSize}
        /\ pendingState' \in {pendingState, {}}
    BY <1>9 DEF X!surfaceConfigureCallback, X!popupConfigureCallback
  <2>2. Head(xdgEvents).serial \in Nat
    BY <1>7, <2>1 DEF XdgEvents
  <2>3. size' \in SomeSizes /\ pendingSize' \in SomeSizes /\ pendingState' \in SUBSET X!Known
    BY <1>2, <2>1 DEF XdgRest
  <2>4. xdgAnnounced' \in [size : SomeSizes, states : SUBSET X!Known, serial : Nat]
    BY <2>1, <2>2 DEF XdgRest
  <2> QED
    BY <1>7, <2>1, <2>3, <2>4 DEF XdgRest
<1>10. CASE X!configureCallbackV5 \/ X!configureCallbackWlShell
  <2>1. /\ X!Takes("configure")
        /\ \E states \in {Head(xdgEvents).states \cap X!Known, {}},
              s \in {Head(xdgEvents).size} :
             xdgAnnounced' = [size |-> s, states |-> states,
                              serial |-> Head(xdgEvents).serial]
        /\ size' \in {Head(xdgEvents).size, size}
        /\ UNCHANGED <<pendingSize, pendingState>>
    BY <1>10 DEF X!configureCallbackV5, X!configureCallbackWlShell
  <2>2. Head(xdgEvents).serial \in Nat /\ Head(xdgEvents).size \in SomeSizes
    BY <1>2, <1>7, <2>1 DEF XdgEvents
  <2>3. size' \in SomeSizes
    BY <2>1, <2>2 DEF XdgRest
  <2>4. xdgAnnounced' \in [size : SomeSizes, states : SUBSET X!Known, serial : Nat]
    BY <2>1, <2>2
  <2> QED
    BY <1>7, <2>1, <2>3, <2>4 DEF XdgRest
<1> QED
  BY <1>3, <1>4, <1>5, <1>6, <1>8, <1>9, <1>10, <1>11 DEF X!Next

\* Every event says what its attribute may be, and the object has nothing else.
Fitting(e) == e.of # "done" => e.value \in E!ValuesOf(class, e.of)
Keeping(a) == (E!ValuesOf(class, a) \ {E!Future}) \cup {E!Default(class)[a]}

ExtensionRest ==
  /\ Len(extensionBatches) <= MaxBatches
  /\ \A i \in DOMAIN extensionEvents : Fitting(extensionEvents[i])
  /\ \A a \in E!Attributes[class] : current[a] \in Keeping(a) /\ pending[a] \in Keeping(a)
  /\ class = "XdgOutput" => arrived = {}

LEMMA ExtensionRestStarts == E!Init => ExtensionRest
<1> SUFFICES ASSUME E!Init PROVE ExtensionRest
  OBVIOUS
<1>1. Len(<<>>) = 0 /\ DOMAIN <<>> = {} /\ MaxBatches \in Nat
  BY BoundsAssumption
<1>2. Len(extensionBatches) <= MaxBatches
  BY <1>1 DEF E!Init
<1>3. DOMAIN extensionEvents = {}
  BY <1>1 DEF E!Init
<1> QED
  BY <1>2, <1>3 DEF ExtensionRest, E!Init, Keeping

LEMMA ExtensionTyped == ASSUME ExtensionInv, ExtensionRest PROVE E!TypeOK
<1>1. /\ class \in {"XdgOutput", "Dpms"} /\ DOMAIN E!Attributes = {"XdgOutput", "Dpms"}
      /\ DOMAIN extensionServer = E!Attributes[class]
      /\ extensionBatches \in Seq(SUBSET E!Attributes[class])
  BY DEF ExtensionInv, AllSet, E!Attributes
<1>2. /\ DOMAIN current = E!Attributes[class] /\ DOMAIN pending = E!Attributes[class]
      /\ arrived \subseteq E!Attributes[class]
  BY DEF ExtensionInv, ExtensionStates, Shown, AllSet
<1> QED
  BY <1>1, <1>2 DEF ExtensionRest, Keeping, E!TypeOK

LEMMA ExtensionRestStep == ASSUME ExtensionInv, ExtensionRest, E!Next PROVE ExtensionRest'
<1>1. /\ class \in {"XdgOutput", "Dpms"} /\ extensionEvents \in Seq(ExtensionEvents(class))
      /\ extensionBatches \in Seq(SUBSET E!Attributes[class])
      /\ DOMAIN current = E!Attributes[class] /\ DOMAIN pending = E!Attributes[class]
  BY DEF ExtensionInv, ExtensionStates, Shown, AllSet
<1>2. class' = class
  BY DEF E!Next, E!Change, E!attributeCallback, E!doneCallback, E!dpmsCallback,
         E!dpmsDoneCallback, E!Takes
<1>3. \A a : Keeping(a)' = Keeping(a)
  BY <1>2 DEF Keeping
<1>4. CASE E!Change
  <2> DEFINE Whole == E!Attributes[class]
             Ev == ExtensionEvents(class)
             D1 == [of |-> "done"]
             Changed(s) == {a \in Whole : s[a] # extensionServer[a]}
             Es(s, b) == [i \in DOMAIN E!Listing(b) |->
                            [of |-> E!Listing(b)[i], value |-> s[E!Listing(b)[i]]]]
  <2>1. PICK s \in E!Settings(class) :
          /\ \E b \in E!Batches(Changed(s)) :
               /\ extensionBatches' = Append(extensionBatches, b)
               /\ extensionEvents' = extensionEvents \o Es(s, b) \o <<D1>>
          /\ Len(extensionBatches) < MaxBatches
          /\ UNCHANGED <<class, current, pending, arrived>>
    BY <1>4 DEF E!Change
  <2>2. PICK b \in E!Batches(Changed(s)) :
          /\ extensionBatches' = Append(extensionBatches, b)
          /\ extensionEvents' = extensionEvents \o Es(s, b) \o <<D1>>
    BY <2>1
  <2>3. b \subseteq Whole /\ IsFiniteSet(b)
    <3>1. b \in SUBSET Whole
      BY DEF E!Batches
    <3>2. IsFiniteSet(Whole)
      BY <1>1, AttributesAre
    <3> QED
      BY <3>1, <3>2, FS_Subset
  <2>4. \A a \in Whole : s[a] \in E!ValuesOf(class, a)
    BY DEF E!Settings
  <2>5. \A i \in DOMAIN Es(s, b) : /\ Es(s, b)[i].of = E!Listing(b)[i]
                                   /\ Es(s, b)[i].value = s[E!Listing(b)[i]]
                                   /\ E!Listing(b)[i] \in Whole
    <3>1. E!Listing(b) \in Seq(b)
      BY <2>3, ExtensionListing
    <3> QED
      BY <2>3, <3>1
  <2>6. Es(s, b) \in Seq({Es(s, b)[i] : i \in DOMAIN Es(s, b)})
    <3>1. E!Listing(b) \in Seq(b)
      BY <2>3, ExtensionListing
    <3> QED
      BY <3>1
  <2>7. \A i \in DOMAIN Es(s, b) : Fitting(Es(s, b)[i])
    BY <2>4, <2>5 DEF Fitting
  <2>8. Fitting(D1)
    BY DEF Fitting
  <2>9. \A i \in DOMAIN extensionEvents' : Fitting(extensionEvents'[i])
    <3> DEFINE Good == {e \in Ev \cup {Es(s, b)[i] : i \in DOMAIN Es(s, b)} \cup {D1} : Fitting(e)}
    <3>1. Es(s, b) \in Seq(Good)
      BY <2>6, <2>7
    <3>2. extensionEvents \in Seq(Good)
      <4> HIDE DEF Ev
      <4>1. extensionEvents \in Seq(Ev)
        BY <1>1 DEF Ev
      <4> QED
        BY <4>1 DEF ExtensionRest
    <3>3. D1 \in Good
      BY <2>8
    <3> HIDE DEF Good, Es, D1
    <3>4. extensionEvents \o Es(s, b) \o <<D1>> \in Seq(Good)
      BY <3>1, <3>2, <3>3
    <3>5. \A i \in DOMAIN extensionEvents' : extensionEvents'[i] \in Good
      BY <2>2, <3>4
    <3> QED
      BY <3>5 DEF Good
  <2>10. Len(extensionBatches') <= MaxBatches
    <3>1. MaxBatches \in Nat /\ Len(extensionBatches) \in Nat
          /\ Len(extensionBatches') = Len(extensionBatches) + 1
      BY <1>1, <2>2, BoundsAssumption
    <3> QED
      BY <2>1, <3>1
  <2>12. \A i \in DOMAIN extensionEvents' :
           extensionEvents'[i].of # "done" =>
             extensionEvents'[i].value \in E!ValuesOf(class', extensionEvents'[i].of)
    BY <1>2, <2>9 DEF Fitting
  <2> QED
    BY <1>2, <1>3, <2>1, <2>10, <2>12 DEF ExtensionRest, Fitting
<1>5. ASSUME E!Takes
      PROVE  /\ Head(extensionEvents) \in ExtensionEvents(class)
             /\ Fitting(Head(extensionEvents)) /\ extensionBatches' = extensionBatches
             /\ \A i \in DOMAIN extensionEvents' :
                  extensionEvents'[i].of # "done" =>
                    extensionEvents'[i].value \in E!ValuesOf(class', extensionEvents'[i].of)
  <2> DEFINE Ev == ExtensionEvents(class)
  <2>1. /\ extensionEvents # <<>> /\ extensionEvents' = Tail(extensionEvents)
        /\ extensionBatches' = extensionBatches
    BY <1>5 DEF E!Takes
  <2>2. extensionEvents \in Seq(Ev)
    BY <1>1
  <2> HIDE DEF Ev
  <2>3. /\ Head(extensionEvents) \in Ev /\ Head(extensionEvents) = extensionEvents[1]
        /\ 1 \in DOMAIN extensionEvents
        /\ \A i \in DOMAIN extensionEvents' :
             i + 1 \in DOMAIN extensionEvents /\ extensionEvents'[i] = extensionEvents[i + 1]
    BY <2>1, <2>2
  <2>4. \A i \in DOMAIN extensionEvents' : Fitting(extensionEvents'[i])
    BY <2>3 DEF ExtensionRest
  <2> QED
    BY <1>2, <2>1, <2>3, <2>4 DEF ExtensionRest, Fitting, Ev
<1>6. CASE E!attributeCallback \/ E!dpmsCallback
  <2> DEFINE e == Head(extensionEvents)
  <2>1. /\ E!Takes /\ e.of # "done" /\ UNCHANGED current
        /\ \/ UNCHANGED pending
           \/ /\ pending' = [pending EXCEPT ![e.of] = e.value]
              /\ class = "XdgOutput" \/ e.value # E!Future
        /\ class = "XdgOutput" => UNCHANGED arrived
    BY <1>6 DEF E!attributeCallback, E!dpmsCallback
  <2>2. e.of \in E!Attributes[class] /\ e.value \in E!ValuesOf(class, e.of)
    BY <1>5, <2>1 DEF ExtensionEvents, Fitting
  <2>3. class = "XdgOutput" => e.value # E!Future
    <3> HIDE DEF e
    <3>1. class = "XdgOutput" => e.of \notin {"supported", "mode"}
      BY <2>2 DEF E!Attributes, E!Geometry, E!Names
    <3>2. class = "XdgOutput" => E!ValuesOf(class, e.of) = AttributeValues
      BY <3>1 DEF E!ValuesOf
    <3> QED
      BY <2>2, <3>2, ValuesAssumption
  <2>4. \A a \in E!Attributes[class] : pending'[a] \in Keeping(a)
    <3> HIDE DEF e
    <3>1. CASE UNCHANGED pending
      BY <3>1 DEF ExtensionRest
    <3>2. CASE pending' = [pending EXCEPT ![e.of] = e.value] /\ e.value # E!Future
      <4>1. e.value \in Keeping(e.of)
        BY <2>2, <3>2 DEF Keeping
      <4> QED
        BY <1>1, <2>2, <3>2, <4>1 DEF ExtensionRest
    <3> QED
      BY <2>1, <2>3, <3>1, <3>2
  <2> QED
    BY <1>2, <1>3, <1>5, <2>1, <2>4 DEF ExtensionRest, Fitting
<1>7. CASE E!doneCallback
  <2>1. E!Takes /\ current' = pending /\ pending' = current /\ UNCHANGED arrived
    BY <1>7 DEF E!doneCallback
  <2> QED
    BY <1>2, <1>3, <1>5, <2>1 DEF ExtensionRest, Fitting
<1>8. CASE E!dpmsDoneCallback
  <2>1. /\ E!Takes /\ class = "Dpms" /\ arrived' = {} /\ pending' = E!Default(class)
        /\ current' = [a \in E!Attributes[class] |->
                         IF a \in arrived THEN pending[a] ELSE current[a]]
    BY <1>8 DEF E!dpmsDoneCallback
  <2>2. \A a \in E!Attributes[class] : current'[a] \in Keeping(a) /\ pending'[a] \in Keeping(a)
    BY <2>1 DEF ExtensionRest, Keeping
  <2> QED
    BY <1>2, <1>3, <1>5, <2>1, <2>2 DEF ExtensionRest, Fitting
<1> QED
  BY <1>4, <1>6, <1>7, <1>8 DEF E!Next

\* The rest of the offers.
OffersRest ==
  /\ Len(dataServer.types) <= MaxOffers
  /\ dataServer.selection <= MaxOffers /\ dataServer.dragOffer <= MaxOffers

LEMMA OffersRestStarts == D!Init => OffersRest
<1> SUFFICES ASSUME D!Init PROVE OffersRest
  OBVIOUS
<1>1. Len(<<>>) = 0 /\ MaxOffers \in Nat
  BY BoundsAssumption
<1>2. dataServer.types = <<>> /\ dataServer.selection = 0 /\ dataServer.dragOffer = 0
  BY DEF D!Init, D!None
<1> QED
  BY <1>1, <1>2 DEF OffersRest

LEMMA OffersTyped == ASSUME OffersInv, OffersRest PROVE D!TypeOK
<1>1. /\ MaxOffers \in Nat /\ dataServer.types \in Seq(SUBSET Types)
      /\ dataServer \in [types : Seq(SUBSET Types), selection : Nat, dragOffer : Nat,
                         drag : D!Drags]
  BY BoundsAssumption DEF OffersInv
<1>2. dataServer \in [types : Seq(SUBSET Types), selection : 0 .. MaxOffers,
                      dragOffer : 0 .. MaxOffers, drag : D!Drags]
  <2>1. dataServer.selection \in 0 .. MaxOffers /\ dataServer.dragOffer \in 0 .. MaxOffers
    BY <1>1 DEF OffersRest
  <2> QED
    BY <1>1, <2>1
<1>3. ASSUME NEW i \in DOMAIN dataEvents
      PROVE  dataEvents[i].kind \in
               {"dataOffer", "offer", "enter", "leave", "drop", "selection"}
  <2>1. dataEvents[i] \in OfferEvents
    <3> HIDE DEF OfferEvents
    <3> QED
      BY DEF OffersInv
  <2> QED
    BY <2>1 DEF OfferEvents
<1>4. PICK u \in OfferViews : Given(u) /\ TypesArrive(u)
  BY DEF OffersInv
<1>5. /\ u.count \in Nat /\ u.last \in 0 .. u.count
      /\ u.selection \in 0 .. u.count /\ u.drag \in 0 .. u.count
  BY DEF OfferViews
<1>6. u.count <= MaxOffers
  <2>1. u.count <= Len(dataServer.types) /\ Len(dataServer.types) <= MaxOffers
    BY <1>4 DEF TypesArrive, OffersRest
  <2>2. Len(dataServer.types) \in Nat
    BY <1>1
  <2> QED
    BY <1>1, <1>5, <2>1, <2>2
<1>7. {lastOffer, selectionOffer, dragOffer} \subseteq 0 .. MaxOffers
  <2>1. {lastOffer, selectionOffer, dragOffer} \subseteq {0, u.last, u.selection, u.drag}
    BY <1>4 DEF Given, Unless
  <2>2. {0, u.last, u.selection, u.drag} \subseteq 0 .. MaxOffers
    BY <1>1, <1>5, <1>6
  <2> QED
    BY <2>1, <2>2
<1>8. users \subseteq taken /\ taken \subseteq D!Offers
  <2>1. users \subseteq taken /\ taken \subseteq 1 .. u.count
    BY <1>4 DEF Given
  <2>2. 1 .. u.count \subseteq D!Offers
    BY <1>1, <1>5, <1>6 DEF D!Offers
  <2> QED
    BY <2>1, <2>2
<1>9. DOMAIN mimeTypes \subseteq D!Offers
  <2>1. DOMAIN mimeTypes \subseteq ((0 .. MaxOffers) \cup D!Offers) \ {0}
    BY <1>4, <1>7, <1>8 DEF Given
  <2>2. ((0 .. MaxOffers) \cup D!Offers) \ {0} \subseteq D!Offers
    BY <1>1 DEF D!Offers
  <2> QED
    BY <2>1, <2>2
<1>10. \A o \in DOMAIN mimeTypes : mimeTypes[o] \in SUBSET KnownTypes
  BY <1>4 DEF TypesArrive
<1> QED
  BY <1>2, <1>3, <1>7, <1>8, <1>9, <1>10 DEF OffersInv, D!TypeOK

LEMMA OffersRestStep == ASSUME OffersInv, OffersRest, D!Next PROVE OffersRest'
<1>1. /\ MaxOffers \in Nat /\ dataServer.types \in Seq(SUBSET Types)
      /\ dataServer \in [types : Seq(SUBSET Types), selection : Nat, dragOffer : Nat,
                         drag : D!Drags]
      /\ Len(dataServer.types) \in Nat
  BY BoundsAssumption DEF OffersInv
<1>2. CASE D!OfferSelection \/ D!DragEnters
  <2>1. /\ Len(dataServer.types) < MaxOffers
        /\ \E types \in SUBSET Types :
             dataServer'.types = Append(dataServer.types, types)
        /\ {dataServer'.selection, dataServer'.dragOffer}
             \subseteq {dataServer.selection, dataServer.dragOffer, Len(dataServer.types) + 1}
    BY <1>1, <1>2 DEF D!OfferSelection, D!DragEnters
  <2>2. Len(dataServer'.types) = Len(dataServer.types) + 1
    BY <1>1, <2>1
  <2>3. Len(dataServer.types) + 1 <= MaxOffers
    BY <1>1, <2>1
  <2> QED
    BY <2>1, <2>2, <2>3 DEF OffersRest
<1>3. CASE D!ClearSelection \/ D!InternalDragEnters \/ D!DragLeaves \/ D!Drop
  <2>1. /\ dataServer'.types = dataServer.types
        /\ {dataServer'.selection, dataServer'.dragOffer}
             \subseteq {dataServer.selection, dataServer.dragOffer, 0}
    BY <1>1, <1>3 DEF D!ClearSelection, D!InternalDragEnters, D!DragLeaves, D!Drop, D!None
  <2>2. 0 <= MaxOffers
    BY <1>1
  <2> QED
    BY <2>1, <2>2 DEF OffersRest
<1>4. CASE UNCHANGED dataServer
  BY <1>4 DEF OffersRest
<1>5. CASE \/ D!dataOfferCallback \/ D!offerCallback \/ D!enterCallback
           \/ D!leaveCallback \/ D!dropCallback \/ D!selectionCallback
  BY <1>4, <1>5 DEF D!dataOfferCallback, D!offerCallback, D!enterCallback,
     D!leaveCallback, D!dropCallback, D!selectionCallback, D!Takes
<1>6. CASE \/ D!Setup \/ D!End \/ D!takeOfferedSelection \/ D!takeDragOffer
           \/ D!DeleteTaken
  BY <1>4, <1>6 DEF D!Setup, D!End, D!takeOfferedSelection, D!takeDragOffer, D!Take,
     D!DeleteTaken
<1> QED
  BY <1>2, <1>3, <1>5, <1>6 DEF D!Next

\* What is put together has texts and positions there are, and a later length that a
\* uint32_t holds; so has every event that brings a part of it.
Offsets == N!Positions \cup {0}
TypedPreEdits == [text : Lengths \cup {0}, cursor : Offsets, cursorSet : BOOLEAN]
TypedCommits ==
  [text : Lengths \cup {0}, cursor : Offsets, anchor : Offsets, beforeLength : Nat,
   afterLength : 0 .. Modulus - 1]

TextFits(v, e) ==
  /\ e.kind \in {"preeditString", "commitString"} => e.text \in Lengths
  /\ e.kind \in {"preeditCursor", "cursorPosition"} => e.index \in Offsets
  /\ e.kind = "cursorPosition" => e.anchor \in Offsets
  /\ e.kind = "deleteSurroundingText" =>
       Before(e) \in Nat /\ After(v, e) \in 0 .. Modulus - 1

TextRest ==
  /\ pendingPreEdit \in TypedPreEdits /\ currentPreEdit \in TypedPreEdits
  /\ pendingCommit \in TypedCommits /\ currentCommit \in TypedCommits
  /\ \A i \in DOMAIN textEvents : TextFits(textVersion, textEvents[i])
  /\ DOMAIN meant = {"preEdit", "commit"}
  /\ textAsked.kind \in {"nothing", "setSurroundingText"}

LEMMA NothingWaits == N!NoPreEdit \in TypedPreEdits /\ N!NoCommit \in TypedCommits
<1>1. 0 \in 0 .. Modulus - 1 /\ 0 \in Nat /\ 0 \in Offsets
  BY LengthsAssumption DEF Offsets
<1> QED
  BY <1>1 DEF N!NoPreEdit, N!NoCommit, TypedPreEdits, TypedCommits

LEMMA TextRestStarts == N!Init => TextRest
<1> SUFFICES ASSUME N!Init PROVE TextRest
  OBVIOUS
<1>1. textEvents = <<>> /\ DOMAIN <<>> = {}
  BY DEF N!Init
<1>2. DOMAIN meant = {"preEdit", "commit"} /\ textAsked.kind = "nothing"
  BY DEF N!Init, N!Start, N!Nothing
<1>3. /\ pendingPreEdit = N!NoPreEdit /\ currentPreEdit = N!NoPreEdit
      /\ pendingCommit = N!NoCommit /\ currentCommit = N!NoCommit
  BY DEF N!Init
<1> QED
  BY <1>1, <1>2, <1>3, NothingWaits DEF TextRest

LEMMA TextTyped == ASSUME TextInv, TextRest PROVE N!TypeOK
<1>1. ASSUME NEW i \in DOMAIN textEvents
      PROVE  textEvents[i].kind \in
               {"preeditCursor", "preeditString", "cursorPosition",
                "deleteSurroundingText", "commitString"}
  <2>1. textEvents[i] \in TextEvents
    <3> HIDE DEF TextEvents
    <3> QED
      BY DEF TextInv
  <2> QED
    BY <2>1 DEF TextEvents
<1>2. DOMAIN said = {"preEdit", "commit"} /\ textVersion \in N!Versions
  BY DEF TextInv, TextStates, N!Versions
<1> QED
  BY <1>1, <1>2 DEF TextRest, TypedPreEdits, TypedCommits, Offsets, N!TypeOK

LEMMA TextFitsSent ==
  ASSUME TextInv, TextRest, NEW e \in TextEvents, TextFits(textVersion, e), N!Send(e)
  PROVE  TextRest'
<1>1. textEvents \in Seq(TextEvents) /\ textEvents' = Append(textEvents, e)
      /\ textAsked' = N!Nothing
      /\ UNCHANGED <<textVersion, pendingPreEdit, currentPreEdit, pendingCommit,
                     currentCommit, meant>>
  BY DEF TextInv, N!Send
<1>2. ASSUME NEW i \in DOMAIN textEvents' PROVE TextFits(textVersion, textEvents'[i])
  <2> HIDE DEF TextEvents
  <2>1. textEvents'[i] = e \/ (i \in DOMAIN textEvents /\ textEvents'[i] = textEvents[i])
    BY <1>1
  <2> QED
    BY <2>1 DEF TextRest
<1>3. textAsked'.kind = "nothing"
  BY <1>1 DEF N!Nothing
<1> QED
  BY <1>1, <1>2, <1>3 DEF TextRest, TextFits, After

LEMMA TextRestStep == ASSUME TextInv, TextRest, N!Next PROVE TextRest'
<1>1. /\ textEvents \in Seq(TextEvents) /\ said \in TextStates /\ textVersion \in {"V0", "V2"}
  BY DEF TextInv
<1>2. CASE N!SendPreeditCursor
  <2>1. PICK cursor \in N!Positions : N!Send([kind |-> "preeditCursor", index |-> cursor])
    BY <1>2 DEF N!SendPreeditCursor
  <2>2. cursor \in Int /\ cursor \in Offsets
    BY LengthsAssumption DEF N!Positions, Offsets
  <2> DEFINE e == [kind |-> "preeditCursor", index |-> cursor]
  <2>3. e \in TextEvents
    BY <2>2 DEF TextEvents
  <2>4. TextFits(textVersion, e)
    BY <2>2 DEF TextFits
  <2> QED
    BY <2>1, <2>3, <2>4, TextFitsSent
<1>3. CASE N!SendPreeditString
  <2> DEFINE m(text) == Composition(said, [text |-> text])
             e(text) == [kind |-> "preeditString", text |-> text, meant |-> m(text)]
  <2>1. PICK text \in Lengths : N!Send(e(text))
    BY <1>3 DEF N!SendPreeditString, Composition
  <2>2. text \in Int
    BY LengthsAssumption
  <2>3. m(text) \in PreEdits
    BY <1>1, <2>2 DEF Composition, TextStates, PreEdits
  <2> HIDE DEF m
  <2>4. e(text) \in TextEvents
    BY <2>2, <2>3 DEF TextEvents
  <2>5. TextFits(textVersion, e(text))
    BY DEF TextFits
  <2> HIDE DEF e
  <2> QED
    BY <2>1, <2>4, <2>5, TextFitsSent
<1>4. CASE N!SendCursorPosition
  <2> DEFINE e(c, a) == [kind |-> "cursorPosition", index |-> c, anchor |-> a]
  <2>1. PICK cursor \in N!Positions : \E anchor \in {0, cursor} : N!Send(e(cursor, anchor))
    BY <1>4 DEF N!SendCursorPosition
  <2>2. PICK anchor \in {0, cursor} : N!Send(e(cursor, anchor))
    BY <2>1
  <2>3. {cursor, anchor} \subseteq Int /\ {cursor, anchor} \subseteq Offsets
    BY LengthsAssumption DEF N!Positions, Offsets
  <2>4. e(cursor, anchor) \in TextEvents
    BY <2>3 DEF TextEvents
  <2>5. TextFits(textVersion, e(cursor, anchor))
    BY <2>3 DEF TextFits
  <2> HIDE DEF e
  <2> QED
    BY <2>2, <2>4, <2>5, TextFitsSent
<1>5. CASE N!SendDeleteSurroundingText
  <2> DEFINE e(before, after) ==
               [kind |-> "deleteSurroundingText",
                index |-> IF textVersion = "V0" THEN -before ELSE before,
                length |-> IF textVersion = "V0" THEN before + after ELSE after]
  <2>1. PICK before \in Lengths : \E after \in Lengths : N!Send(e(before, after))
    BY <1>5 DEF N!SendDeleteSurroundingText
  <2>2. PICK after \in Lengths : N!Send(e(before, after))
    BY <2>1
  <2>3. /\ before \in Nat /\ after \in Nat /\ (before + after - before) % Modulus = after
        /\ after \in 0 .. Modulus - 1
    BY PartLeft, LengthsAssumption
  <2>4. e(before, after) \in TextEvents
    <3>1. e(before, after).index \in Int /\ e(before, after).length \in Int
      BY <2>3
    <3> QED
      BY <3>1 DEF TextEvents
  <2>5. Before(e(before, after)) = before
    BY <2>3 DEF Before
  <2>6. After(textVersion, e(before, after)) = after
    BY <2>3, <2>5 DEF After
  <2>7. TextFits(textVersion, e(before, after))
    <3>1. e(before, after).kind = "deleteSurroundingText"
      OBVIOUS
    <3> HIDE DEF e
    <3> QED
      BY <2>3, <2>5, <2>6, <3>1 DEF TextFits
  <2> HIDE DEF e
  <2> QED
    BY <2>2, <2>4, <2>7, TextFitsSent
<1>6. CASE N!SendCommitString
  <2> DEFINE m(text) == Commitment(said, [text |-> text])
             e(text) == [kind |-> "commitString", text |-> text, meant |-> m(text)]
  <2>1. PICK text \in Lengths : N!Send(e(text))
    BY <1>6 DEF N!SendCommitString, Commitment
  <2>2. text \in Int
    BY LengthsAssumption
  <2>3. m(text) \in Commits
    BY <1>1, <2>2 DEF Commitment, TextStates, Commits
  <2> HIDE DEF m
  <2>4. e(text) \in TextEvents
    BY <2>2, <2>3 DEF TextEvents
  <2>5. TextFits(textVersion, e(text))
    BY DEF TextFits
  <2> HIDE DEF e
  <2> QED
    BY <2>1, <2>4, <2>5, TextFitsSent
<1>7. ASSUME NEW k, N!Takes(k)
      PROVE  /\ TextFits(textVersion, Head(textEvents)) /\ Head(textEvents).kind = k
             /\ \A i \in DOMAIN textEvents' : TextFits(textVersion, textEvents'[i])
             /\ textAsked'.kind = "nothing" /\ UNCHANGED textVersion
  <2>1. /\ textEvents # <<>> /\ textEvents' = Tail(textEvents) /\ Head(textEvents).kind = k
        /\ textAsked'.kind = "nothing" /\ UNCHANGED textVersion
    BY <1>7 DEF N!Takes, N!Nothing
  <2> HIDE DEF TextEvents
  <2>2. /\ Head(textEvents) = textEvents[1] /\ 1 \in DOMAIN textEvents
        /\ \A i \in DOMAIN textEvents' :
             i + 1 \in DOMAIN textEvents /\ textEvents'[i] = textEvents[i + 1]
    BY <1>1, <2>1
  <2> QED
    BY <2>1, <2>2 DEF TextRest
<1> DEFINE e == Head(textEvents)
<1>8. CASE N!preeditCursorCallback
  <2>1. /\ N!Takes("preeditCursor")
        /\ pendingPreEdit' = [pendingPreEdit EXCEPT !.cursor = e.index, !.cursorSet = TRUE]
        /\ UNCHANGED <<currentPreEdit, pendingCommit, currentCommit, meant>>
    BY <1>8 DEF N!preeditCursorCallback
  <2>2. e.index \in Offsets
    BY <1>7, <2>1 DEF TextFits
  <2>3. pendingPreEdit' \in TypedPreEdits
    BY <2>1, <2>2 DEF TextRest, TypedPreEdits
  <2> QED
    BY <1>7, <2>1, <2>3 DEF TextRest, TextFits, After
<1>9. CASE N!preeditStringCallback
  <2>1. /\ N!Takes("preeditString") /\ currentPreEdit' = N!Composed(e.text)
        /\ pendingPreEdit' = N!NoPreEdit
        /\ meant' = [meant EXCEPT !.preEdit = e.meant]
        /\ UNCHANGED <<pendingCommit, currentCommit>>
    BY <1>9 DEF N!preeditStringCallback
  <2>2. e.text \in Lengths \cup {0} /\ e.text \in Offsets
    BY <1>7, <2>1 DEF TextFits, Offsets, N!Positions
  <2>3. currentPreEdit' \in TypedPreEdits
    BY <2>1, <2>2 DEF TextRest, TypedPreEdits, N!Composed
  <2>4. DOMAIN meant' = {"preEdit", "commit"}
    BY <2>1 DEF TextRest
  <2> QED
    BY <1>7, <2>1, <2>3, <2>4, NothingWaits DEF TextRest, TextFits, After
<1>10. CASE N!cursorPositionCallback
  <2>1. /\ N!Takes("cursorPosition")
        /\ pendingCommit' = [pendingCommit EXCEPT !.cursor = e.index, !.anchor = e.anchor]
        /\ UNCHANGED <<pendingPreEdit, currentPreEdit, currentCommit, meant>>
    BY <1>10 DEF N!cursorPositionCallback
  <2>2. e.index \in Offsets /\ e.anchor \in Offsets
    BY <1>7, <2>1 DEF TextFits
  <2>3. pendingCommit' \in TypedCommits
    BY <2>1, <2>2 DEF TextRest, TypedCommits
  <2> QED
    BY <1>7, <2>1, <2>3 DEF TextRest, TextFits, After
<1>11. CASE N!deleteSurroundingTextCallback
  <2>1. /\ N!Takes("deleteSurroundingText")
        /\ pendingCommit' = [pendingCommit EXCEPT !.beforeLength = Before(e),
                                                  !.afterLength = After(textVersion, e)]
        /\ UNCHANGED <<pendingPreEdit, currentPreEdit, currentCommit, meant>>
    BY <1>11 DEF N!deleteSurroundingTextCallback, Before, After
  <2>2. Before(e) \in Nat /\ After(textVersion, e) \in 0 .. Modulus - 1
    BY <1>7, <2>1 DEF TextFits
  <2>3. pendingCommit' \in TypedCommits
    BY <2>1, <2>2 DEF TextRest, TypedCommits
  <2> QED
    BY <1>7, <2>1, <2>3 DEF TextRest, TextFits, After
<1>12. CASE N!commitStringCallback
  <2>1. /\ N!Takes("commitString") /\ currentCommit' = [pendingCommit EXCEPT !.text = e.text]
        /\ pendingCommit' = N!NoCommit
        /\ meant' = [meant EXCEPT !.commit = e.meant]
        /\ UNCHANGED <<pendingPreEdit, currentPreEdit>>
    BY <1>12 DEF N!commitStringCallback
  <2>2. e.text \in Lengths \cup {0}
    BY <1>7, <2>1 DEF TextFits
  <2>3. currentCommit' \in TypedCommits
    BY <2>1, <2>2 DEF TextRest, TypedCommits
  <2>4. DOMAIN meant' = {"preEdit", "commit"}
    BY <2>1 DEF TextRest
  <2> QED
    BY <1>7, <2>1, <2>3, <2>4, NothingWaits DEF TextRest, TextFits, After
<1>13. CASE N!setSurroundingText
  <2>1. /\ textAsked'.kind = "setSurroundingText"
        /\ UNCHANGED <<textVersion, pendingPreEdit, currentPreEdit, pendingCommit,
                       currentCommit, said, textEvents, meant>>
    BY <1>13 DEF N!setSurroundingText
  <2> QED
    BY <2>1 DEF TextRest, TextFits, After
<1> QED
  BY <1>2, <1>3, <1>4, <1>5, <1>6, <1>8, <1>9, <1>10, <1>11, <1>12, <1>13 DEF N!Next

\* The rest of a manager and its child.
WrappersRest ==
  /\ connection \in 0 .. MaxConnections /\ connections \in 0 .. MaxConnections
  /\ foreign \in [W!Objects -> BOOLEAN] /\ renewed \in [W!Objects -> BOOLEAN]

LEMMA WrappersRestStarts == W!Init => WrappersRest
<1> SUFFICES ASSUME W!Init PROVE WrappersRest
  OBVIOUS
<1>1. 0 \in 0 .. MaxConnections
  BY BoundsAssumption
<1> QED
  BY <1>1 DEF WrappersRest, W!Init

LEMMA WrapperTypes == ASSUME WrappersInv, WrappersRest PROVE W!TypeOK
<1>1. 0 \in 0 .. MaxConnections
  BY BoundsAssumption
<1>2. ASSUME NEW o \in W!Objects PROVE held[o] \in [W!Proxies(o) -> 0 .. MaxConnections]
  <2>1. connection \in 0 .. MaxConnections
    BY DEF WrappersRest
  <2>2. W!Nothing(o) \in [W!Proxies(o) -> 0 .. MaxConnections]
    BY <1>1 DEF W!Nothing
  <2>3. W!Bound(o, connection) \in [W!Proxies(o) -> 0 .. MaxConnections]
    BY <2>1 DEF W!Bound
  <2>4. held[o] = W!Nothing(o) \/ held[o] = W!Bound(o, connection)
    BY DEF WrappersInv, AllOrNothing
  <2> QED
    BY <2>2, <2>3, <2>4
<1> QED
  BY <1>2 DEF WrappersInv, WrappersType, WrappersRest, W!TypeOK

LEMMA WrappersRestStep == ASSUME WrappersInv, WrappersRest, W!Next PROVE WrappersRest'
<1>1. 0 \in 0 .. MaxConnections /\ MaxConnections \in Nat
  BY BoundsAssumption
<1>2. connection' \in 0 .. MaxConnections /\ connections' \in 0 .. MaxConnections
  <2>1. CASE W!Connect
    <3>1. /\ connections < MaxConnections
          /\ connections' = connections + 1 /\ connection' = connections + 1
      BY <2>1 DEF W!Connect
    <3> QED
      BY <1>1, <3>1 DEF WrappersRest
  <2>2. CASE UNCHANGED connections /\ connection' \in {0, connection}
    BY <1>1, <2>2 DEF WrappersRest
  <2>3. W!Connect \/ (UNCHANGED connections /\ connection' \in {0, connection})
    BY DEF W!Next, W!Construct, W!CreateChild, W!ConnectionDies, W!DeleteChild,
           W!DeleteManager, W!EndEvent, W!Setup, W!FromApplication, W!Request, W!Remember,
           W!Release
  <2> QED
    BY <2>1, <2>2, <2>3
<1>3. foreign' \in [W!Objects -> BOOLEAN]
  <2>1. foreign' = foreign \/ \E o \in W!Objects, b \in BOOLEAN : foreign' = [foreign EXCEPT ![o] = b]
    BY DEF W!Next, W!Connect, W!Construct, W!CreateChild, W!ConnectionDies, W!DeleteChild,
           W!DeleteManager, W!EndEvent, W!Setup, W!FromApplication, W!Request, W!Remember,
           W!Release, W!Objects
  <2> QED
    BY <2>1 DEF WrappersRest
<1>4. renewed' \in [W!Objects -> BOOLEAN]
  <2>1. renewed' = renewed \/ \E o \in W!Objects, b \in BOOLEAN : renewed' = [renewed EXCEPT ![o] = b]
    BY DEF W!Next, W!Connect, W!Construct, W!CreateChild, W!ConnectionDies, W!DeleteChild,
           W!DeleteManager, W!EndEvent, W!Setup, W!FromApplication, W!Request, W!Remember,
           W!Release, W!Objects
  <2> QED
    BY <2>1 DEF WrappersRest
<1> QED
  BY <1>2, <1>3, <1>4 DEF WrappersRest

LeftLooked ==
  /\ component = "XdgShell" => XdgRest
  /\ component = "OutputExtensions" => ExtensionRest
  /\ component = "DataDevice" => OffersRest
  /\ component = "TextInput" => TextRest
  /\ component = "Wrappers" => WrappersRest

LEMMA LeftStarts == Init => LeftLooked
BY XdgRestStarts, ExtensionRestStarts, OffersRestStarts, TextRestStarts, WrappersRestStarts
   DEF Init, LeftLooked

\* What the invariants of the components say together.
AllLooked == ConfigureLooked /\ BatchesLooked /\ OffersLooked /\ WrappersLooked

LEMMA LeftGoesOn == ASSUME AllLooked, LeftLooked, [Next]_vars PROVE LeftLooked'
<1>1. ASSUME component' = "XdgShell" PROVE XdgRest'
  <2>1. component = "XdgShell" /\ (X!Next \/ UNCHANGED xdgVars)
    BY <1>1 DEF Next, ViewsNext, vars
  <2>2. XdgInv /\ XdgRest
    BY <2>1 DEF AllLooked, ConfigureLooked, LeftLooked
  <2>3. CASE UNCHANGED xdgVars
    BY <2>2, <2>3 DEF xdgVars, XdgRest
  <2> QED
    BY <2>1, <2>2, <2>3, XdgRestStep
<1>2. ASSUME component' = "OutputExtensions" PROVE ExtensionRest'
  <2>1. component = "OutputExtensions" /\ (E!Next \/ UNCHANGED extensionVars)
    BY <1>2 DEF Next, ViewsNext, vars
  <2>2. ExtensionInv /\ ExtensionRest
    BY <2>1 DEF AllLooked, BatchesLooked, LeftLooked
  <2>3. CASE UNCHANGED extensionVars
    BY <2>2, <2>3 DEF extensionVars, ExtensionRest, Fitting, Keeping
  <2> QED
    BY <2>1, <2>2, <2>3, ExtensionRestStep
<1>3. ASSUME component' = "DataDevice" PROVE OffersRest'
  <2>1. component = "DataDevice" /\ (D!Next \/ UNCHANGED dataVars)
    BY <1>3 DEF Next, ViewsNext, vars
  <2>2. OffersInv /\ OffersRest
    BY <2>1 DEF AllLooked, OffersLooked, LeftLooked
  <2>3. CASE UNCHANGED dataVars
    BY <2>2, <2>3 DEF dataVars, OffersRest
  <2> QED
    BY <2>1, <2>2, <2>3, OffersRestStep
<1>4. ASSUME component' = "TextInput" PROVE TextRest'
  <2>1. component = "TextInput" /\ (N!Next \/ UNCHANGED textVars)
    BY <1>4 DEF Next, ViewsNext, vars
  <2>2. TextInv /\ TextRest
    BY <2>1 DEF AllLooked, BatchesLooked, LeftLooked
  <2>3. CASE UNCHANGED textVars
    BY <2>2, <2>3 DEF textVars, TextRest
  <2> QED
    BY <2>1, <2>2, <2>3, TextRestStep
<1>5. ASSUME component' = "Wrappers" PROVE WrappersRest'
  <2>1. component = "Wrappers" /\ (W!Next \/ UNCHANGED wrapperVars)
    BY <1>5 DEF Next, ViewsNext, vars
  <2>2. WrappersInv /\ WrappersRest
    BY <2>1 DEF AllLooked, WrappersLooked, LeftLooked
  <2>3. CASE UNCHANGED wrapperVars
    BY <2>2, <2>3 DEF wrapperVars, WrappersRest
  <2> QED
    BY <2>1, <2>2, <2>3, WrappersRestStep
<1> QED
  BY <1>1, <1>2, <1>3, <1>4, <1>5 DEF LeftLooked

-----------------------------------------------------------------------------
(* The interfaces that show what the compositor has.                       *)

LEMMA ViewsTakeTheirSteps == Spec => ViewsSpec
<1>1. Init => ViewsInit
  BY DEF Init
<1>2. [Next]_vars => [ViewsNext]_<<component, viewVars>>
  BY DEF Next, vars
<1> QED
  BY <1>1, <1>2, PTL DEF Spec, ViewsSpec

\* What a view of the model shows is what the window says at any time, in every role but
\* Pid, whose change is not announced: every other setter of a PlasmaWindow signals the
\* roles its change is seen in, and no others need to be read again
\* (PlasmaWindowModel::addWindow).
THEOREM ViewsAreFresh == Spec => []ViewIsFresh
BY ViewAlwaysFresh, ViewsTakeTheirSteps, PTL

\* With no event on its way the seat, its device and the touch sequence agree with the
\* compositor, in every order of enter, leave, the loss of a capability, the end of
\* surfaces, and touch points whose numbers are used again (Surface::get,
\* Pointer::Private::enter, Touch::Private::down).
THEOREM InputIsFollowed == Spec => []InputFollows
BY InputAlwaysFollows, ViewsTakeTheirSteps, PTL

\* The list of desktops and what its objects say, the order of the windows, the objects
\* of the shell and the attributes of a window are the compositor's once everything has
\* arrived, whatever is asked for meanwhile; on the way there no event of the desktops
\* misses its place (createdCallback, removedCallback, stackingOrderDone,
\* PlasmaShell::createSurface, PlasmaWindow's callbacks).  Of objects of desktops that are
\* not on the list, and of native surfaces no Surface wraps, nothing is said: there are
\* several of them, against two headers (see OneForEachSurface and ListIsLive).
THEOREM ListsAreFollowed == Spec => []ListsFollow
BY ListsAlwaysFollow, ViewsTakeTheirSteps, PTL

\* Every interface is in a state of its types: an announced serial was sent, an attribute
\* has a value of its own kind and never a mode that is not known, an offer that is held
\* was announced, what is deleted after a cursor is no wrapped difference, and a proxy
\* is of a connection there was.
THEOREM TypeCorrect == Spec => []TypeOK
<1> DEFINE Whole == AllLooked /\ LeftLooked
<1>1. Init => Whole
  BY ConfigureStart, BatchesStart, OffersStart, WrappersStart, LeftStarts DEF AllLooked
<1>2. Whole /\ [Next]_vars => Whole'
  BY ConfigureGoesOn, BatchesGoOn, OffersGoOn, WrappersGoOn, LeftGoesOn DEF AllLooked
<1>3. Whole /\ ViewsTypeOK => TypeOK
  BY XdgTyped, ExtensionTyped, OffersTyped, TextTyped, WrapperTypes
     DEF AllLooked, LeftLooked, ConfigureLooked, BatchesLooked, OffersLooked,
         WrappersLooked, TypeOK
<1>4. Spec => []ViewsTypeOK
  BY ViewsAlwaysTyped, ViewsTakeTheirSteps, PTL
<1> HIDE DEF Whole
<1> QED
  BY <1>1, <1>2, <1>3, <1>4, PTL DEF Spec

=============================================================================
