----------------------- MODULE CompositorViewsProofs -----------------------
(***************************************************************************)
(* Proofs about the interfaces that show what the compositor has.  What is *)
(* on its way replays the compositor's changes to what the client has; for *)
(* each interface the invariant says what a change is and in which order   *)
(* changes may be on their way.                                            *)
(***************************************************************************)
EXTENDS CompositorViews, Replay, FiniteSetTheorems, TLAPS

-----------------------------------------------------------------------------
(* A window's attributes and the view of them.                             *)

\* What is sent about a window.
WindowEvents ==
  [kind : {"state"}, flags : SUBSET Flags]
    \cup [kind : {"entered", "left"}, desktop : Desktops]
    \cup [kind : {"attribute"}, attribute : Fields, value : Titles]
    \cup [kind : {"icon"}, icon : Nat]

WindowType ==
  /\ windowVersion \in {7, 8}
  /\ windowEvents \in Seq(WindowEvents)
  /\ DOMAIN windowServer = {"flags", "desktops", "icon", "attributes"}
  /\ windowServer.icon \in Nat /\ windowServer.flags \subseteq Flags
  /\ DOMAIN window = {"flags", "desktops", "icon", "attributes"}
  /\ window.desktops \in Seq(Desktops)
  /\ windowRequests \in Seq([flag : Flags, set : BOOLEAN])

LEMMA WindowKeptIs == \A s, places : A!Kept(s, places) = Kept(s, places)
<1>1. \A set : A!Cardinality(set) = Cardinality(set)
  BY DEF A!Cardinality, Cardinality
<1>2. \A places, k : A!Rank(places, k) = Rank(places, k)
  BY <1>1 DEF A!Rank, Rank
<1> TAKE s, places
<1>3. A!Kept(s, places) =
        [n \in 1 .. Cardinality(places) |->
           s[CHOOSE k \in places : A!Rank(places, k) = n]]
  BY <1>1 DEF A!Kept
<1>4. \A n \in 1 .. Cardinality(places) :
        (CHOOSE k \in places : A!Rank(places, k) = n)
          = (CHOOSE k \in places : Rank(places, k) = n)
  BY <1>2
<1> QED
  BY <1>3, <1>4 DEF Kept

LEMMA WindowInit == A!Init => WindowType /\ A!ViewIsFresh
BY DEF A!Init, WindowType, A!ViewIsFresh, A!Fallback

\* The list of desktops after one is left.
LEMMA LeftDesktops ==
  ASSUME NEW s \in Seq(Desktops), NEW d
  PROVE  LET t == A!Kept(s, {i \in DOMAIN s : s[i] # d})
         IN  /\ t \in Seq(Desktops)
             /\ t # <<>> => s # <<>>
<1> DEFINE places == {i \in DOMAIN s : s[i] # d}
           t == Kept(s, places)
<1>1. places \in SUBSET DOMAIN s
  OBVIOUS
<1>2. A!Kept(s, places) = t
  BY WindowKeptIs
<1>3. /\ t \in Seq(Desktops) /\ Len(t) = Cardinality(places)
  <2> HIDE DEF places
  <2> QED
    BY <1>1, KeptFacts
<1>4. s = <<>> => t = <<>>
  <2> SUFFICES ASSUME s = <<>> PROVE t = <<>>
    OBVIOUS
  <2>1. places = {}
    OBVIOUS
  <2>2. Cardinality(places) = 0
    <3> HIDE DEF places
    <3> QED
      BY <2>1, FS_EmptySet
  <2> HIDE DEF t, places
  <2> QED
    BY <1>3, <2>2
<1> HIDE DEF t, places
<1> QED
  BY <1>2, <1>3, <1>4 DEF places

\* The roles the view has to be fresh in.
Signalled == A!Roles \ {"pid"}

\* A view that reads the roles which changed shows the window.
LEMMA RefreshedIs ==
  ASSUME A!ViewIsFresh, NEW w, NEW roles,
         \A r \in Signalled : r \notin roles => A!data(w)[r] = A!data(window)[r]
  PROVE  \A r \in Signalled : A!Refreshed(w, roles)[r] = A!data(w)[r]
<1> SUFFICES ASSUME NEW r \in Signalled PROVE A!Refreshed(w, roles)[r] = A!data(w)[r]
  OBVIOUS
<1>1. A!Refreshed(w, roles)[r] = IF r \in roles THEN A!data(w)[r] ELSE view[r]
  BY DEF A!Refreshed, Signalled
<1>2. view[r] = A!data(window)[r]
  BY DEF A!ViewIsFresh, Signalled
<1> QED
  BY <1>1, <1>2

\* What the roles of a window are made of.
LEMMA DataOf ==
  ASSUME NEW w, NEW u
  PROVE  /\ A!isOnAllDesktops(w) = A!isOnAllDesktops(u)
              => A!data(w)["on_all_desktops"] = A!data(u)["on_all_desktops"]
         /\ w.desktops = u.desktops => A!data(w)["desktops"] = A!data(u)["desktops"]
         /\ w.icon = u.icon => A!data(w)["icon"] = A!data(u)["icon"]
         /\ \A a \in Fields :
              w.attributes[a] = u.attributes[a] => A!data(w)[a] = A!data(u)[a]
         /\ \A f \in Flags \ {"on_all_desktops"} :
              (f \in w.flags <=> f \in u.flags) => A!data(w)[f] = A!data(u)[f]
<1>1. ASSUME NEW v
      PROVE  /\ A!data(v)["on_all_desktops"] = A!isOnAllDesktops(v)
             /\ A!data(v)["desktops"] = v.desktops
             /\ A!data(v)["icon"] = v.icon
             /\ \A a \in Fields : A!data(v)[a] = v.attributes[a]
             /\ \A f \in Flags \ {"on_all_desktops"} : A!data(v)[f] = (f \in v.flags)
  BY ViewsAssumption DEF A!data, A!Roles
<1> QED
  BY <1>1

\* A step changes the type of nothing.
LEMMA WindowTyped ==
  WindowType /\ A!Next => WindowType'
<1> SUFFICES ASSUME WindowType, A!Next PROVE WindowType'
  OBVIOUS
<1>1. windowEvents # <<>> => /\ Tail(windowEvents) \in Seq(WindowEvents)
                             /\ Head(windowEvents) \in WindowEvents
  BY DEF WindowType
<1>2. ASSUME NEW e \in WindowEvents, A!Send(e),
             DOMAIN windowServer' = DOMAIN windowServer, windowServer'.icon \in Nat,
             windowServer'.flags \subseteq Flags,
             windowRequests' \in Seq([flag : Flags, set : BOOLEAN])
      PROVE  WindowType'
  BY <1>2 DEF A!Send, WindowType, WindowEvents
<1>3. CASE A!ChangeFlags
  <2>1. PICK flags \in SUBSET Flags :
          /\ windowServer' = [windowServer EXCEPT !.flags = flags]
          /\ A!Send(A!StateEvent(flags)) /\ UNCHANGED windowRequests
    BY <1>3 DEF A!ChangeFlags
  <2>2. A!StateEvent(flags) \in WindowEvents
    BY DEF A!StateEvent, WindowEvents
  <2> QED
    BY <1>2, <2>1, <2>2 DEF WindowType
<1>4. CASE A!ServeSetState
  <2> DEFINE r == Head(windowRequests)
             flags == IF r.set THEN windowServer.flags \cup {r.flag}
                      ELSE windowServer.flags \ {r.flag}
  <2>1. /\ r \in [flag : Flags, set : BOOLEAN]
        /\ windowRequests' \in Seq([flag : Flags, set : BOOLEAN])
    <3> DEFINE all == [flag : Flags, set : BOOLEAN]
    <3>1. /\ windowRequests \in Seq(all) /\ windowRequests # <<>>
          /\ windowRequests' = Tail(windowRequests)
      BY <1>4 DEF A!ServeSetState, WindowType
    <3> HIDE DEF all
    <3>2. Head(windowRequests) \in all /\ windowRequests' \in Seq(all)
      BY <3>1
    <3> QED
      BY <3>2 DEF all
  <2>2. /\ windowServer' = [windowServer EXCEPT !.flags = flags]
        /\ A!Send(A!StateEvent(flags))
    BY <1>4 DEF A!ServeSetState
  <2>3. flags \in SUBSET Flags
    BY <2>1 DEF WindowType
  <2> HIDE DEF flags, r
  <2>4. A!StateEvent(flags) \in WindowEvents
    BY <2>3 DEF A!StateEvent, WindowEvents
  <2>5. /\ DOMAIN windowServer' = DOMAIN windowServer
        /\ windowServer'.icon = windowServer.icon
        /\ windowServer'.flags = flags
    BY <2>2 DEF WindowType
  <2>6. windowServer.icon \in Nat
    BY DEF WindowType
  <2> QED
    BY <1>2, <2>1, <2>2, <2>3, <2>4, <2>5, <2>6
<1>5. CASE A!ChangeDesktops
  <2>1. PICK d \in Desktops :
          /\ A!Send([kind |-> IF d \notin windowServer.desktops THEN "entered" ELSE "left",
                     desktop |-> d])
          /\ windowServer' = [windowServer EXCEPT !.desktops =
                                IF d \notin windowServer.desktops THEN @ \cup {d} ELSE @ \ {d}]
          /\ UNCHANGED windowRequests
    BY <1>5 DEF A!ChangeDesktops
  <2>2. [kind |-> IF d \notin windowServer.desktops THEN "entered" ELSE "left",
         desktop |-> d] \in WindowEvents
    BY DEF WindowEvents
  <2> QED
    BY <1>2, <2>1, <2>2 DEF WindowType
<1>6. CASE A!ChangeAttribute
  <2>1. PICK a \in Fields, t \in Titles :
          /\ windowServer' = [windowServer EXCEPT !.attributes[a] = t]
          /\ A!Send([kind |-> "attribute", attribute |-> a, value |-> t])
          /\ UNCHANGED windowRequests
    BY <1>6 DEF A!ChangeAttribute
  <2>2. [kind |-> "attribute", attribute |-> a, value |-> t] \in WindowEvents
    BY DEF WindowEvents
  <2> QED
    BY <1>2, <2>1, <2>2 DEF WindowType
<1>7. CASE A!ChangeIcon
  <2>1. [kind |-> "icon", icon |-> windowServer.icon + 1] \in WindowEvents
    BY DEF WindowEvents, WindowType
  <2>2. /\ windowServer' = [windowServer EXCEPT !.icon = @ + 1]
        /\ A!Send([kind |-> "icon", icon |-> windowServer.icon + 1])
        /\ UNCHANGED windowRequests
    BY <1>7 DEF A!ChangeIcon
  <2>3. /\ DOMAIN windowServer' = DOMAIN windowServer
        /\ windowServer'.icon = windowServer.icon + 1
        /\ windowServer'.flags = windowServer.flags
    BY <2>2 DEF WindowType
  <2>4. /\ windowServer'.icon \in Nat /\ windowServer'.flags \subseteq Flags
        /\ windowRequests' \in Seq([flag : Flags, set : BOOLEAN])
    BY <2>2, <2>3 DEF WindowType
  <2> QED
    BY <1>2, <2>1, <2>2, <2>3, <2>4
<1>8. CASE A!Toggle
  <2>1. windowRequests' \in Seq([flag : Flags, set : BOOLEAN])
    BY <1>8 DEF A!Toggle, WindowType
  <2> QED
    BY <1>8, <2>1 DEF A!Toggle, WindowType, WindowEvents
<1>9. ASSUME windowEvents # <<>>, windowEvents' = Tail(windowEvents),
             UNCHANGED <<windowVersion, windowServer, windowRequests>>,
             DOMAIN window' = DOMAIN window, window'.desktops \in Seq(Desktops)
      PROVE  WindowType'
  BY <1>1, <1>9 DEF WindowType, WindowEvents
<1>10. CASE A!stateChangedCallback \/ A!attributeCallback \/ A!pidChangedCallback
            \/ A!themedIconNameChangedCallback \/ A!iconChangedCallback
  <2>1. /\ windowEvents # <<>> /\ windowEvents' = Tail(windowEvents)
        /\ UNCHANGED <<windowVersion, windowServer, windowRequests>>
    BY <1>10 DEF A!stateChangedCallback, A!attributeCallback, A!pidChangedCallback,
         A!themedIconNameChangedCallback, A!iconChangedCallback, A!Takes
  <2>2. DOMAIN window' = DOMAIN window /\ window'.desktops = window.desktops
    BY <1>10 DEF WindowType, A!stateChangedCallback, A!attributeCallback, A!pidChangedCallback,
         A!themedIconNameChangedCallback, A!iconChangedCallback
  <2> QED
    BY <1>9, <2>1, <2>2 DEF WindowType
<1>11. CASE A!virtualDesktopEnteredCallback
  <2>1. Head(windowEvents).desktop \in Desktops
    BY <1>1, <1>11 DEF A!virtualDesktopEnteredCallback, A!Takes, WindowEvents
  <2> QED
    BY <1>9, <1>11, <2>1 DEF A!virtualDesktopEnteredCallback, A!Takes, WindowType
<1>12. CASE A!virtualDesktopLeftCallback
  <2>1. window' = [window EXCEPT !.desktops =
                     A!Kept(window.desktops, {i \in DOMAIN window.desktops :
                              window.desktops[i] # Head(windowEvents).desktop})]
    BY <1>12 DEF A!virtualDesktopLeftCallback
  <2>2. DOMAIN window' = DOMAIN window /\ window'.desktops \in Seq(Desktops)
    BY <2>1, LeftDesktops DEF WindowType
  <2> QED
    BY <1>9, <1>12, <2>2 DEF A!virtualDesktopLeftCallback, A!Takes
<1>13. CASE A!IconFetched
  BY <1>13 DEF A!IconFetched, WindowType, WindowEvents
<1> QED
  BY <1>3, <1>4, <1>5, <1>6, <1>7, <1>8, <1>10, <1>11, <1>12, <1>13 DEF A!Next

\* The view is fresh after every step.
LEMMA ViewStaysFresh ==
  WindowType /\ A!ViewIsFresh /\ A!Next => A!ViewIsFresh'
<1> SUFFICES ASSUME WindowType, A!ViewIsFresh, A!Next PROVE A!ViewIsFresh'
  OBVIOUS
<1>0. windowVersion' = windowVersion => A!data(window)' = A!data(window')
  BY DEF A!data, A!isOnAllDesktops
<1>2. ASSUME NEW roles, UNCHANGED windowVersion, view' = A!Refreshed(window', roles),
             \A r \in Signalled : r \notin roles => A!data(window')[r] = A!data(window)[r]
      PROVE  A!ViewIsFresh'
  <2>1. \A r \in Signalled : A!Refreshed(window', roles)[r] = A!data(window')[r]
    BY <1>2, RefreshedIs
  <2> QED
    BY <1>0, <1>2, <2>1 DEF A!ViewIsFresh, Signalled, A!Roles
<1>3. ASSUME UNCHANGED <<windowVersion, view>>,
             \A r \in Signalled : A!data(window')[r] = A!data(window)[r]
      PROVE  A!ViewIsFresh'
  BY <1>0, <1>3 DEF A!ViewIsFresh, Signalled, A!Roles
<1>4. ASSUME UNCHANGED <<windowVersion, window, view>> PROVE A!ViewIsFresh'
  BY <1>3, <1>4
<1>5. CASE A!ChangeFlags \/ A!ServeSetState \/ A!ChangeDesktops \/ A!ChangeAttribute
           \/ A!ChangeIcon \/ A!Toggle \/ A!iconChangedCallback
  BY <1>4, <1>5 DEF A!ChangeFlags, A!ServeSetState, A!ChangeDesktops, A!ChangeAttribute,
     A!ChangeIcon, A!Toggle, A!iconChangedCallback, A!Send, A!Takes
<1>6. CASE A!stateChangedCallback
  <2> DEFINE new == Head(windowEvents).flags
             roles == (window.flags \ new) \cup (new \ window.flags)
  <2>1. /\ UNCHANGED windowVersion /\ window' = [window EXCEPT !.flags = new]
        /\ view' = A!Refreshed(window', roles)
    BY <1>6 DEF A!stateChangedCallback, A!Takes
  <2>2. /\ window'.flags = new /\ window'.desktops = window.desktops
        /\ window'.attributes = window.attributes /\ window'.icon = window.icon
    BY <2>1 DEF WindowType
  <2>3. \A f : f \notin roles => (f \in window'.flags <=> f \in window.flags)
    BY <2>2
  <2> HIDE DEF roles, new
  <2>4. "on_all_desktops" \notin roles
          => A!isOnAllDesktops(window') = A!isOnAllDesktops(window)
    BY <2>2, <2>3 DEF A!isOnAllDesktops
  <2>5. \A r \in Signalled : r \notin roles => A!data(window')[r] = A!data(window)[r]
    BY <2>2, <2>3, <2>4, DataOf DEF Signalled, A!Roles
  <2> QED
    BY <1>2, <2>1, <2>5
\* A list of desktops that is empty before and after, or neither.
<1>7. ASSUME NEW roles, UNCHANGED windowVersion, "desktops" \in roles,
             \E ds : window' = [window EXCEPT !.desktops = ds],
             view' = A!Refreshed(window', roles),
             "on_all_desktops" \notin roles
               => (window'.desktops = <<>> <=> window.desktops = <<>>)
      PROVE  A!ViewIsFresh'
  <2>1. /\ window'.flags = window.flags
        /\ window'.attributes = window.attributes /\ window'.icon = window.icon
    BY <1>7 DEF WindowType
  <2>2. "on_all_desktops" \notin roles
          => A!isOnAllDesktops(window') = A!isOnAllDesktops(window)
    BY <1>7, <2>1 DEF A!isOnAllDesktops
  <2>3. \A r \in Signalled : r \notin roles => A!data(window')[r] = A!data(window)[r]
    <3> SUFFICES ASSUME NEW r \in Signalled, r \notin roles
                 PROVE  A!data(window')[r] = A!data(window)[r]
      OBVIOUS
    <3>1. \/ r = "on_all_desktops" \/ r = "icon" \/ r \in Fields
          \/ r \in Flags \ {"on_all_desktops"}
      BY <1>7 DEF Signalled, A!Roles
    <3>2. CASE r = "on_all_desktops"
      BY <2>2, <3>2, DataOf
    <3>3. CASE r = "icon"
      BY <2>1, <3>3, DataOf
    <3>4. CASE r \in Fields
      <4>1. window'.attributes[r] = window.attributes[r]
        BY <2>1
      <4> QED
        BY <3>4, <4>1, DataOf
    <3>5. CASE r \in Flags \ {"on_all_desktops"}
      <4>1. r \in window'.flags <=> r \in window.flags
        BY <2>1
      <4> QED
        BY <3>5, <4>1, DataOf
    <3> QED
      BY <3>1, <3>2, <3>3, <3>4, <3>5
  <2> QED
    BY <1>2, <1>7, <2>3
<1>8. CASE A!virtualDesktopEnteredCallback
  <2> DEFINE list == Append(window.desktops, Head(windowEvents).desktop)
             roles == {"desktops"} \cup (IF Len(window'.desktops) = 1
                                         THEN {"on_all_desktops"} ELSE {})
  <2>1. /\ UNCHANGED windowVersion /\ window' = [window EXCEPT !.desktops = list]
        /\ view' = A!Refreshed(window', roles)
    BY <1>8 DEF A!virtualDesktopEnteredCallback, A!Takes
  <2>2. Head(windowEvents).desktop \in Desktops
    <3>1. Head(windowEvents) \in WindowEvents /\ Head(windowEvents).kind = "entered"
      BY <1>8 DEF A!virtualDesktopEnteredCallback, A!Takes, WindowType
    <3> QED
      BY <3>1 DEF WindowEvents
  <2>3. Len(list) # 1 => list # <<>> /\ window.desktops # <<>>
    BY <2>2 DEF WindowType
  <2>4. window'.desktops = list
    BY <2>1 DEF WindowType
  <2> HIDE DEF list
  <2>5. /\ "desktops" \in roles
        /\ "on_all_desktops" \notin roles => Len(window'.desktops) # 1
    OBVIOUS
  <2> HIDE DEF roles
  <2> QED
    BY <1>7, <2>1, <2>3, <2>4, <2>5
<1>9. CASE A!virtualDesktopLeftCallback
  <2> DEFINE list == A!Kept(window.desktops,
                            {i \in DOMAIN window.desktops :
                               window.desktops[i] # Head(windowEvents).desktop})
             roles == {"desktops"} \cup (IF window'.desktops = <<>>
                                         THEN {"on_all_desktops"} ELSE {})
  <2>1. /\ UNCHANGED windowVersion /\ window' = [window EXCEPT !.desktops = list]
        /\ view' = A!Refreshed(window', roles)
    BY <1>9 DEF A!virtualDesktopLeftCallback, A!Takes
  <2>2. list # <<>> => window.desktops # <<>>
    BY LeftDesktops DEF WindowType
  <2>3. window'.desktops = list
    BY <2>1 DEF WindowType
  <2> HIDE DEF list
  <2>4. /\ "desktops" \in roles
        /\ "on_all_desktops" \notin roles => window'.desktops # <<>>
    OBVIOUS
  <2> HIDE DEF roles
  <2> QED
    BY <1>7, <2>1, <2>2, <2>3, <2>4
<1>10. ASSUME NEW a, NEW x, UNCHANGED windowVersion,
              window' = [window EXCEPT !.attributes[a] = x],
              view' = A!Refreshed(window', {a}) \/ (a = "pid" /\ view' = view)
       PROVE  A!ViewIsFresh'
  <2>1. /\ window'.flags = window.flags /\ window'.desktops = window.desktops
        /\ window'.icon = window.icon
        /\ window'.attributes = [window.attributes EXCEPT ![a] = x]
    BY <1>10 DEF WindowType
  <2>2. A!isOnAllDesktops(window') = A!isOnAllDesktops(window)
    BY <2>1 DEF A!isOnAllDesktops
  <2>3. \A b \in Fields : b # a => window'.attributes[b] = window.attributes[b]
    BY <2>1
  <2>4. \A r \in Signalled : r # a => A!data(window')[r] = A!data(window)[r]
    <3> SUFFICES ASSUME NEW r \in Signalled, r # a
                 PROVE  A!data(window')[r] = A!data(window)[r]
      OBVIOUS
    <3>1. \/ r \in {"on_all_desktops", "desktops", "icon"} \/ r \in Fields
          \/ r \in Flags \ {"on_all_desktops"}
      BY DEF Signalled, A!Roles
    <3>2. CASE r \in {"on_all_desktops", "desktops", "icon"}
      BY <2>1, <2>2, <3>2, DataOf
    <3>3. CASE r \in Fields
      <4>1. window'.attributes[r] = window.attributes[r]
        BY <2>3, <3>3
      <4> QED
        BY <3>3, <4>1, DataOf
    <3>4. CASE r \in Flags \ {"on_all_desktops"}
      <4>1. r \in window'.flags <=> r \in window.flags
        BY <2>1
      <4> QED
        BY <3>4, <4>1, DataOf
    <3> QED
      BY <3>1, <3>2, <3>3, <3>4
  <2>5. CASE view' = A!Refreshed(window', {a})
    BY <1>2, <1>10, <2>4, <2>5
  <2>6. CASE a = "pid" /\ view' = view
    BY <1>3, <1>10, <2>4, <2>6 DEF Signalled
  <2> QED
    BY <1>10, <2>5, <2>6
<1>11. CASE A!attributeCallback
  <2> DEFINE e == Head(windowEvents)
  <2>1. UNCHANGED windowVersion
    BY <1>11 DEF A!attributeCallback, A!Takes
  <2>2. CASE UNCHANGED <<window, view>>
    BY <1>4, <2>1, <2>2
  <2>3. CASE /\ window' = [window EXCEPT !.attributes[e.attribute] = e.value]
             /\ view' = A!Refreshed(window', {e.attribute})
    BY <1>10, <2>1, <2>3
  <2> QED
    BY <1>11, <2>2, <2>3 DEF A!attributeCallback
<1>12. CASE A!pidChangedCallback
  BY <1>10, <1>12 DEF A!pidChangedCallback, A!Takes
<1>13. CASE A!themedIconNameChangedCallback \/ A!IconFetched
  <2>1. PICK x : /\ UNCHANGED windowVersion /\ window' = [window EXCEPT !.icon = x]
                 /\ view' = A!Refreshed(window', {"icon"})
    BY <1>13 DEF A!themedIconNameChangedCallback, A!IconFetched, A!Takes
  <2>2. /\ window'.flags = window.flags /\ window'.desktops = window.desktops
        /\ window'.attributes = window.attributes
    BY <2>1 DEF WindowType
  <2>3. A!isOnAllDesktops(window') = A!isOnAllDesktops(window)
    BY <2>2 DEF A!isOnAllDesktops
  <2>4. \A r \in Signalled : r \notin {"icon"} => A!data(window')[r] = A!data(window)[r]
    BY <2>2, <2>3, DataOf DEF Signalled, A!Roles
  <2> QED
    BY <1>2, <2>1, <2>4
<1> QED
  BY <1>5, <1>6, <1>8, <1>9, <1>11, <1>12, <1>13 DEF A!Next

ViewLooked == component = "WindowAttributes" => WindowType /\ A!ViewIsFresh

LEMMA ViewStart == ViewsInit => ViewLooked
BY WindowInit DEF ViewsInit, ViewLooked

LEMMA ViewGoesOn == ViewLooked /\ [ViewsNext]_<<component, viewVars>> => ViewLooked'
<1> SUFFICES ASSUME ViewLooked, [ViewsNext]_<<component, viewVars>>, component' = "WindowAttributes"
             PROVE  (WindowType /\ A!ViewIsFresh)'
  BY DEF ViewLooked
<1>1. component = "WindowAttributes" /\ (A!Next \/ UNCHANGED windowVars)
  BY DEF ViewsNext, viewVars
<1>2. WindowType /\ A!ViewIsFresh
  BY <1>1 DEF ViewLooked
<1>3. CASE A!Next
  BY <1>2, <1>3, WindowTyped, ViewStaysFresh
<1>4. CASE UNCHANGED windowVars
  BY <1>2, <1>4 DEF windowVars, WindowType, A!ViewIsFresh, A!data, A!isOnAllDesktops
<1> QED
  BY <1>1, <1>3, <1>4

\* What a view of the model shows is what the window says at any time, in every role but
\* Pid: each other setter of a PlasmaWindow signals the roles its change is seen in
\* (PlasmaWindowModel::addWindow). Of Pid nothing is said: pidChangedCallback has no signal.
THEOREM ViewAlwaysFresh == ViewsSpec => []ViewIsFresh
<1>1. ViewLooked => ViewIsFresh
  BY DEF ViewLooked, ViewIsFresh
<1> QED
  BY <1>1, ViewStart, ViewGoesOn, PTL DEF ViewsSpec

-----------------------------------------------------------------------------
(* Touch and its points.                                                   *)

TouchEvents ==
  [kind : {"down"}, id : TouchIds, serial : Nat]
    \cup [kind : {"up", "motion"}, id : TouchIds] \cup [kind : {"cancel"}]
TouchPoints == [id : TouchIds, serial : Nat, down : BOOLEAN]

\* The points that are down: their number and their serial.
PointSets ==
  {p \in SUBSET (TouchIds \X Nat) : \A f, g \in p : f[1] = g[1] => f = g}

PointsAfter(p, e) ==
  CASE e.kind = "down" -> p \cup {<<e.id, e.serial>>}
    [] e.kind = "up" -> {f \in p : f[1] # e.id}
    [] e.kind = "cancel" -> {}
    [] OTHER -> p

MayTouch(p, e) ==
  /\ e.kind = "down" => \A f \in p : f[1] # e.id
  /\ e.kind \in {"up", "motion"} => \E f \in p : f[1] = e.id

PointMoves ==
  {move \in PointSets \X TouchEvents \X PointSets :
     MayTouch(move[1], move[2]) /\ move[3] = PointsAfter(move[1], move[2])}

Held ==
  {<<sequence[i].id, sequence[i].serial>> :
     i \in {j \in DOMAIN sequence : touchActive /\ sequence[j].down}}
Pressed == {<<id, down[id]>> : id \in DOMAIN down}

\* The serials that points have or had; those still to come are larger.
Used == {sequence[k].serial : k \in DOMAIN sequence} \cup deleted
IsNew(n) == \A u \in Used : u < n

\* The serials of points come in their order, and none comes back.
SerialsInv ==
  /\ \A i \in DOMAIN touchEvents : touchEvents[i].kind = "down" =>
       /\ touchEvents[i].serial <= serial /\ touchEvents[i].serial # 0
       /\ IsNew(touchEvents[i].serial)
       /\ \A j \in DOMAIN touchEvents : touchEvents[j].kind = "down" /\ i < j =>
            touchEvents[i].serial < touchEvents[j].serial
  /\ IsNew(serial + 1)
  /\ \A k \in DOMAIN sequence :
       /\ sequence[k].serial # 0 /\ sequence[k].serial \notin deleted
       /\ \A l \in DOMAIN sequence : sequence[k].serial = sequence[l].serial => k = l

TouchInv ==
  /\ DOMAIN down \subseteq TouchIds /\ \A id \in DOMAIN down : down[id] \in Nat
  /\ serial \in Nat /\ touchActive \in BOOLEAN /\ deleted \subseteq Nat \ {0}
  /\ touchEvents \in Seq(TouchEvents) /\ sequence \in Seq(TouchPoints)
  /\ Leads(PointSets, PointMoves, Held, touchEvents, Pressed)
  /\ SerialsInv
  /\ signal.point \notin deleted

LEMMA TouchMove ==
  ASSUME NEW p, NEW e, NEW q
  PROVE  <<p, e, q>> \in PointMoves <=>
           /\ p \in PointSets /\ e \in TouchEvents /\ q \in PointSets
           /\ MayTouch(p, e) /\ q = PointsAfter(p, e)
<1> DEFINE move == <<p, e, q>>
<1>1. move[1] = p /\ move[2] = e /\ move[3] = q
  OBVIOUS
<1>2. move \in PointSets \X TouchEvents \X PointSets <=>
        p \in PointSets /\ e \in TouchEvents /\ q \in PointSets
  OBVIOUS
<1> HIDE DEF move
<1>3. move \in PointMoves <=>
        /\ move \in PointSets \X TouchEvents \X PointSets
        /\ MayTouch(move[1], move[2]) /\ move[3] = PointsAfter(move[1], move[2])
  BY DEF PointMoves
<1> QED
  BY <1>1, <1>2, <1>3 DEF move

LEMMA TouchInit == T!Init => TouchInv
<1> SUFFICES ASSUME T!Init PROVE TouchInv
  OBVIOUS
<1>1. /\ down = <<>> /\ DOMAIN down = {} /\ serial = 0 /\ touchEvents = <<>>
      /\ DOMAIN touchEvents = {} /\ sequence = <<>> /\ DOMAIN sequence = {}
      /\ touchActive = FALSE /\ deleted = {} /\ signal.point = 0
  BY DEF T!Init, T!Silence
<1>2. Held = {} /\ Pressed = {} /\ {} \in PointSets
  BY <1>1 DEF Held, Pressed, PointSets
<1>3. Leads(PointSets, PointMoves, Held, touchEvents, Pressed)
  BY <1>1, <1>2, LeadsNowhere
<1>4. SerialsInv
  BY <1>1 DEF SerialsInv, IsNew, Used
<1>5. touchEvents \in Seq(TouchEvents) /\ sequence \in Seq(TouchPoints)
  BY <1>1
<1> HIDE DEF Held, Pressed
<1> QED
  BY <1>1, <1>3, <1>4, <1>5 DEF TouchInv

LEMMA TouchSent ==
  ASSUME TouchInv, T!Press \/ T!Lift \/ T!Move \/ T!Cancel
  PROVE  TouchInv'
<1>1. /\ DOMAIN down \subseteq TouchIds /\ \A id \in DOMAIN down : down[id] \in Nat
      /\ serial \in Nat /\ touchActive \in BOOLEAN /\ deleted \subseteq Nat \ {0}
      /\ touchEvents \in Seq(TouchEvents) /\ sequence \in Seq(TouchPoints)
      /\ Leads(PointSets, PointMoves, Held, touchEvents, Pressed) /\ SerialsInv
  BY DEF TouchInv
<1>2. Pressed \in PointSets
  <2> HIDE DEF Held, Pressed
  <2>1. Len(touchEvents) \in Nat
    BY <1>1
  <2> QED
    BY <1>1, <2>1 DEF Leads
<1>3. /\ UNCHANGED <<sequence, touchActive, deleted>> /\ signal'.point = 0
  <2>1. \E e : T!Send(e)
    BY DEF T!Press, T!Lift, T!Move, T!Cancel
  <2> QED
    BY <2>1 DEF T!Send, T!Silence
<1>4. \E e \in TouchEvents :
        /\ touchEvents' = Append(touchEvents, e)
        /\ MayTouch(Pressed, e) /\ Pressed' = PointsAfter(Pressed, e)
        /\ DOMAIN down' \subseteq TouchIds /\ \A id \in DOMAIN down' : down'[id] \in Nat
        /\ serial' \in Nat
        /\ IF e.kind = "down" THEN e.serial = serial + 1 /\ serial' = serial + 1
           ELSE serial' = serial
  <2>1. CASE T!Press
    <3>1. PICK id \in TouchIds \ DOMAIN down :
            /\ down' = [i \in DOMAIN down \cup {id} |-> IF i = id THEN serial + 1 ELSE down[i]]
            /\ touchEvents' = Append(touchEvents, [kind |-> "down", id |-> id,
                                                   serial |-> serial + 1])
            /\ serial' = serial + 1
      BY <2>1 DEF T!Press, T!Send
    <3> DEFINE e == [kind |-> "down", id |-> id, serial |-> serial + 1]
    <3>2. e \in TouchEvents /\ e.kind = "down" /\ e.id = id /\ e.serial = serial + 1
      BY <1>1 DEF TouchEvents
    <3>3. /\ DOMAIN down' = DOMAIN down \cup {id} /\ down'[id] = serial + 1
          /\ \A i \in DOMAIN down : down'[i] = down[i]
      BY <3>1
    <3>4. touchEvents' = Append(touchEvents, e)
      BY <3>1
    <3> HIDE DEF e
    <3>5. Pressed' = Pressed \cup {<<id, serial + 1>>}
      BY <3>3 DEF Pressed
    <3>6. MayTouch(Pressed, e) /\ Pressed' = PointsAfter(Pressed, e)
      <4>1. \A f \in Pressed : f[1] # id
        BY DEF Pressed
      <4> HIDE DEF Pressed
      <4>2. PointsAfter(Pressed, e) = Pressed \cup {<<id, serial + 1>>}
        BY <3>2 DEF PointsAfter
      <4> QED
        BY <3>2, <3>5, <4>1, <4>2 DEF MayTouch
    <3> QED
      BY <1>1, <3>1, <3>2, <3>3, <3>4, <3>6
  <2>2. CASE T!Lift
    <3>1. PICK id \in DOMAIN down :
            /\ down' = [i \in DOMAIN down \ {id} |-> down[i]]
            /\ touchEvents' = Append(touchEvents, [kind |-> "up", id |-> id])
            /\ serial' = serial
      BY <2>2 DEF T!Lift, T!Send
    <3> DEFINE e == [kind |-> "up", id |-> id]
    <3>2. e \in TouchEvents /\ e.kind = "up" /\ e.id = id
      BY <1>1 DEF TouchEvents
    <3>3. /\ DOMAIN down' = DOMAIN down \ {id}
          /\ \A i \in DOMAIN down' : down'[i] = down[i]
      BY <3>1
    <3>4. touchEvents' = Append(touchEvents, e)
      BY <3>1
    <3> HIDE DEF e
    <3>5. Pressed' = {f \in Pressed : f[1] # id}
      BY <3>3 DEF Pressed
    <3>6. MayTouch(Pressed, e) /\ Pressed' = PointsAfter(Pressed, e)
      <4>1. <<id, down[id]>> \in Pressed /\ <<id, down[id]>>[1] = id
        BY DEF Pressed
      <4> HIDE DEF Pressed
      <4>2. PointsAfter(Pressed, e) = {f \in Pressed : f[1] # id}
        BY <3>2 DEF PointsAfter
      <4> QED
        BY <3>2, <3>5, <4>1, <4>2 DEF MayTouch
    <3> QED
      BY <1>1, <3>1, <3>2, <3>3, <3>4, <3>6
  <2>3. CASE T!Move
    <3>1. PICK id \in DOMAIN down :
            /\ touchEvents' = Append(touchEvents, [kind |-> "motion", id |-> id])
            /\ serial' = serial /\ down' = down
      BY <2>3 DEF T!Move, T!Send
    <3> DEFINE e == [kind |-> "motion", id |-> id]
    <3>2. e \in TouchEvents /\ e.kind = "motion" /\ e.id = id
      BY <1>1 DEF TouchEvents
    <3>3. touchEvents' = Append(touchEvents, e)
      BY <3>1
    <3> HIDE DEF e
    <3>4. Pressed' = Pressed
      BY <3>1 DEF Pressed
    <3>5. MayTouch(Pressed, e) /\ Pressed' = PointsAfter(Pressed, e)
      <4>1. <<id, down[id]>> \in Pressed /\ <<id, down[id]>>[1] = id
        BY DEF Pressed
      <4> HIDE DEF Pressed
      <4> QED
        BY <3>2, <3>4, <4>1 DEF MayTouch, PointsAfter
    <3> QED
      BY <1>1, <3>1, <3>2, <3>3, <3>5
  <2>4. CASE T!Cancel
    <3>1. /\ touchEvents' = Append(touchEvents, [kind |-> "cancel"])
          /\ serial' = serial /\ down' = <<>> /\ DOMAIN down' = {}
      BY <2>4 DEF T!Cancel, T!Send
    <3> DEFINE e == [kind |-> "cancel"]
    <3>2. e \in TouchEvents /\ e.kind = "cancel"
      BY DEF TouchEvents
    <3>3. touchEvents' = Append(touchEvents, e)
      BY <3>1
    <3> HIDE DEF e
    <3>4. Pressed' = {}
      BY <3>1 DEF Pressed
    <3>5. MayTouch(Pressed, e) /\ Pressed' = PointsAfter(Pressed, e)
      BY <3>2, <3>4 DEF MayTouch, PointsAfter
    <3> QED
      BY <1>1, <3>1, <3>2, <3>3, <3>5
  <2> QED
    BY <2>1, <2>2, <2>3, <2>4
<1>5. PICK e \in TouchEvents :
        /\ touchEvents' = Append(touchEvents, e)
        /\ MayTouch(Pressed, e) /\ Pressed' = PointsAfter(Pressed, e)
        /\ DOMAIN down' \subseteq TouchIds /\ \A id \in DOMAIN down' : down'[id] \in Nat
        /\ serial' \in Nat
        /\ IF e.kind = "down" THEN e.serial = serial + 1 /\ serial' = serial + 1
           ELSE serial' = serial
  BY <1>4
<1>6. Pressed' \in PointSets
  <2>1. \A id \in DOMAIN down' : id \in TouchIds /\ down'[id] \in Nat
    BY <1>5
  <2>2. \A f \in Pressed' : \E id \in DOMAIN down' : f = <<id, down'[id]>>
    BY DEF Pressed
  <2> HIDE DEF Pressed
  <2>3. \A f \in Pressed' : f \in TouchIds \X Nat
    BY <2>1, <2>2
  <2>4. \A f, g \in Pressed' : f[1] = g[1] => f = g
    BY <2>2
  <2> QED
    BY <2>3, <2>4 DEF PointSets
<1>7. Held' = Held
  BY <1>3 DEF Held
<1>8. Leads(PointSets, PointMoves, Held', touchEvents', Pressed')
  <2> DEFINE h == Held
             p == Pressed
             q == Pressed'
  <2>1. Leads(PointSets, PointMoves, h, touchEvents, p) /\ q \in PointSets
          /\ <<p, e, q>> \in PointMoves
    BY <1>1, <1>2, <1>5, <1>6, TouchMove
  <2>2. Held' = h
    BY <1>7
  <2> HIDE DEF h, p, q
  <2>3. Leads(PointSets, PointMoves, h, Append(touchEvents, e), q)
    BY <1>1, <2>1, LeadsOn
  <2> QED
    BY <1>5, <2>2, <2>3 DEF q
<1>9. /\ touchEvents' \in Seq(TouchEvents)
      /\ DOMAIN touchEvents = 1 .. Len(touchEvents) /\ Len(touchEvents) \in Nat
      /\ DOMAIN touchEvents' = 1 .. Len(touchEvents) + 1
      /\ touchEvents'[Len(touchEvents) + 1] = e
      /\ \A i \in DOMAIN touchEvents : touchEvents'[i] = touchEvents[i]
  BY <1>1, <1>5
<1>10. SerialsInv'
  <2>1. Used' = Used
    BY <1>3 DEF Used
  <2>2. IsNew(serial + 1) /\ serial' \in {serial, serial + 1}
    BY <1>1, <1>5 DEF SerialsInv
  <2>3. Used \subseteq Nat
    <3>1. \A k \in DOMAIN sequence : sequence[k] \in TouchPoints
      BY <1>1, Element
    <3>2. \A p \in TouchPoints : p.serial \in Nat
      BY DEF TouchPoints
    <3> QED
      BY <1>1, <3>1, <3>2 DEF Used
  <2>4. \A u \in Used : u < serial' + 1
    <3>1. \A u \in Used : u \in Nat /\ u < serial + 1
      BY <2>2, <2>3 DEF IsNew
    <3> QED
      BY <1>1, <2>2, <3>1
  <2>5. IsNew(serial + 1)'
    BY <2>1, <2>4 DEF IsNew
  <2>6. ASSUME NEW i \in DOMAIN touchEvents', touchEvents'[i].kind = "down"
        PROVE  /\ touchEvents'[i].serial <= serial' /\ touchEvents'[i].serial # 0
               /\ IsNew(touchEvents'[i].serial)
               /\ \A j \in DOMAIN touchEvents' : touchEvents'[j].kind = "down" /\ i < j =>
                    touchEvents'[i].serial < touchEvents'[j].serial
    <3>1. CASE i \in DOMAIN touchEvents
      <4>1. /\ touchEvents[i].serial <= serial /\ touchEvents[i].serial # 0
            /\ IsNew(touchEvents[i].serial)
            /\ \A j \in DOMAIN touchEvents : touchEvents[j].kind = "down" /\ i < j =>
                 touchEvents[i].serial < touchEvents[j].serial
        BY <1>1, <1>9, <2>6, <3>1 DEF SerialsInv
      <4>2. touchEvents[i].serial \in Nat
        BY <1>1, <1>9, <2>6, <3>1, Element DEF TouchEvents
      <4>3. ASSUME NEW j \in DOMAIN touchEvents', touchEvents'[j].kind = "down", i < j
            PROVE  touchEvents'[i].serial < touchEvents'[j].serial
        <5>1. CASE j \in DOMAIN touchEvents
          BY <1>9, <3>1, <4>1, <4>3, <5>1
        <5>2. CASE j \notin DOMAIN touchEvents
          <6>1. touchEvents'[j] = e
            BY <1>9, <5>2
          <6> QED
            BY <1>1, <1>5, <1>9, <3>1, <4>1, <4>2, <4>3, <6>1
        <5> QED
          BY <5>1, <5>2
      <4> QED
        BY <1>1, <1>9, <2>2, <3>1, <4>1, <4>2, <4>3
    <3>2. CASE i \notin DOMAIN touchEvents
      <4>1. i = Len(touchEvents) + 1 /\ touchEvents'[i] = e
        BY <1>9, <3>2
      <4>2. \A j \in DOMAIN touchEvents' : ~(i < j)
        BY <1>9, <4>1
      <4> QED
        BY <1>1, <1>5, <2>2, <2>6, <4>1, <4>2
    <3> QED
      BY <3>1, <3>2
  <2>7. \A i \in DOMAIN touchEvents' : touchEvents'[i].kind = "down" => IsNew(touchEvents[i].serial)'
    BY <2>1, <2>6 DEF IsNew
  <2> QED
    BY <1>1, <1>3, <2>5, <2>6, <2>7 DEF SerialsInv
<1> QED
  BY <1>1, <1>3, <1>5, <1>8, <1>9, <1>10 DEF TouchInv

-----------------------------------------------------------------------------
\* The event that is taken: what it does and what it leaves.
LEMMA TouchHead ==
  ASSUME TouchInv, touchEvents # <<>>
  PROVE  /\ Head(touchEvents) \in TouchEvents /\ Head(touchEvents) = touchEvents[1]
         /\ 1 \in DOMAIN touchEvents
         /\ Tail(touchEvents) \in Seq(TouchEvents)
         /\ Held \in PointSets
         /\ MayTouch(Held, Head(touchEvents))
         /\ Leads(PointSets, PointMoves, PointsAfter(Held, Head(touchEvents)),
                  Tail(touchEvents), Pressed)
<1>1. touchEvents \in Seq(TouchEvents) /\ Leads(PointSets, PointMoves, Held, touchEvents, Pressed)
  BY DEF TouchInv
<1> DEFINE h == Held
           p == Pressed
           e == Head(touchEvents)
<1> HIDE DEF h, p
<1>2. PICK r \in PointSets :
        <<h, e, r>> \in PointMoves /\ Leads(PointSets, PointMoves, r, Tail(touchEvents), p)
  BY <1>1, LeadsFrom DEF h, p
<1>3. h \in PointSets /\ MayTouch(h, e) /\ r = PointsAfter(h, e)
  BY <1>2, TouchMove
<1>4. /\ e \in TouchEvents /\ e = touchEvents[1] /\ 1 \in DOMAIN touchEvents
      /\ Tail(touchEvents) \in Seq(TouchEvents)
  BY <1>1
<1> QED
  BY <1>2, <1>3, <1>4 DEF h, p

\* What every step has to show that takes an event.
LEMMA TouchTakes ==
  ASSUME TouchInv, touchEvents # <<>>, touchEvents' = Tail(touchEvents),
         UNCHANGED <<down, serial>>,
         Held' = PointsAfter(Held, Head(touchEvents)),
         touchActive' \in BOOLEAN, sequence' \in Seq(TouchPoints), deleted' \subseteq Nat \ {0},
         Used' \subseteq Used \cup (IF Head(touchEvents).kind = "down"
                                    THEN {Head(touchEvents).serial} ELSE {}),
         \A k \in DOMAIN sequence' :
           /\ sequence'[k].serial # 0 /\ sequence'[k].serial \notin deleted'
           /\ \A l \in DOMAIN sequence' : sequence'[k].serial = sequence'[l].serial => k = l,
         signal'.point \notin deleted'
  PROVE  TouchInv'
<1> DEFINE e == Head(touchEvents)
<1>1. /\ e \in TouchEvents /\ e = touchEvents[1] /\ 1 \in DOMAIN touchEvents
      /\ touchEvents' \in Seq(TouchEvents)
      /\ Leads(PointSets, PointMoves, Held', touchEvents', Pressed)
  BY TouchHead
<1>2. Pressed' = Pressed
  BY DEF Pressed
<1>3. /\ DOMAIN down \subseteq TouchIds /\ \A id \in DOMAIN down : down[id] \in Nat
      /\ serial \in Nat /\ touchEvents \in Seq(TouchEvents) /\ SerialsInv
  BY DEF TouchInv
<1>4. \A k \in DOMAIN touchEvents' :
        k + 1 \in DOMAIN touchEvents /\ touchEvents'[k] = touchEvents[k + 1] /\ k \in Nat
  BY <1>3, TailIndices
<1> HIDE DEF e
<1>5. ASSUME e.kind = "down" PROVE e.serial \in Nat /\ e.serial < serial + 1
  <2>1. e.serial \in Nat
    BY <1>1, <1>5 DEF TouchEvents
  <2>2. e.serial <= serial
    BY <1>1, <1>3, <1>5 DEF SerialsInv
  <2> QED
    BY <1>3, <2>1, <2>2
<1>6. IsNew(serial + 1)'
  <2>1. \A u \in Used : u < serial + 1
    BY <1>3 DEF SerialsInv, IsNew
  <2> QED
    BY <1>5, <2>1 DEF IsNew, e
<1>7. ASSUME NEW i \in DOMAIN touchEvents', touchEvents'[i].kind = "down"
      PROVE  /\ touchEvents'[i].serial <= serial' /\ touchEvents'[i].serial # 0
             /\ \A u \in Used' : u < touchEvents'[i].serial
             /\ \A j \in DOMAIN touchEvents' : touchEvents'[j].kind = "down" /\ i < j =>
                  touchEvents'[i].serial < touchEvents'[j].serial
  <2>1. i + 1 \in DOMAIN touchEvents /\ touchEvents'[i] = touchEvents[i + 1] /\ i \in Nat /\ 1 < i + 1
    <3>1. i # 0
      BY <1>1
    <3> QED
      BY <1>4, <3>1
  <2>2. /\ touchEvents'[i].serial <= serial /\ touchEvents'[i].serial # 0
        /\ IsNew(touchEvents'[i].serial)
        /\ \A j \in DOMAIN touchEvents : touchEvents[j].kind = "down" /\ i + 1 < j =>
             touchEvents'[i].serial < touchEvents[j].serial
    BY <1>3, <1>7, <2>1 DEF SerialsInv
  <2>3. e.kind = "down" => e.serial < touchEvents'[i].serial
    BY <1>1, <1>3, <1>7, <2>1 DEF SerialsInv
  <2>4. \A u \in Used : u < touchEvents'[i].serial
    BY <2>2 DEF IsNew
  <2>5. \A u \in Used' : u < touchEvents'[i].serial
    BY <2>3, <2>4 DEF e
  <2>6. ASSUME NEW j \in DOMAIN touchEvents', touchEvents'[j].kind = "down", i < j
        PROVE  touchEvents'[i].serial < touchEvents'[j].serial
    <3>1. j + 1 \in DOMAIN touchEvents /\ touchEvents'[j] = touchEvents[j + 1] /\ j \in Nat
      BY <1>4
    <3>2. i + 1 < j + 1
      BY <2>1, <2>6, <3>1
    <3> QED
      BY <2>2, <2>6, <3>1, <3>2
  <2> QED
    BY <2>2, <2>5, <2>6
<1>8. SerialsInv'
  <2>1. \A i \in DOMAIN touchEvents' : touchEvents'[i].kind = "down" => IsNew(touchEvents[i].serial)'
    BY <1>7 DEF IsNew
  <2> QED
    BY <1>6, <1>7, <2>1 DEF SerialsInv
<1> HIDE DEF Held, Pressed
<1> QED
  BY <1>1, <1>2, <1>3, <1>8 DEF TouchInv

\* The point that is up or moves is the one active point with its number.
LEMMA TheActivePoint ==
  ASSUME TouchInv, touchEvents # <<>>, Head(touchEvents).kind \in {"up", "motion"}
  PROVE  /\ touchActive
         /\ T!getActivePoint(Head(touchEvents).id) \in DOMAIN sequence
         /\ T!getActivePoint(Head(touchEvents).id) # 0
         /\ \A j \in DOMAIN sequence :
              sequence[j].down =>
                (sequence[j].id = Head(touchEvents).id
                   <=> j = T!getActivePoint(Head(touchEvents).id))
         /\ sequence[T!getActivePoint(Head(touchEvents).id)].down
<1> DEFINE e == Head(touchEvents)
<1>1. MayTouch(Held, e) /\ Held \in PointSets
  BY TouchHead
<1>2. PICK f \in Held : f[1] = e.id
  BY <1>1 DEF MayTouch
<1>3. touchActive /\ \E k \in DOMAIN sequence : sequence[k].down /\ f = <<sequence[k].id, sequence[k].serial>>
  BY <1>2 DEF Held
<1>4. PICK k \in DOMAIN sequence : sequence[k].down /\ f = <<sequence[k].id, sequence[k].serial>>
  BY <1>3
<1>5. sequence[k].id = e.id
  BY <1>2, <1>4
<1>6. ASSUME NEW j \in DOMAIN sequence, sequence[j].down, sequence[j].id = e.id
      PROVE  j = k
  <2> DEFINE g == <<sequence[j].id, sequence[j].serial>>
  <2>1. g \in Held
    BY <1>3, <1>6 DEF Held
  <2>2. g[1] = f[1]
    BY <1>2, <1>6
  <2>3. g = f
    <3> HIDE DEF g, Held
    <3> QED
      BY <1>1, <2>1, <2>2 DEF PointSets
  <2>4. sequence[j].serial = sequence[k].serial
    BY <1>4, <2>3
  <2> QED
    BY <2>4 DEF TouchInv, SerialsInv
<1>7. {i \in DOMAIN sequence : sequence[i].id = e.id /\ sequence[i].down} = {k}
  BY <1>4, <1>5, <1>6
<1>8. k \in Nat \ {0}
  BY DEF TouchInv
<1>9. T!getActivePoint(e.id) = k
  <2>1. T!First({k}) = k
    BY <1>8 DEF T!First
  <2> QED
    BY <1>7, <2>1 DEF T!getActivePoint
<1> HIDE DEF e
<1>10. \A j \in DOMAIN sequence : sequence[j].down => (sequence[j].id = e.id <=> j = k)
  BY <1>5, <1>6
<1> QED
  BY <1>3, <1>4, <1>8, <1>9, <1>10 DEF e

LEMMA TouchDown == TouchInv /\ T!downCallback => TouchInv'
<1> SUFFICES ASSUME TouchInv, T!downCallback PROVE TouchInv'
  OBVIOUS
<1> DEFINE e == Head(touchEvents)
           p == [id |-> e.id, serial |-> e.serial, down |-> TRUE]
<1>1. /\ touchEvents # <<>> /\ e.kind = "down" /\ touchEvents' = Tail(touchEvents)
      /\ UNCHANGED <<down, serial>> /\ touchActive' = TRUE
      /\ signal'.point = e.serial
      /\ touchActive => sequence' = Append(sequence, p) /\ deleted' = deleted
      /\ ~touchActive =>
           /\ deleted' = deleted \cup {sequence[i].serial : i \in DOMAIN sequence}
           /\ sequence' = <<p>>
  BY DEF T!downCallback, T!Takes, TouchInv
<1>2. /\ e \in TouchEvents /\ e = touchEvents[1] /\ 1 \in DOMAIN touchEvents
      /\ Held \in PointSets
  BY <1>1, TouchHead
<1>3. /\ sequence \in Seq(TouchPoints) /\ deleted \subseteq Nat \ {0} /\ SerialsInv
      /\ touchActive \in BOOLEAN
  BY DEF TouchInv
<1> HIDE DEF e
<1>4. /\ e.serial \in Nat /\ e.id \in TouchIds /\ e.serial # 0 /\ \A u \in Used : u < e.serial
  <2>1. e.serial \in Nat /\ e.id \in TouchIds
    BY <1>1, <1>2 DEF TouchEvents
  <2> QED
    BY <1>1, <1>2, <1>3, <2>1 DEF SerialsInv, IsNew
<1>5. p \in TouchPoints /\ p.serial = e.serial /\ p.id = e.id /\ p.down
  BY <1>4 DEF TouchPoints
<1> HIDE DEF p
<1>6. /\ \A k \in DOMAIN sequence : sequence[k] \in TouchPoints /\ sequence[k].serial \in Used
      /\ DOMAIN sequence = 1 .. Len(sequence) /\ Len(sequence) \in Nat
      /\ e.serial \notin Used
  <2>1. \A k \in DOMAIN sequence : sequence[k] \in TouchPoints /\ sequence[k].serial \in Used
    BY <1>3, Element DEF Used
  <2>2. e.serial \notin Used
    BY <1>4
  <2> QED
    BY <1>3, <2>1, <2>2
<1>7. ASSUME touchActive
      PROVE  /\ sequence' \in Seq(TouchPoints)
             /\ DOMAIN sequence' = 1 .. Len(sequence) + 1
             /\ sequence'[Len(sequence) + 1] = p
             /\ \A k \in DOMAIN sequence : sequence'[k] = sequence[k]
  <2>1. \A list \in Seq(TouchPoints) :
          /\ Append(list, p) \in Seq(TouchPoints) /\ DOMAIN Append(list, p) = 1 .. Len(list) + 1
          /\ Append(list, p)[Len(list) + 1] = p
          /\ \A k \in DOMAIN list : Append(list, p)[k] = list[k]
    BY <1>5
  <2> QED
    BY <1>1, <1>3, <1>7, <2>1
<1>8. ASSUME ~touchActive
      PROVE  sequence' \in Seq(TouchPoints) /\ DOMAIN sequence' = {1} /\ sequence'[1] = p
  <2>1. <<p>> \in Seq(TouchPoints) /\ DOMAIN <<p>> = {1} /\ <<p>>[1] = p
    BY <1>5
  <2> QED
    BY <1>1, <1>8, <2>1
<1>9. /\ Used' \subseteq Used \cup {e.serial}
      /\ \A k \in DOMAIN sequence' :
           /\ sequence'[k].serial # 0 /\ sequence'[k].serial \notin deleted'
           /\ \A l \in DOMAIN sequence' : sequence'[k].serial = sequence'[l].serial => k = l
      /\ e.serial \notin deleted' /\ deleted' \subseteq Nat \ {0}
  <2>1. CASE touchActive
    <3>1. \A k \in DOMAIN sequence' : k \in DOMAIN sequence \/ k = Len(sequence) + 1
      BY <1>6, <1>7, <2>1
    <3>2. deleted' = deleted /\ deleted \subseteq Used
      BY <1>1, <2>1 DEF Used
    <3>3. ASSUME NEW k \in DOMAIN sequence'
          PROVE  /\ sequence'[k].serial # 0 /\ sequence'[k].serial \notin deleted'
                 /\ sequence'[k].serial \in Used \cup {e.serial}
                 /\ k \in DOMAIN sequence => sequence'[k].serial \in Used
      <4>1. CASE k \in DOMAIN sequence
        BY <1>3, <1>6, <1>7, <2>1, <3>2, <4>1 DEF SerialsInv
      <4>2. CASE k = Len(sequence) + 1
        <5>1. k \notin DOMAIN sequence
          BY <1>6, <4>2
        <5> QED
          BY <1>4, <1>5, <1>6, <1>7, <2>1, <3>2, <4>2, <5>1
      <4> QED
        BY <3>1, <4>1, <4>2
    <3>4. ASSUME NEW k \in DOMAIN sequence', NEW l \in DOMAIN sequence',
                 sequence'[k].serial = sequence'[l].serial
          PROVE  k = l
      <4>1. CASE k \in DOMAIN sequence /\ l \in DOMAIN sequence
        BY <1>3, <1>7, <2>1, <3>4, <4>1 DEF SerialsInv
      <4>2. CASE k = Len(sequence) + 1
        <5>1. l \notin DOMAIN sequence
          BY <1>5, <1>6, <1>7, <2>1, <3>3, <3>4, <4>2
        <5> QED
          BY <3>1, <4>2, <5>1
      <4>3. CASE l = Len(sequence) + 1
        <5>1. k \notin DOMAIN sequence
          BY <1>5, <1>6, <1>7, <2>1, <3>3, <3>4, <4>3
        <5> QED
          BY <3>1, <4>3, <5>1
      <4> QED
        BY <3>1, <4>1, <4>2, <4>3
    <3>5. Used' \subseteq Used \cup {e.serial}
      BY <3>2, <3>3 DEF Used
    <3> QED
      BY <1>3, <1>6, <3>2, <3>3, <3>4, <3>5
  <2>2. CASE ~touchActive
    <3>1. deleted' = Used
      BY <1>1, <2>2 DEF Used
    <3>2. Used \subseteq Nat \ {0}
      <4>1. \A k \in DOMAIN sequence : sequence[k].serial \in Nat \ {0}
        BY <1>3, <1>6 DEF TouchPoints, SerialsInv
      <4> QED
        BY <1>3, <4>1 DEF Used
    <3>3. Used' = {e.serial} \cup deleted'
      BY <1>5, <1>8, <2>2 DEF Used
    <3>4. \A k \in DOMAIN sequence' : k = 1 /\ sequence'[k].serial = e.serial
      BY <1>5, <1>8, <2>2
    <3> QED
      BY <1>4, <1>6, <3>1, <3>2, <3>3, <3>4
  <2> QED
    BY <2>1, <2>2
<1>10. Held' = PointsAfter(Held, e)
  <2> DEFINE f == <<e.id, e.serial>>
  <2>1. PointsAfter(Held, e) = Held \cup {f}
    BY <1>1 DEF PointsAfter
  <2>2. CASE touchActive
    <3>1. /\ Len(sequence) + 1 \in DOMAIN sequence'
          /\ \A k \in DOMAIN sequence' : k \in DOMAIN sequence \/ k = Len(sequence) + 1
          /\ \A k \in DOMAIN sequence : k \in DOMAIN sequence'
      BY <1>6, <1>7, <2>2
    <3>2. \A k \in DOMAIN sequence : sequence'[k] = sequence[k]
      BY <1>7, <2>2
    <3>3. /\ sequence'[Len(sequence) + 1].id = e.id /\ sequence'[Len(sequence) + 1].serial = e.serial
          /\ sequence'[Len(sequence) + 1].down
      BY <1>5, <1>7, <2>2
    <3>4. Held' = Held \cup {f}
      BY <1>1, <2>2, <3>1, <3>2, <3>3 DEF Held
    <3> QED
      BY <2>1, <3>4
  <2>3. CASE ~touchActive
    <3>1. Held = {}
      BY <2>3 DEF Held
    <3>2. Held' = {f}
      BY <1>1, <1>5, <1>8, <2>3 DEF Held
    <3> QED
      BY <2>1, <3>1, <3>2
  <2> QED
    BY <2>2, <2>3
<1>11. sequence' \in Seq(TouchPoints)
  BY <1>7, <1>8
<1> QED
  BY <1>1, <1>9, <1>10, <1>11, TouchTakes DEF e

LEMMA TouchUp == TouchInv /\ T!upCallback => TouchInv'
<1> SUFFICES ASSUME TouchInv, T!upCallback PROVE TouchInv'
  OBVIOUS
<1> DEFINE e == Head(touchEvents)
           i == T!getActivePoint(e.id)
<1>1. /\ touchEvents # <<>> /\ e.kind = "up" /\ touchEvents' = Tail(touchEvents)
      /\ UNCHANGED <<down, serial, deleted>>
  BY DEF T!upCallback, T!Takes
<1>2. /\ touchActive /\ i \in DOMAIN sequence /\ i # 0 /\ sequence[i].down
      /\ \A j \in DOMAIN sequence : sequence[j].down => (sequence[j].id = e.id <=> j = i)
  BY <1>1, TheActivePoint
<1>3. /\ sequence' = [sequence EXCEPT ![i].down = FALSE]
      /\ touchActive' = \E j \in DOMAIN sequence' : sequence'[j].down
      /\ signal'.point = sequence[i].serial
  BY <1>2 DEF T!upCallback
<1>4. sequence \in Seq(TouchPoints) /\ deleted \subseteq Nat \ {0} /\ SerialsInv
  BY DEF TouchInv
<1> HIDE DEF e, i
<1>5. /\ DOMAIN sequence' = DOMAIN sequence
      /\ \A j \in DOMAIN sequence :
           /\ sequence'[j].id = sequence[j].id /\ sequence'[j].serial = sequence[j].serial
           /\ sequence'[j].down <=> j # i /\ sequence[j].down
  <2>1. /\ DOMAIN sequence' = DOMAIN sequence
        /\ \A j \in DOMAIN sequence : j # i => sequence'[j] = sequence[j]
        /\ sequence'[i] = [sequence[i] EXCEPT !.down = FALSE]
    BY <1>2, <1>3
  <2>2. sequence[i] \in TouchPoints
    BY <1>2, <1>4, Element
  <2>3. /\ sequence'[i].id = sequence[i].id /\ sequence'[i].serial = sequence[i].serial
        /\ sequence'[i].down = FALSE
    BY <2>1, <2>2 DEF TouchPoints
  <2> QED
    BY <1>2, <2>1, <2>3
<1>6. sequence' \in Seq(TouchPoints)
  <2>1. sequence[i] \in TouchPoints
    BY <1>2, <1>4, Element
  <2>2. [sequence[i] EXCEPT !.down = FALSE] \in TouchPoints
    BY <2>1 DEF TouchPoints
  <2> QED
    BY <1>2, <1>3, <1>4, <2>2
<1>7. Held' = PointsAfter(Held, e)
  <2>1. PointsAfter(Held, e) = {f \in Held : f[1] # e.id}
    BY <1>1 DEF PointsAfter
  <2>2. ASSUME NEW f \in Held' PROVE f \in Held /\ f[1] # e.id
    <3>1. PICK j \in DOMAIN sequence' : sequence'[j].down /\ f = <<sequence'[j].id, sequence'[j].serial>>
      BY <2>2 DEF Held
    <3>2. j \in DOMAIN sequence /\ sequence[j].down /\ f = <<sequence[j].id, sequence[j].serial>> /\ j # i
      BY <1>5, <3>1
    <3> QED
      BY <1>2, <3>2 DEF Held
  <2>3. ASSUME NEW f \in Held, f[1] # e.id PROVE f \in Held'
    <3>1. PICK j \in DOMAIN sequence : sequence[j].down /\ f = <<sequence[j].id, sequence[j].serial>>
      BY <2>3 DEF Held
    <3>2. j # i
      BY <1>2, <2>3, <3>1
    <3>3. j \in DOMAIN sequence' /\ sequence'[j].down /\ f = <<sequence'[j].id, sequence'[j].serial>>
      BY <1>5, <3>1, <3>2
    <3>4. touchActive'
      BY <1>3, <3>3
    <3> QED
      BY <3>3, <3>4 DEF Held
  <2> HIDE DEF Held
  <2> QED
    BY <2>1, <2>2, <2>3
<1>8. Used' = Used
  BY <1>1, <1>5 DEF Used
<1>9. /\ \A k \in DOMAIN sequence' :
           /\ sequence'[k].serial # 0 /\ sequence'[k].serial \notin deleted'
           /\ \A l \in DOMAIN sequence' : sequence'[k].serial = sequence'[l].serial => k = l
      /\ signal'.point \notin deleted'
  BY <1>1, <1>2, <1>3, <1>4, <1>5 DEF SerialsInv
<1>10. touchActive' \in BOOLEAN
  BY <1>3
<1> QED
  BY <1>1, <1>4, <1>6, <1>7, <1>8, <1>9, <1>10, TouchTakes DEF e

LEMMA TouchMotion == TouchInv /\ T!motionCallback => TouchInv'
<1> SUFFICES ASSUME TouchInv, T!motionCallback PROVE TouchInv'
  OBVIOUS
<1> DEFINE e == Head(touchEvents)
           i == T!getActivePoint(e.id)
<1>1. /\ touchEvents # <<>> /\ e.kind = "motion" /\ touchEvents' = Tail(touchEvents)
      /\ UNCHANGED <<down, serial, deleted, sequence, touchActive>>
  BY DEF T!motionCallback, T!Takes
<1>2. i \in DOMAIN sequence /\ i # 0
  BY <1>1, TheActivePoint
<1>3. signal'.point = sequence[i].serial
  BY <1>2 DEF T!motionCallback
<1>4. sequence \in Seq(TouchPoints) /\ deleted \subseteq Nat \ {0} /\ SerialsInv /\ touchActive \in BOOLEAN
  BY DEF TouchInv
<1> HIDE DEF e, i
<1>5. Held' = PointsAfter(Held, e)
  BY <1>1 DEF Held, PointsAfter
<1>6. Used' = Used
  BY <1>1 DEF Used
<1>7. /\ \A k \in DOMAIN sequence' :
           /\ sequence'[k].serial # 0 /\ sequence'[k].serial \notin deleted'
           /\ \A l \in DOMAIN sequence' : sequence'[k].serial = sequence'[l].serial => k = l
      /\ signal'.point \notin deleted'
  BY <1>1, <1>2, <1>3, <1>4 DEF SerialsInv
<1> QED
  BY <1>1, <1>4, <1>5, <1>6, <1>7, TouchTakes DEF e

LEMMA TouchCancelled == TouchInv /\ T!cancelCallback => TouchInv'
<1> SUFFICES ASSUME TouchInv, T!cancelCallback PROVE TouchInv'
  OBVIOUS
<1> DEFINE e == Head(touchEvents)
<1>1. /\ touchEvents # <<>> /\ e.kind = "cancel" /\ touchEvents' = Tail(touchEvents)
      /\ UNCHANGED <<down, serial, deleted, sequence>> /\ touchActive' = FALSE
      /\ signal'.point = 0
  BY DEF T!cancelCallback, T!Takes
<1>2. sequence \in Seq(TouchPoints) /\ deleted \subseteq Nat \ {0} /\ SerialsInv
  BY DEF TouchInv
<1> HIDE DEF e
<1>3. Held' = PointsAfter(Held, e)
  BY <1>1 DEF Held, PointsAfter
<1>4. Used' = Used
  BY <1>1 DEF Used
<1>5. /\ \A k \in DOMAIN sequence' :
           /\ sequence'[k].serial # 0 /\ sequence'[k].serial \notin deleted'
           /\ \A l \in DOMAIN sequence' : sequence'[k].serial = sequence'[l].serial => k = l
      /\ signal'.point \notin deleted'
  BY <1>1, <1>2 DEF SerialsInv
<1> QED
  BY <1>1, <1>2, <1>3, <1>4, <1>5, TouchTakes DEF e

LEMMA TouchQuiet == TouchInv /\ UNCHANGED touchVars => TouchInv'
<1> SUFFICES ASSUME TouchInv, UNCHANGED touchVars PROVE TouchInv'
  OBVIOUS
<1>1. UNCHANGED <<down, serial, touchEvents, sequence, touchActive, deleted, signal>>
  BY DEF touchVars
<1>2. Held' = Held /\ Pressed' = Pressed /\ Used' = Used
  BY <1>1 DEF Held, Pressed, Used
<1>3. SerialsInv'
  BY <1>1, <1>2 DEF TouchInv, SerialsInv, IsNew
<1> QED
  BY <1>1, <1>2, <1>3 DEF TouchInv

LEMMA TouchStep == TouchInv /\ T!Next => TouchInv'
BY TouchSent, TouchDown, TouchUp, TouchMotion, TouchCancelled DEF T!Next

LEMMA TouchFits == TouchInv => T!TouchFollows
<1> SUFFICES ASSUME TouchInv PROVE T!TouchFollows
  OBVIOUS
<1>1. ASSUME touchEvents = <<>> PROVE Held = Pressed
  <2>1. Leads(PointSets, PointMoves, Held, <<>>, Pressed)
    BY <1>1 DEF TouchInv
  <2> DEFINE h == Held
             p == Pressed
  <2> HIDE DEF h, p
  <2>2. Leads(PointSets, PointMoves, h, <<>>, p)
    BY <2>1 DEF h, p
  <2>3. h \in PointSets
    <3>1. PICK g \in [0 .. Len(<<>>) -> PointSets] : g[0] = h
      BY <2>2 DEF Leads
    <3>2. 0 \in 0 .. Len(<<>>)
      OBVIOUS
    <3> QED
      BY <3>1, <3>2
  <2> QED
    BY <2>2, <2>3, LeadsNowhere DEF h, p
<1> QED
  BY <1>1 DEF T!TouchFollows, TouchInv, Held, Pressed

-----------------------------------------------------------------------------
(* Seat, the device made from it and the surfaces it enters.               *)

InputEvents ==
  [kind : {"capabilities"}, capabilities : SUBSET I!Capabilities]
    \cup [kind : {"enter"}, surface : DOMAIN inputSurfaces, serial : Nat]
    \cup [kind : {"leave"}, serial : Nat]
Crossings == {"enter", "leave"}

InputTypes ==
  /\ kind \in I!Kinds
  /\ inputServer \in [capabilities : SUBSET I!Capabilities,
                      known : SUBSET (DOMAIN inputSurfaces),
                      focus : {0} \cup DOMAIN inputSurfaces, resource : BOOLEAN,
                      serial : Nat, entered : Nat]
  /\ inputEvents \in Seq(InputEvents)
  /\ seat \in [state : {"unset", "valid", "ended"}, capabilities : SUBSET I!Capabilities]
  /\ inputDevice \in [state : {"none", "valid", "ended"},
                      enteredSurface : {0} \cup DOMAIN inputSurfaces, serial : Nat]
  /\ inputSurfaces \in Seq({"valid", "released", "deleted"})

\* The surface x cannot be told from the focus by a user who holds valid surfaces.
Same(x) ==
  \A s \in DOMAIN inputSurfaces :
    inputSurfaces[s] = "valid" => (x = s <=> inputServer.focus = s)
Named(e) == IF e.kind = "enter" THEN e.surface ELSE 0

\* The events that say what is so.
Told == {e \in InputEvents : e.capabilities = inputServer.capabilities}
Aimed == {e \in InputEvents : Same(Named(e))}
Latest == {e \in InputEvents : e.serial = inputServer.serial}
Entered == {e \in InputEvents : e.serial = inputServer.entered}

SeatFollows ==
  IF seat.state = "valid"
  THEN Decided(inputEvents, {"capabilities"}, Told,
               seat.capabilities = inputServer.capabilities)
  ELSE seat.capabilities = {} /\ NoneOf(inputEvents, {"capabilities"})

\* Before there is a device the compositor has nothing to say to it.
Unmade ==
  inputDevice.state = "none" =>
    /\ ~inputServer.resource /\ inputServer.focus = 0
    /\ inputServer.serial = 0 /\ inputServer.entered = 0
    /\ inputDevice.enteredSurface = 0 /\ inputDevice.serial = 0
    /\ NoneOf(inputEvents, Crossings)

DeviceFollows ==
  inputDevice.state = "valid" /\ inputServer.resource =>
    /\ Decided(inputEvents, Crossings, Aimed, Same(inputDevice.enteredSurface))
    /\ kind = "pointer" =>
         Decided(inputEvents, {"enter"}, Entered, inputDevice.serial = inputServer.entered)
    /\ kind = "textInputV2" =>
         Decided(inputEvents, Crossings, Latest, inputDevice.serial = inputServer.serial)

InputInv == InputTypes /\ SeatFollows /\ Unmade /\ DeviceFollows

LEMMA InputInit == I!Init => InputInv
<1> SUFFICES ASSUME I!Init PROVE InputInv
  OBVIOUS
<1>1. /\ inputSurfaces = <<>> /\ DOMAIN inputSurfaces = {} /\ inputEvents = <<>>
      /\ DOMAIN inputEvents = {} /\ kind \in I!Kinds
      /\ inputServer = [capabilities |-> {}, known |-> {}, focus |-> 0, resource |-> FALSE,
                        serial |-> 0, entered |-> 0]
      /\ seat = [state |-> "unset", capabilities |-> {}]
      /\ inputDevice = [state |-> "none", enteredSurface |-> 0, serial |-> 0]
  BY DEF I!Init, I!None
<1>2. InputTypes
  BY <1>1 DEF InputTypes
<1>3. SeatFollows /\ Unmade /\ DeviceFollows
  BY <1>1 DEF SeatFollows, Unmade, DeviceFollows, NoneOf
<1> QED
  BY <1>2, <1>3 DEF InputInv

LEMMA InputKeptIs == \A s, places : I!Kept(s, places) = Kept(s, places)
<1>1. \A set : I!Cardinality(set) = Cardinality(set)
  BY DEF I!Cardinality, Cardinality
<1>2. \A places, k : I!Rank(places, k) = Rank(places, k)
  BY <1>1 DEF I!Rank, Rank
<1> TAKE s, places
<1>3. I!Kept(s, places) =
        [n \in 1 .. Cardinality(places) |->
           s[CHOOSE k \in places : I!Rank(places, k) = n]]
  BY <1>1 DEF I!Kept
<1>4. \A n \in 1 .. Cardinality(places) :
        (CHOOSE k \in places : I!Rank(places, k) = n)
          = (CHOOSE k \in places : Rank(places, k) = n)
  BY <1>2
<1> QED
  BY <1>3, <1>4 DEF Kept

\* Surface::get() finds a valid surface exactly for its own proxy.
LEMMA SurfaceFound ==
  ASSUME InputTypes, NEW w \in DOMAIN inputSurfaces
  PROVE  /\ I!get(I!Carried(w)) \in {0} \cup DOMAIN inputSurfaces
         /\ \A s \in DOMAIN inputSurfaces :
              inputSurfaces[s] = "valid" => (I!get(I!Carried(w)) = s <=> w = s)
<1> DEFINE places == {s \in DOMAIN inputSurfaces : I!Holds(s, I!Carried(w))}
           n == Len(inputSurfaces)
<1>1. DOMAIN inputSurfaces = 1 .. n /\ n \in Nat /\ w # 0
  BY DEF InputTypes
<1>2. places \in SUBSET (1 .. n)
  BY <1>1
<1>3. IF places = {} THEN First(places) = 0 ELSE First(places) \in places
  <2> HIDE DEF places, n
  <2> QED
    BY <1>1, <1>2, FirstFacts
<1>4. I!get(I!Carried(w)) = First(places)
  BY DEF I!get, I!First, First
<1>5. CASE inputSurfaces[w] = "valid"
  <2>1. places = {w}
    BY <1>1, <1>5 DEF I!Holds, I!Carried, I!None
  <2> QED
    BY <1>3, <1>4, <2>1
<1>6. CASE inputSurfaces[w] # "valid"
  <2>1. \A s \in places : inputSurfaces[s] = "released"
    BY <1>6 DEF I!Holds, I!Carried, I!None
  <2>2. 0 \notin DOMAIN inputSurfaces
    BY <1>1
  <2> QED
    BY <1>2, <1>1, <1>3, <1>4, <1>6, <2>1, <2>2
<1> QED
  BY <1>5, <1>6

LEMMA InputCapabilities == InputInv /\ I!ChangeCapabilities => InputInv'
<1> SUFFICES ASSUME InputInv, I!ChangeCapabilities PROVE InputInv'
  OBVIOUS
<1>1. InputTypes /\ SeatFollows /\ Unmade /\ DeviceFollows
  BY DEF InputInv
<1>2. PICK c \in SUBSET I!Capabilities :
        /\ inputServer' = [inputServer EXCEPT !.capabilities = c,
                                              !.resource = @ /\ I!Serves(c),
                                              !.focus = IF I!Serves(c) THEN @ ELSE 0]
        /\ IF seat.state = "valid"
           THEN inputEvents' = Append(inputEvents, [kind |-> "capabilities", capabilities |-> c])
           ELSE UNCHANGED inputEvents
        /\ UNCHANGED <<kind, seat, inputDevice, inputSurfaces>>
  BY DEF I!ChangeCapabilities, I!Send, I!None
<1> DEFINE e == [kind |-> "capabilities", capabilities |-> c]
<1>3. e \in InputEvents /\ e.kind = "capabilities" /\ e.capabilities = c
  BY DEF InputEvents
<1>4. /\ inputServer'.capabilities = c /\ inputServer'.known = inputServer.known
      /\ inputServer'.serial = inputServer.serial /\ inputServer'.entered = inputServer.entered
      /\ inputServer'.resource = (inputServer.resource /\ I!Serves(c))
      /\ inputServer'.focus = IF I!Serves(c) THEN inputServer.focus ELSE 0
      /\ inputServer' \in [capabilities : SUBSET I!Capabilities,
                      known : SUBSET (DOMAIN inputSurfaces),
                      focus : {0} \cup DOMAIN inputSurfaces, resource : BOOLEAN,
                      serial : Nat, entered : Nat]
  BY <1>1, <1>2 DEF InputTypes
<1> HIDE DEF e
<1>5. InputEvents' = InputEvents /\ inputEvents \in Seq(InputEvents)
  BY <1>1, <1>2 DEF InputEvents, InputTypes
<1>6. inputEvents' \in Seq(InputEvents)
  BY <1>2, <1>3, <1>5 DEF e
<1>7. InputTypes'
  BY <1>1, <1>2, <1>4, <1>5, <1>6 DEF InputTypes
<1>8. SeatFollows'
  <2>1. CASE seat.state = "valid"
    <3>1. inputEvents' = Append(inputEvents, e)
      BY <1>2, <2>1 DEF e
    <3>2. e \in Told'
      BY <1>3, <1>4, <1>5 DEF Told
    <3>3. Decided(inputEvents', {"capabilities"}, Told',
                  seat'.capabilities = inputServer'.capabilities)
      BY <1>3, <1>5, <3>1, <3>2, DecidedSent
    <3> QED
      BY <1>2, <2>1, <3>3 DEF SeatFollows
  <2>2. CASE seat.state # "valid"
    BY <1>1, <1>2, <2>2 DEF SeatFollows
  <2> QED
    BY <2>1, <2>2
<1>9. \A x : Same(x)' <=> \A s \in DOMAIN inputSurfaces :
                            inputSurfaces[s] = "valid" => (x = s <=> inputServer'.focus = s)
  BY <1>2 DEF Same
<1>10. \A K : "capabilities" \notin K /\ NoneOf(inputEvents, K) => NoneOf(inputEvents', K)
  <2> SUFFICES ASSUME NEW K, "capabilities" \notin K, NoneOf(inputEvents, K)
               PROVE  NoneOf(inputEvents', K)
    OBVIOUS
  <2>1. e.kind \notin K
    BY <1>3
  <2>2. NoneOf(Append(inputEvents, e), K)
    BY <1>3, <1>5, <2>1, NoneOfSent
  <2> QED
    BY <1>2, <2>2 DEF e
<1>11. \A K, good, so : "capabilities" \notin K /\ Decided(inputEvents, K, good, so)
                          => Decided(inputEvents', K, good, so)
  <2> SUFFICES ASSUME NEW K, NEW good, NEW so, "capabilities" \notin K,
                      Decided(inputEvents, K, good, so)
               PROVE  Decided(inputEvents', K, good, so)
    OBVIOUS
  <2>1. e.kind \notin K
    BY <1>3
  <2>2. Decided(Append(inputEvents, e), K, good, so)
    BY <1>3, <1>5, <2>1, DecidedSent
  <2> QED
    BY <1>2, <2>2 DEF e
<1>12. Unmade'
  BY <1>1, <1>2, <1>4, <1>10 DEF Unmade, Crossings
<1>13. DeviceFollows'
  <2> SUFFICES ASSUME inputDevice.state = "valid", inputServer'.resource
               PROVE  DeviceFollows'
    BY <1>2 DEF DeviceFollows
  <2>1. inputServer.resource /\ inputServer'.focus = inputServer.focus
    BY <1>4
  <2>2. \A x : Same(x)' <=> Same(x)
    BY <1>9, <2>1 DEF Same
  <2>3. Aimed' = Aimed /\ Latest' = Latest /\ Entered' = Entered
    BY <1>4, <1>5, <2>1, <1>2 DEF Aimed, Latest, Entered, Same, Named
  <2>4. Same(inputDevice.enteredSurface)' <=> Same(inputDevice.enteredSurface)
    BY <1>2, <2>1 DEF Same
  <2>5. Decided(inputEvents', Crossings, Aimed', Same(inputDevice.enteredSurface)')
    <3>1. Decided(inputEvents, Crossings, Aimed, Same(inputDevice.enteredSurface))
      BY <1>1, <2>1 DEF DeviceFollows
    <3>2. Decided(inputEvents', Crossings, Aimed, Same(inputDevice.enteredSurface))
      BY <1>11, <3>1 DEF Crossings
    <3> QED
      BY <1>6, <2>3, <2>4, <3>2, DecidedWeaker
  <2>6. kind = "pointer" =>
          Decided(inputEvents', {"enter"}, Entered', inputDevice'.serial = inputServer'.entered)
    BY <1>1, <1>2, <1>4, <1>11, <2>1, <2>3 DEF DeviceFollows
  <2>7. kind = "textInputV2" =>
          Decided(inputEvents', Crossings, Latest', inputDevice'.serial = inputServer'.serial)
    BY <1>1, <1>2, <1>4, <1>11, <2>1, <2>3 DEF DeviceFollows, Crossings
  <2> QED
    BY <1>2, <2>5, <2>6, <2>7 DEF DeviceFollows
<1> QED
  BY <1>1, <1>7, <1>8, <1>12, <1>13 DEF InputInv

\* The pointer or the keyboard enters a surface or leaves it.
LEMMA InputCrosses == InputInv /\ (I!Enter \/ I!Leave) => InputInv'
<1> SUFFICES ASSUME InputInv, I!Enter \/ I!Leave PROVE InputInv'
  OBVIOUS
<1>1. InputTypes /\ SeatFollows /\ Unmade /\ DeviceFollows
  BY DEF InputInv
<1>2. /\ inputServer.resource
      /\ inputServer'.capabilities = inputServer.capabilities
      /\ inputServer'.resource = inputServer.resource
      /\ inputServer' \in [capabilities : SUBSET I!Capabilities,
                      known : SUBSET (DOMAIN inputSurfaces),
                      focus : {0} \cup DOMAIN inputSurfaces, resource : BOOLEAN,
                      serial : Nat, entered : Nat]
      /\ UNCHANGED <<kind, seat, inputDevice, inputSurfaces>>
      /\ \E e \in InputEvents :
           /\ inputEvents' = Append(inputEvents, e)
           /\ e.kind \in Crossings /\ e.serial = inputServer'.serial
           /\ Named(e) = inputServer'.focus
           /\ IF e.kind = "enter" THEN e.serial = inputServer'.entered
              ELSE inputServer'.entered = inputServer.entered
  <2>1. CASE I!Enter
    <3>1. PICK s \in inputServer.known :
            /\ inputServer.resource
            /\ inputServer' = [inputServer EXCEPT !.focus = s, !.serial = @ + 1,
                                                  !.entered = inputServer.serial + 1]
            /\ inputEvents' = Append(inputEvents, [kind |-> "enter", surface |-> s,
                                                   serial |-> inputServer.serial + 1])
            /\ UNCHANGED <<kind, seat, inputDevice, inputSurfaces>>
      BY <2>1 DEF I!Enter, I!Send
    <3>2. s \in DOMAIN inputSurfaces /\ inputServer.serial \in Nat
      BY <1>1 DEF InputTypes
    <3>3. /\ inputServer'.capabilities = inputServer.capabilities
          /\ inputServer'.resource = inputServer.resource
          /\ inputServer'.focus = s /\ inputServer'.serial = inputServer.serial + 1
          /\ inputServer'.entered = inputServer.serial + 1
          /\ inputServer' \in [capabilities : SUBSET I!Capabilities,
                          known : SUBSET (DOMAIN inputSurfaces),
                          focus : {0} \cup DOMAIN inputSurfaces, resource : BOOLEAN,
                          serial : Nat, entered : Nat]
      <4> DEFINE n == inputServer.serial + 1
      <4>1. n \in Nat /\ inputServer' = [inputServer EXCEPT !.focus = s, !.serial = n, !.entered = n]
        BY <3>1, <3>2
      <4> HIDE DEF n
      <4>2. /\ inputServer'.capabilities = inputServer.capabilities
            /\ inputServer'.known = inputServer.known
            /\ inputServer'.resource = inputServer.resource
            /\ inputServer'.focus = s /\ inputServer'.serial = n
            /\ inputServer'.entered = n
            /\ inputServer' \in [capabilities : SUBSET I!Capabilities,
                            known : SUBSET (DOMAIN inputSurfaces),
                            focus : {0} \cup DOMAIN inputSurfaces, resource : BOOLEAN,
                            serial : Nat, entered : Nat]
        BY <1>1, <3>2, <4>1 DEF InputTypes
      <4> QED
        BY <4>2 DEF n
    <3> DEFINE e == [kind |-> "enter", surface |-> s, serial |-> inputServer.serial + 1]
    <3>4. /\ e \in InputEvents /\ e.kind = "enter" /\ e.surface = s
          /\ e.serial = inputServer.serial + 1
      BY <3>2 DEF InputEvents
    <3>5. inputEvents' = Append(inputEvents, e)
      BY <3>1
    <3> HIDE DEF e
    <3>6. Named(e) = s /\ e.kind \in Crossings
      BY <3>4 DEF Named, Crossings
    <3> QED
      BY <3>1, <3>3, <3>4, <3>5, <3>6
  <2>2. CASE I!Leave
    <3>1. /\ inputServer.resource
          /\ inputServer' = [inputServer EXCEPT !.focus = 0, !.serial = @ + 1]
          /\ inputEvents' = Append(inputEvents, [kind |-> "leave",
                                                 serial |-> inputServer.serial + 1])
          /\ UNCHANGED <<kind, seat, inputDevice, inputSurfaces>>
      BY <2>2 DEF I!Leave, I!Send, I!None
    <3>2. inputServer.serial \in Nat
      BY <1>1 DEF InputTypes
    <3>3. /\ inputServer'.capabilities = inputServer.capabilities
          /\ inputServer'.resource = inputServer.resource
          /\ inputServer'.focus = 0 /\ inputServer'.serial = inputServer.serial + 1
          /\ inputServer'.entered = inputServer.entered
          /\ inputServer' \in [capabilities : SUBSET I!Capabilities,
                          known : SUBSET (DOMAIN inputSurfaces),
                          focus : {0} \cup DOMAIN inputSurfaces, resource : BOOLEAN,
                          serial : Nat, entered : Nat]
      <4> DEFINE n == inputServer.serial + 1
      <4>1. n \in Nat /\ inputServer' = [inputServer EXCEPT !.focus = 0, !.serial = n]
        BY <3>1, <3>2
      <4> HIDE DEF n
      <4>2. /\ inputServer'.capabilities = inputServer.capabilities
            /\ inputServer'.known = inputServer.known
            /\ inputServer'.resource = inputServer.resource
            /\ inputServer'.focus = 0 /\ inputServer'.serial = n
            /\ inputServer'.entered = inputServer.entered
            /\ inputServer' \in [capabilities : SUBSET I!Capabilities,
                            known : SUBSET (DOMAIN inputSurfaces),
                            focus : {0} \cup DOMAIN inputSurfaces, resource : BOOLEAN,
                            serial : Nat, entered : Nat]
        BY <1>1, <3>2, <4>1 DEF InputTypes
      <4> QED
        BY <4>2 DEF n
    <3> DEFINE e == [kind |-> "leave", serial |-> inputServer.serial + 1]
    <3>4. e \in InputEvents /\ e.kind = "leave" /\ e.serial = inputServer.serial + 1
      BY <3>2 DEF InputEvents
    <3>5. inputEvents' = Append(inputEvents, e)
      BY <3>1
    <3> HIDE DEF e
    <3>6. Named(e) = 0 /\ e.kind \in Crossings
      BY <3>4 DEF Named, Crossings
    <3> QED
      BY <3>1, <3>3, <3>4, <3>5, <3>6
  <2> QED
    BY <2>1, <2>2
<1>3. PICK e \in InputEvents :
        /\ inputEvents' = Append(inputEvents, e)
        /\ e.kind \in Crossings /\ e.serial = inputServer'.serial
        /\ Named(e) = inputServer'.focus
        /\ IF e.kind = "enter" THEN e.serial = inputServer'.entered
           ELSE inputServer'.entered = inputServer.entered
  BY <1>2
<1>4. InputEvents' = InputEvents /\ inputEvents \in Seq(InputEvents)
  BY <1>1, <1>2 DEF InputEvents, InputTypes
<1>5. inputEvents' \in Seq(InputEvents)
  BY <1>3, <1>4
<1>6. InputTypes'
  BY <1>1, <1>2, <1>4, <1>5 DEF InputTypes
<1>7. SeatFollows'
  <2>1. e.kind \notin {"capabilities"}
    BY <1>3 DEF Crossings
  <2>2. Told' = Told
    BY <1>2, <1>4 DEF Told
  <2>3. CASE seat.state = "valid"
    <3>1. Decided(inputEvents, {"capabilities"}, Told,
                  seat.capabilities = inputServer.capabilities)
      BY <1>1, <2>3 DEF SeatFollows
    <3>2. Decided(inputEvents', {"capabilities"}, Told,
                  seat.capabilities = inputServer.capabilities)
      BY <1>3, <1>4, <2>1, <3>1, DecidedSent
    <3> QED
      BY <1>2, <2>2, <2>3, <3>2 DEF SeatFollows
  <2>4. CASE seat.state # "valid"
    <3>1. NoneOf(inputEvents', {"capabilities"})
      BY <1>1, <1>3, <1>4, <2>1, <2>4, NoneOfSent DEF SeatFollows
    <3> QED
      BY <1>1, <1>2, <2>4, <3>1 DEF SeatFollows
  <2> QED
    BY <2>3, <2>4
<1>8. Unmade'
  BY <1>1, <1>2 DEF Unmade
<1>9. DeviceFollows'
  <2> SUFFICES ASSUME inputDevice.state = "valid" PROVE DeviceFollows'
    BY <1>2 DEF DeviceFollows
  <2>1. e \in Aimed'
    BY <1>2, <1>3, <1>4 DEF Aimed, Same, Named
  <2>2. e \in Latest'
    BY <1>3, <1>4 DEF Latest
  <2>3. Decided(inputEvents', Crossings, Aimed', Same(inputDevice.enteredSurface)')
    BY <1>3, <1>4, <2>1, DecidedSent
  <2>4. Decided(inputEvents', Crossings, Latest', inputDevice'.serial = inputServer'.serial)
    BY <1>3, <1>4, <2>2, DecidedSent
  <2>5. ASSUME kind = "pointer"
        PROVE  Decided(inputEvents', {"enter"}, Entered', inputDevice'.serial = inputServer'.entered)
    <3>1. CASE e.kind = "enter"
      <4>1. e \in Entered'
        BY <1>3, <1>4, <3>1 DEF Entered
      <4> QED
        BY <1>3, <1>4, <3>1, <4>1, DecidedSent
    <3>2. CASE e.kind # "enter"
      <4>1. Entered' = Entered
        BY <1>3, <1>4, <3>2 DEF Entered
      <4>2. Decided(inputEvents, {"enter"}, Entered, inputDevice.serial = inputServer.entered)
        BY <1>1, <1>2, <2>5 DEF DeviceFollows
      <4>3. Decided(inputEvents', {"enter"}, Entered, inputDevice.serial = inputServer.entered)
        BY <1>3, <1>4, <3>2, <4>2, DecidedSent
      <4> QED
        BY <1>2, <1>3, <3>2, <4>1, <4>3
    <3> QED
      BY <3>1, <3>2
  <2> QED
    BY <1>2, <2>3, <2>4, <2>5 DEF DeviceFollows
<1> QED
  BY <1>6, <1>7, <1>8, <1>9 DEF InputInv

\* What every step has to show that is about the surfaces.
LEMMA InputSurfacesStep ==
  ASSUME InputInv, InputTypes', UNCHANGED <<kind, inputEvents, seat>>,
         \A s \in DOMAIN inputSurfaces : s \in DOMAIN inputSurfaces',
         inputServer'.capabilities = inputServer.capabilities,
         inputServer'.resource = inputServer.resource,
         inputServer'.serial = inputServer.serial,
         inputServer'.entered = inputServer.entered,
         inputDevice'.state = inputDevice.state, inputDevice'.serial = inputDevice.serial,
         inputServer'.focus \in {inputServer.focus, 0},
         inputDevice'.enteredSurface \in {inputDevice.enteredSurface, 0},
         \A s \in DOMAIN inputSurfaces' : inputSurfaces'[s] = "valid" =>
           IF s \in DOMAIN inputSurfaces
           THEN /\ inputSurfaces[s] = "valid"
                /\ inputServer'.focus = s <=> inputServer.focus = s
                /\ inputDevice'.enteredSurface = s <=> inputDevice.enteredSurface = s
           ELSE s # 0
  PROVE  InputInv'
<1>1. InputTypes /\ SeatFollows /\ Unmade /\ DeviceFollows
  BY DEF InputInv
<1>2. /\ \A e \in InputEvents : e \in InputEvents'
      /\ \A e \in InputEvents : Named(e) \in {0} \cup DOMAIN inputSurfaces
  <2>1. \A e \in InputEvents : e \in InputEvents'
    BY DEF InputEvents
  <2>2. \A e \in InputEvents : e.kind = "enter" => e.surface \in DOMAIN inputSurfaces
    BY DEF InputEvents
  <2> QED
    BY <2>1, <2>2 DEF Named
<1>3. /\ inputServer.focus \in {0} \cup DOMAIN inputSurfaces
      /\ inputDevice.enteredSurface \in {0} \cup DOMAIN inputSurfaces
      /\ inputEvents \in Seq(InputEvents)
  BY <1>1 DEF InputTypes
<1>4. \A e \in InputEvents :
        /\ e \in Told => e \in Told'
        /\ e \in Latest => e \in Latest'
        /\ e \in Entered => e \in Entered'
  BY <1>2 DEF Told, Latest, Entered
<1>5. ASSUME NEW e \in InputEvents, e \in Aimed PROVE e \in Aimed'
  <2>1. Same(Named(e)) /\ Named(e) \in {0} \cup DOMAIN inputSurfaces
    BY <1>2, <1>5 DEF Aimed
  <2>2. \A s \in DOMAIN inputSurfaces' :
          inputSurfaces'[s] = "valid" => (Named(e) = s <=> inputServer'.focus = s)
    BY <1>3, <2>1 DEF Same
  <2>3. Same(Named(e))'
    BY <2>2 DEF Same, Named
  <2> QED
    BY <1>2, <1>5, <2>3 DEF Aimed
<1>6. Same(inputDevice.enteredSurface) => Same(inputDevice.enteredSurface)'
  BY <1>3 DEF Same
<1>7. SeatFollows'
  <2>1. CASE seat.state = "valid"
    <3>1. Decided(inputEvents, {"capabilities"}, Told,
                  seat.capabilities = inputServer.capabilities)
      BY <1>1, <2>1 DEF SeatFollows
    <3>2. Decided(inputEvents, {"capabilities"}, Told',
                  seat.capabilities = inputServer.capabilities)
      BY <1>3, <1>4, <3>1, DecidedWeaker
    <3> QED
      BY <2>1, <3>2 DEF SeatFollows
  <2>2. CASE seat.state # "valid"
    BY <1>1, <2>2 DEF SeatFollows
  <2> QED
    BY <2>1, <2>2
<1>8. Unmade'
  BY <1>1 DEF Unmade
<1>9. DeviceFollows'
  <2> SUFFICES ASSUME inputDevice.state = "valid", inputServer.resource PROVE DeviceFollows'
    BY DEF DeviceFollows
  <2>1. Decided(inputEvents, Crossings, Aimed', Same(inputDevice.enteredSurface)')
    <3>1. Decided(inputEvents, Crossings, Aimed, Same(inputDevice.enteredSurface))
      BY <1>1 DEF DeviceFollows
    <3> QED
      BY <1>3, <1>5, <1>6, <3>1, DecidedWeaker
  <2>2. ASSUME kind = "pointer"
        PROVE  Decided(inputEvents, {"enter"}, Entered', inputDevice'.serial = inputServer'.entered)
    <3>1. Decided(inputEvents, {"enter"}, Entered, inputDevice.serial = inputServer.entered)
      BY <1>1, <2>2 DEF DeviceFollows
    <3> QED
      BY <1>3, <1>4, <3>1, DecidedWeaker
  <2>3. ASSUME kind = "textInputV2"
        PROVE  Decided(inputEvents, Crossings, Latest', inputDevice'.serial = inputServer'.serial)
    <3>1. Decided(inputEvents, Crossings, Latest, inputDevice.serial = inputServer.serial)
      BY <1>1, <2>3 DEF DeviceFollows
    <3> QED
      BY <1>3, <1>4, <3>1, DecidedWeaker
  <2> QED
    BY <2>1, <2>2, <2>3 DEF DeviceFollows
<1> QED
  BY <1>7, <1>8, <1>9 DEF InputInv

LEMMA InputSurfacesChange ==
  InputInv /\ (I!ServeDestroySurface \/ I!CreateSurface \/ I!ReleaseSurface \/ I!DeleteSurface)
    => InputInv'
<1> SUFFICES ASSUME InputInv,
                    \/ I!ServeDestroySurface \/ I!CreateSurface
                    \/ I!ReleaseSurface \/ I!DeleteSurface
             PROVE  InputInv'
  OBVIOUS
<1>1. InputTypes
  BY DEF InputInv
<1>2. /\ DOMAIN inputSurfaces = 1 .. Len(inputSurfaces) /\ Len(inputSurfaces) \in Nat
      /\ inputEvents \in Seq(InputEvents)
      /\ inputServer.focus \in {0} \cup DOMAIN inputSurfaces
      /\ inputDevice.enteredSurface \in {0} \cup DOMAIN inputSurfaces
  BY <1>1 DEF InputTypes
<1>3. CASE I!ServeDestroySurface
  <2>1. PICK s \in inputServer.known :
          /\ inputSurfaces[s] # "valid"
          /\ inputServer' = [inputServer EXCEPT !.known = @ \ {s},
                                                !.focus = IF @ = s THEN 0 ELSE @]
          /\ UNCHANGED <<kind, inputEvents, seat, inputDevice, inputSurfaces>>
    BY <1>3 DEF I!ServeDestroySurface, I!None
  <2>2. /\ inputServer'.capabilities = inputServer.capabilities
        /\ inputServer'.resource = inputServer.resource
        /\ inputServer'.serial = inputServer.serial
        /\ inputServer'.entered = inputServer.entered
        /\ inputServer'.focus = IF inputServer.focus = s THEN 0 ELSE inputServer.focus
        /\ inputServer' \in [capabilities : SUBSET I!Capabilities,
                        known : SUBSET (DOMAIN inputSurfaces),
                        focus : {0} \cup DOMAIN inputSurfaces, resource : BOOLEAN,
                        serial : Nat, entered : Nat]
    BY <1>1, <2>1 DEF InputTypes
  <2>3. InputEvents' = InputEvents
    BY <2>1 DEF InputEvents
  <2>4. InputTypes'
    BY <1>1, <2>1, <2>2, <2>3 DEF InputTypes
  <2>5. \A t \in DOMAIN inputSurfaces : inputSurfaces[t] = "valid" =>
          (inputServer'.focus = t <=> inputServer.focus = t)
    <3>1. 0 \notin DOMAIN inputSurfaces
      BY <1>2
    <3> QED
      BY <2>1, <2>2, <3>1
  <2> QED
    BY <2>1, <2>2, <2>4, <2>5, InputSurfacesStep
<1>4. CASE I!CreateSurface
  <2> DEFINE n == Len(inputSurfaces) + 1
  <2>1. /\ inputSurfaces' = Append(inputSurfaces, "valid")
        /\ inputServer' = [inputServer EXCEPT !.known = @ \cup {Len(inputSurfaces')}]
        /\ UNCHANGED <<kind, inputEvents, seat, inputDevice>>
    BY <1>4 DEF I!CreateSurface
  <2>2. /\ inputSurfaces' \in Seq({"valid", "released", "deleted"})
        /\ DOMAIN inputSurfaces' = 1 .. n /\ Len(inputSurfaces') = n
        /\ \A s \in DOMAIN inputSurfaces : inputSurfaces'[s] = inputSurfaces[s]
    BY <1>1, <2>1 DEF InputTypes
  <2>3. /\ n \in DOMAIN inputSurfaces' /\ n # 0
        /\ \A s \in DOMAIN inputSurfaces : s \in DOMAIN inputSurfaces' /\ s # 0
        /\ \A s \in DOMAIN inputSurfaces' : s # 0
    BY <1>2, <2>2
  <2> HIDE DEF n
  <2>4. /\ inputServer'.capabilities = inputServer.capabilities
        /\ inputServer'.resource = inputServer.resource
        /\ inputServer'.serial = inputServer.serial
        /\ inputServer'.entered = inputServer.entered
        /\ inputServer'.focus = inputServer.focus
        /\ inputServer' \in [capabilities : SUBSET I!Capabilities,
                        known : SUBSET (DOMAIN inputSurfaces'),
                        focus : {0} \cup DOMAIN inputSurfaces', resource : BOOLEAN,
                        serial : Nat, entered : Nat]
    BY <1>1, <2>1, <2>2, <2>3 DEF InputTypes
  <2>5. /\ InputEvents \subseteq InputEvents'
        /\ inputDevice' \in [state : {"none", "valid", "ended"},
                             enteredSurface : {0} \cup DOMAIN inputSurfaces', serial : Nat]
    BY <1>1, <2>1, <2>3 DEF InputEvents, InputTypes
  <2>6. inputEvents' \in Seq(InputEvents')
    BY <1>2, <2>1, <2>5
  <2>7. InputTypes'
    BY <1>1, <2>1, <2>2, <2>4, <2>5, <2>6 DEF InputTypes
  <2> QED
    BY <2>1, <2>2, <2>3, <2>4, <2>7, InputSurfacesStep
<1>5. CASE I!ReleaseSurface
  <2>1. PICK s \in DOMAIN inputSurfaces :
          /\ inputSurfaces' = [inputSurfaces EXCEPT ![s] = "released"]
          /\ UNCHANGED <<kind, inputServer, inputEvents, seat, inputDevice>>
    BY <1>5 DEF I!ReleaseSurface
  <2>2. /\ inputSurfaces' \in Seq({"valid", "released", "deleted"})
        /\ DOMAIN inputSurfaces' = DOMAIN inputSurfaces
        /\ \A t \in DOMAIN inputSurfaces : inputSurfaces'[t] = "valid" => inputSurfaces[t] = "valid"
    BY <1>1, <2>1 DEF InputTypes
  <2>3. InputEvents' = InputEvents
    BY <2>2 DEF InputEvents
  <2>4. InputTypes'
    BY <1>1, <2>1, <2>2, <2>3 DEF InputTypes
  <2> QED
    BY <2>1, <2>2, <2>4, InputSurfacesStep
<1>6. CASE I!DeleteSurface
  <2>1. PICK s \in DOMAIN inputSurfaces :
          /\ inputSurfaces' = [inputSurfaces EXCEPT ![s] = "deleted"]
          /\ inputDevice' = [inputDevice EXCEPT !.enteredSurface =
                               IF @ = s /\ kind \notin I!TextInputs THEN 0 ELSE @]
          /\ UNCHANGED <<kind, inputServer, inputEvents, seat>>
    BY <1>6 DEF I!DeleteSurface, I!None
  <2>2. /\ inputSurfaces' \in Seq({"valid", "released", "deleted"})
        /\ DOMAIN inputSurfaces' = DOMAIN inputSurfaces
        /\ \A t \in DOMAIN inputSurfaces :
             inputSurfaces'[t] = "valid" => inputSurfaces[t] = "valid" /\ t # s
    BY <1>1, <2>1 DEF InputTypes
  <2>3. InputEvents' = InputEvents
    BY <2>2 DEF InputEvents
  <2>4. /\ inputDevice'.state = inputDevice.state /\ inputDevice'.serial = inputDevice.serial
        /\ inputDevice'.enteredSurface \in {inputDevice.enteredSurface, 0}
        /\ inputDevice'.enteredSurface # inputDevice.enteredSurface
             => inputDevice.enteredSurface = s
        /\ inputDevice' \in [state : {"none", "valid", "ended"},
                             enteredSurface : {0} \cup DOMAIN inputSurfaces, serial : Nat]
    BY <1>1, <2>1 DEF InputTypes
  <2>5. InputTypes'
    BY <1>1, <2>1, <2>2, <2>3, <2>4 DEF InputTypes
  <2>6. \A t \in DOMAIN inputSurfaces : inputSurfaces'[t] = "valid" =>
          (inputDevice'.enteredSurface = t <=> inputDevice.enteredSurface = t)
    <3>1. 0 \notin DOMAIN inputSurfaces
      BY <1>2
    <3> QED
      BY <2>2, <2>4, <3>1
  <2> QED
    BY <2>1, <2>2, <2>4, <2>5, <2>6, InputSurfacesStep
<1> QED
  BY <1>3, <1>4, <1>5, <1>6

\* The event that is taken and what stays on its way.
LEMMA InputHead ==
  ASSUME InputInv, inputEvents # <<>>, inputEvents' = Tail(inputEvents),
         UNCHANGED <<kind, inputServer, inputSurfaces>>
  PROVE  /\ Head(inputEvents) \in InputEvents
         /\ inputEvents \in Seq(InputEvents) /\ inputEvents' \in Seq(InputEvents)
         /\ InputEvents' = InputEvents /\ Told' = Told /\ Latest' = Latest
         /\ Entered' = Entered /\ Aimed' = Aimed
<1>1. inputEvents \in Seq(InputEvents)
  BY DEF InputInv, InputTypes
<1>2. Head(inputEvents) \in InputEvents /\ inputEvents' \in Seq(InputEvents)
  BY <1>1
<1>3. InputEvents' = InputEvents
  BY DEF InputEvents
<1> QED
  BY <1>1, <1>2, <1>3 DEF Told, Latest, Entered, Aimed, Same, Named

LEMMA InputToldCapabilities == InputInv /\ I!capabilitiesCallback => InputInv'
<1> SUFFICES ASSUME InputInv, I!capabilitiesCallback PROVE InputInv'
  OBVIOUS
<1> DEFINE e == Head(inputEvents)
<1>1. InputTypes /\ SeatFollows /\ Unmade /\ DeviceFollows
  BY DEF InputInv
<1>2. /\ inputEvents # <<>> /\ e.kind = "capabilities" /\ inputEvents' = Tail(inputEvents)
      /\ UNCHANGED <<kind, inputServer, inputSurfaces, inputDevice>>
      /\ seat' = [seat EXCEPT !.capabilities = e.capabilities]
  BY DEF I!capabilitiesCallback, I!Takes
<1>3. /\ e \in InputEvents
      /\ inputEvents \in Seq(InputEvents) /\ inputEvents' \in Seq(InputEvents)
      /\ InputEvents' = InputEvents /\ Told' = Told /\ Latest' = Latest
      /\ Entered' = Entered /\ Aimed' = Aimed
  BY <1>2, InputHead
<1> HIDE DEF e
<1>4. e.capabilities \in SUBSET I!Capabilities
  BY <1>2, <1>3 DEF InputEvents
<1>5. /\ seat'.state = seat.state /\ seat'.capabilities = e.capabilities
      /\ seat' \in [state : {"unset", "valid", "ended"}, capabilities : SUBSET I!Capabilities]
  BY <1>1, <1>2, <1>4 DEF InputTypes
<1>6. InputTypes'
  BY <1>1, <1>2, <1>3, <1>5 DEF InputTypes
<1>7. SeatFollows'
  <2>1. seat.state = "valid"
    <3>1. ~NoneOf(inputEvents, {"capabilities"})
      BY <1>2, <1>3, NoneOfTaken DEF e
    <3> QED
      BY <1>1, <3>1 DEF SeatFollows
  <2>2. Decided(inputEvents, {"capabilities"}, Told,
                seat.capabilities = inputServer.capabilities)
    BY <1>1, <2>1 DEF SeatFollows
  <2>3. Decided(inputEvents', {"capabilities"}, Told, e \in Told)
    BY <1>2, <1>3, <2>2, DecidedTaken DEF e
  <2>4. e \in Told => seat'.capabilities = inputServer.capabilities
    BY <1>5 DEF Told
  <2>5. Decided(inputEvents', {"capabilities"}, Told,
                seat'.capabilities = inputServer.capabilities)
    <3> DEFINE so == e \in Told
               now == seat'.capabilities = inputServer.capabilities
    <3>1. Decided(inputEvents', {"capabilities"}, Told, so) /\ (so => now)
      BY <2>3, <2>4
    <3> HIDE DEF so, now
    <3>2. Decided(inputEvents', {"capabilities"}, Told, now)
      BY <1>3, <3>1, DecidedWeaker
    <3> QED
      BY <3>2 DEF now
  <2> QED
    BY <1>2, <1>3, <1>5, <2>1, <2>5 DEF SeatFollows
<1>8. Unmade'
  <2>1. \A K : NoneOf(inputEvents, K) => NoneOf(inputEvents', K)
    BY <1>2, <1>3, NoneOfTaken
  <2> QED
    BY <1>1, <1>2, <2>1 DEF Unmade
<1>9. \A K, good, so : "capabilities" \notin K /\ Decided(inputEvents, K, good, so)
                         => Decided(inputEvents', K, good, so)
  <2> SUFFICES ASSUME NEW K, NEW good, NEW so, "capabilities" \notin K,
                      Decided(inputEvents, K, good, so)
               PROVE  Decided(inputEvents', K, good, so)
    OBVIOUS
  <2> QED
    BY <1>2, <1>3, DecidedTaken DEF e
<1>10. DeviceFollows'
  <2> SUFFICES ASSUME inputDevice.state = "valid", inputServer.resource PROVE DeviceFollows'
    BY <1>2 DEF DeviceFollows
  <2>1. Decided(inputEvents', Crossings, Aimed', Same(inputDevice.enteredSurface)')
    <3>1. Decided(inputEvents, Crossings, Aimed, Same(inputDevice.enteredSurface))
      BY <1>1 DEF DeviceFollows
    <3>2. Decided(inputEvents', Crossings, Aimed, Same(inputDevice.enteredSurface))
      BY <1>9, <3>1 DEF Crossings
    <3>3. Same(inputDevice.enteredSurface) => Same(inputDevice.enteredSurface)'
      BY <1>2 DEF Same
    <3> QED
      BY <1>3, <3>2, <3>3, DecidedWeaker
  <2>2. kind = "pointer" =>
          Decided(inputEvents', {"enter"}, Entered', inputDevice'.serial = inputServer'.entered)
    BY <1>1, <1>2, <1>3, <1>9 DEF DeviceFollows
  <2>3. kind = "textInputV2" =>
          Decided(inputEvents', Crossings, Latest', inputDevice'.serial = inputServer'.serial)
    BY <1>1, <1>2, <1>3, <1>9 DEF DeviceFollows, Crossings
  <2> QED
    BY <1>2, <2>1, <2>2, <2>3 DEF DeviceFollows
<1> QED
  BY <1>6, <1>7, <1>8, <1>10 DEF InputInv

\* What enter and leave tell the device.
LEMMA InputToldFocus ==
  InputInv /\ (I!enterCallback \/ I!leaveCallback) => InputInv'
<1> SUFFICES ASSUME InputInv, I!enterCallback \/ I!leaveCallback PROVE InputInv'
  OBVIOUS
<1> DEFINE e == Head(inputEvents)
<1>1. InputTypes /\ SeatFollows /\ Unmade /\ DeviceFollows
  BY DEF InputInv
<1>2. /\ inputEvents # <<>> /\ inputEvents' = Tail(inputEvents)
      /\ UNCHANGED <<kind, inputServer, inputSurfaces, seat>>
      /\ e.kind \in Crossings
      /\ e.kind = "enter" =>
           inputDevice' = [inputDevice EXCEPT
             !.enteredSurface = I!get(I!Carried(e.surface)),
             !.serial = IF kind \in {"pointer", "textInputV2"} THEN e.serial ELSE @]
      /\ e.kind = "leave" =>
           inputDevice' = [inputDevice EXCEPT
             !.enteredSurface = 0,
             !.serial = IF kind = "textInputV2" THEN e.serial ELSE @]
  BY DEF I!enterCallback, I!leaveCallback, I!Takes, I!None, Crossings
<1>3. /\ e \in InputEvents
      /\ inputEvents \in Seq(InputEvents) /\ inputEvents' \in Seq(InputEvents)
      /\ InputEvents' = InputEvents /\ Told' = Told /\ Latest' = Latest
      /\ Entered' = Entered /\ Aimed' = Aimed
  BY <1>2, InputHead
<1> HIDE DEF e
<1>4. /\ e.serial \in Nat
      /\ e.kind = "enter" => e.surface \in DOMAIN inputSurfaces
      /\ e.kind \in {"enter", "leave"}
  BY <1>2, <1>3 DEF InputEvents, Crossings
<1>5. /\ inputDevice'.state = inputDevice.state
      /\ inputDevice' \in [state : {"none", "valid", "ended"},
                           enteredSurface : {0} \cup DOMAIN inputSurfaces, serial : Nat]
      /\ \A s \in DOMAIN inputSurfaces : inputSurfaces[s] = "valid" =>
           (inputDevice'.enteredSurface = s <=> Named(e) = s)
      /\ inputDevice'.serial = IF kind = "textInputV2" \/ (kind = "pointer" /\ e.kind = "enter")
                               THEN e.serial ELSE inputDevice.serial
  <2>1. CASE e.kind = "enter"
    <3> DEFINE g == I!get(I!Carried(e.surface))
    <3>1. /\ g \in {0} \cup DOMAIN inputSurfaces
          /\ \A s \in DOMAIN inputSurfaces : inputSurfaces[s] = "valid" => (g = s <=> e.surface = s)
      BY <1>1, <1>4, <2>1, SurfaceFound
    <3>2. inputDevice' = [inputDevice EXCEPT
            !.enteredSurface = g,
            !.serial = IF kind \in {"pointer", "textInputV2"} THEN e.serial ELSE @]
      BY <1>2, <2>1
    <3> HIDE DEF g
    <3>3. /\ inputDevice'.state = inputDevice.state /\ inputDevice'.enteredSurface = g
          /\ inputDevice'.serial = IF kind \in {"pointer", "textInputV2"}
                                   THEN e.serial ELSE inputDevice.serial
          /\ inputDevice' \in [state : {"none", "valid", "ended"},
                               enteredSurface : {0} \cup DOMAIN inputSurfaces, serial : Nat]
      BY <1>1, <1>4, <3>1, <3>2 DEF InputTypes
    <3> QED
      BY <2>1, <3>1, <3>3 DEF Named
  <2>2. CASE e.kind = "leave"
    <3>1. inputDevice' = [inputDevice EXCEPT
            !.enteredSurface = 0, !.serial = IF kind = "textInputV2" THEN e.serial ELSE @]
      BY <1>2, <2>2
    <3>2. /\ inputDevice'.state = inputDevice.state /\ inputDevice'.enteredSurface = 0
          /\ inputDevice'.serial = IF kind = "textInputV2" THEN e.serial ELSE inputDevice.serial
          /\ inputDevice' \in [state : {"none", "valid", "ended"},
                               enteredSurface : {0} \cup DOMAIN inputSurfaces, serial : Nat]
      BY <1>1, <1>4, <3>1 DEF InputTypes
    <3> QED
      BY <2>2, <3>2 DEF Named
  <2> QED
    BY <1>4, <2>1, <2>2
<1>6. InputTypes'
  BY <1>1, <1>2, <1>3, <1>5 DEF InputTypes
<1>7. SeatFollows'
  <2>1. e.kind \notin {"capabilities"}
    BY <1>4
  <2>2. CASE seat.state = "valid"
    <3>1. Decided(inputEvents, {"capabilities"}, Told,
                  seat.capabilities = inputServer.capabilities)
      BY <1>1, <2>2 DEF SeatFollows
    <3>2. Decided(inputEvents', {"capabilities"}, Told,
                  seat.capabilities = inputServer.capabilities)
      BY <1>2, <1>3, <2>1, <3>1, DecidedTaken DEF e
    <3> QED
      BY <1>2, <1>3, <2>2, <3>2 DEF SeatFollows
  <2>3. CASE seat.state # "valid"
    <3>1. NoneOf(inputEvents', {"capabilities"})
      BY <1>1, <1>2, <1>3, <2>3, NoneOfTaken DEF SeatFollows
    <3> QED
      BY <1>1, <1>2, <2>3, <3>1 DEF SeatFollows
  <2> QED
    BY <2>2, <2>3
<1>8. Unmade'
  <2>1. ~NoneOf(inputEvents, Crossings)
    BY <1>2, <1>3, NoneOfTaken DEF e
  <2> QED
    BY <1>1, <1>5, <2>1 DEF Unmade
<1>9. DeviceFollows'
  <2> SUFFICES ASSUME inputDevice.state = "valid", inputServer.resource PROVE DeviceFollows'
    BY <1>2, <1>5 DEF DeviceFollows
  <2>1. Decided(inputEvents', Crossings, Aimed', Same(inputDevice.enteredSurface)')
    <3>1. Decided(inputEvents, Crossings, Aimed, Same(inputDevice.enteredSurface))
      BY <1>1 DEF DeviceFollows
    <3>2. Decided(inputEvents', Crossings, Aimed, e \in Aimed)
      BY <1>2, <1>3, <3>1, DecidedTaken DEF e
    <3>3. e \in Aimed => Same(inputDevice.enteredSurface)'
      BY <1>2, <1>5 DEF Aimed, Same
    <3> QED
      BY <1>3, <3>2, <3>3, DecidedWeaker
  <2>2. ASSUME kind = "pointer"
        PROVE  Decided(inputEvents', {"enter"}, Entered', inputDevice'.serial = inputServer'.entered)
    <3>1. Decided(inputEvents, {"enter"}, Entered, inputDevice.serial = inputServer.entered)
      BY <1>1, <2>2 DEF DeviceFollows
    <3>2. CASE e.kind = "enter"
      <4>1. Decided(inputEvents', {"enter"}, Entered, e \in Entered)
        BY <1>2, <1>3, <3>1, <3>2, DecidedTaken DEF e
      <4>2. e \in Entered => inputDevice'.serial = inputServer'.entered
        BY <1>2, <1>5, <2>2, <3>2 DEF Entered
      <4> DEFINE so == e \in Entered
                 now == inputDevice'.serial = inputServer'.entered
      <4>3. Decided(inputEvents', {"enter"}, Entered, so) /\ (so => now)
        BY <4>1, <4>2
      <4> HIDE DEF so, now
      <4>4. Decided(inputEvents', {"enter"}, Entered, now)
        BY <1>3, <4>3, DecidedWeaker
      <4> QED
        BY <1>3, <4>4 DEF now
    <3>3. CASE e.kind # "enter"
      <4>1. Decided(inputEvents', {"enter"}, Entered, inputDevice.serial = inputServer.entered)
        BY <1>2, <1>3, <3>1, <3>3, DecidedTaken DEF e
      <4> QED
        BY <1>2, <1>3, <1>5, <2>2, <3>3, <4>1
    <3> QED
      BY <3>2, <3>3
  <2>3. ASSUME kind = "textInputV2"
        PROVE  Decided(inputEvents', Crossings, Latest', inputDevice'.serial = inputServer'.serial)
    <3>1. Decided(inputEvents, Crossings, Latest, inputDevice.serial = inputServer.serial)
      BY <1>1, <2>3 DEF DeviceFollows
    <3>2. Decided(inputEvents', Crossings, Latest, e \in Latest)
      BY <1>2, <1>3, <3>1, DecidedTaken DEF e
    <3>3. e \in Latest => inputDevice'.serial = inputServer'.serial
      BY <1>2, <1>5, <2>3 DEF Latest
    <3> DEFINE so == e \in Latest
               now == inputDevice'.serial = inputServer'.serial
    <3>4. Decided(inputEvents', Crossings, Latest, so) /\ (so => now)
      BY <3>2, <3>3
    <3> HIDE DEF so, now
    <3>5. Decided(inputEvents', Crossings, Latest, now)
      BY <1>3, <3>4, DecidedWeaker
    <3> QED
      BY <1>3, <3>5 DEF now
  <2> QED
    BY <1>2, <2>1, <2>2, <2>3 DEF DeviceFollows
<1> QED
  BY <1>6, <1>7, <1>8, <1>9 DEF InputInv

LEMMA InputSetup == InputInv /\ I!SetupSeat => InputInv'
<1> SUFFICES ASSUME InputInv, I!SetupSeat PROVE InputInv'
  OBVIOUS
<1>1. InputTypes /\ SeatFollows /\ Unmade /\ DeviceFollows
  BY DEF InputInv
<1> DEFINE e == [kind |-> "capabilities", capabilities |-> inputServer.capabilities]
<1>2. /\ seat.state = "unset" /\ seat' = [seat EXCEPT !.state = "valid"]
      /\ inputEvents' = Append(inputEvents, e)
      /\ UNCHANGED <<kind, inputServer, inputDevice, inputSurfaces>>
  BY DEF I!SetupSeat
<1>3. /\ e \in InputEvents /\ e.kind = "capabilities"
      /\ e.capabilities = inputServer.capabilities
      /\ inputEvents \in Seq(InputEvents)
  BY <1>1 DEF InputEvents, InputTypes
<1> HIDE DEF e
<1>4. /\ seat'.state = "valid" /\ seat'.capabilities = seat.capabilities
      /\ seat' \in [state : {"unset", "valid", "ended"}, capabilities : SUBSET I!Capabilities]
  BY <1>1, <1>2 DEF InputTypes
<1>5. /\ InputEvents' = InputEvents /\ Told' = Told /\ Latest' = Latest
      /\ Entered' = Entered /\ Aimed' = Aimed
  BY <1>2 DEF InputEvents, Told, Latest, Entered, Aimed, Same, Named
<1>6. inputEvents' \in Seq(InputEvents)
  BY <1>2, <1>3
<1>7. InputTypes'
  BY <1>1, <1>2, <1>4, <1>5, <1>6 DEF InputTypes
<1>8. SeatFollows'
  <2>1. e \in Told
    BY <1>3 DEF Told
  <2>2. Decided(inputEvents', {"capabilities"}, Told,
                seat'.capabilities = inputServer'.capabilities)
    BY <1>2, <1>3, <2>1, DecidedSent
  <2> QED
    BY <1>4, <1>5, <2>2 DEF SeatFollows
<1>9. Unmade'
  <2>1. \A K : "capabilities" \notin K /\ NoneOf(inputEvents, K) => NoneOf(inputEvents', K)
    BY <1>2, <1>3, NoneOfSent
  <2> QED
    BY <1>1, <1>2, <2>1 DEF Unmade, Crossings
<1>10. \A K, good, so : "capabilities" \notin K /\ Decided(inputEvents, K, good, so)
                          => Decided(inputEvents', K, good, so)
  <2> SUFFICES ASSUME NEW K, NEW good, NEW so, "capabilities" \notin K,
                      Decided(inputEvents, K, good, so)
               PROVE  Decided(inputEvents', K, good, so)
    OBVIOUS
  <2>1. e.kind \notin K
    BY <1>3
  <2> QED
    BY <1>2, <1>3, <2>1, DecidedSent
<1>11. DeviceFollows'
  <2> SUFFICES ASSUME inputDevice.state = "valid", inputServer.resource PROVE DeviceFollows'
    BY <1>2 DEF DeviceFollows
  <2>1. Decided(inputEvents', Crossings, Aimed', Same(inputDevice.enteredSurface)')
    <3>1. Decided(inputEvents, Crossings, Aimed, Same(inputDevice.enteredSurface))
      BY <1>1 DEF DeviceFollows
    <3>2. Decided(inputEvents', Crossings, Aimed, Same(inputDevice.enteredSurface))
      BY <1>10, <3>1 DEF Crossings
    <3>3. Same(inputDevice.enteredSurface) => Same(inputDevice.enteredSurface)'
      BY <1>2 DEF Same
    <3> QED
      BY <1>5, <1>6, <3>2, <3>3, DecidedWeaker
  <2>2. kind = "pointer" =>
          Decided(inputEvents', {"enter"}, Entered', inputDevice'.serial = inputServer'.entered)
    BY <1>1, <1>2, <1>5, <1>10 DEF DeviceFollows
  <2>3. kind = "textInputV2" =>
          Decided(inputEvents', Crossings, Latest', inputDevice'.serial = inputServer'.serial)
    BY <1>1, <1>2, <1>5, <1>10 DEF DeviceFollows, Crossings
  <2> QED
    BY <1>2, <2>1, <2>2, <2>3 DEF DeviceFollows
<1> QED
  BY <1>7, <1>8, <1>9, <1>11 DEF InputInv

LEMMA InputDeviceMade == InputInv /\ I!CreateDevice => InputInv'
<1> SUFFICES ASSUME InputInv, I!CreateDevice PROVE InputInv'
  OBVIOUS
<1>1. InputTypes /\ SeatFollows /\ Unmade
  BY DEF InputInv
<1>2. /\ inputDevice.state = "none"
      /\ inputDevice' = [inputDevice EXCEPT !.state = "valid"]
      /\ inputServer' = [inputServer EXCEPT !.resource = I!Serves(inputServer.capabilities)]
      /\ UNCHANGED <<kind, inputEvents, seat, inputSurfaces>>
  BY DEF I!CreateDevice
<1>3. /\ inputDevice'.state = "valid" /\ inputDevice'.serial = inputDevice.serial
      /\ inputDevice'.enteredSurface = inputDevice.enteredSurface
      /\ inputDevice' \in [state : {"none", "valid", "ended"},
                           enteredSurface : {0} \cup DOMAIN inputSurfaces, serial : Nat]
  BY <1>1, <1>2 DEF InputTypes
<1>4. /\ inputServer'.capabilities = inputServer.capabilities
      /\ inputServer'.focus = inputServer.focus /\ inputServer'.serial = inputServer.serial
      /\ inputServer'.entered = inputServer.entered
      /\ inputServer' \in [capabilities : SUBSET I!Capabilities,
                      known : SUBSET (DOMAIN inputSurfaces),
                      focus : {0} \cup DOMAIN inputSurfaces, resource : BOOLEAN,
                      serial : Nat, entered : Nat]
  <2>1. I!Serves(inputServer.capabilities) \in BOOLEAN
    BY DEF I!Serves
  <2> QED
    BY <1>1, <1>2, <2>1 DEF InputTypes
<1>5. InputEvents' = InputEvents /\ Told' = Told
  BY <1>2, <1>4 DEF InputEvents, Told
<1>6. InputTypes'
  BY <1>1, <1>2, <1>3, <1>4, <1>5 DEF InputTypes
<1>7. SeatFollows'
  BY <1>1, <1>2, <1>4, <1>5 DEF SeatFollows
<1>8. Unmade'
  BY <1>3 DEF Unmade
<1>9. DeviceFollows'
  <2>1. /\ inputServer.focus = 0 /\ inputServer.serial = 0 /\ inputServer.entered = 0
        /\ inputDevice.enteredSurface = 0 /\ inputDevice.serial = 0
        /\ NoneOf(inputEvents, Crossings)
    BY <1>1, <1>2 DEF Unmade
  <2>2. NoneOf(inputEvents, {"enter"})
    BY <2>1 DEF NoneOf, Crossings
  <2>3. Decided(inputEvents, Crossings, Aimed', Same(inputDevice.enteredSurface)')
    <3>1. Same(inputDevice.enteredSurface)'
      BY <1>2, <1>3, <1>4, <2>1 DEF Same
    <3> QED
      BY <2>1, <3>1, DecidedAlready
  <2>4. Decided(inputEvents, {"enter"}, Entered', inputDevice'.serial = inputServer'.entered)
    BY <1>3, <1>4, <2>1, <2>2, DecidedAlready
  <2>5. Decided(inputEvents, Crossings, Latest', inputDevice'.serial = inputServer'.serial)
    BY <1>3, <1>4, <2>1, DecidedAlready
  <2> QED
    BY <1>2, <2>3, <2>4, <2>5 DEF DeviceFollows
<1> QED
  BY <1>6, <1>7, <1>8, <1>9 DEF InputInv

\* The device ends: the compositor no longer serves it.
LEMMA InputDeviceEnded ==
  ASSUME InputInv, I!DeviceEnds, UNCHANGED <<kind, inputSurfaces>>,
         inputEvents' \in Seq(InputEvents),
         seat' \in [state : {"unset", "valid", "ended"}, capabilities : SUBSET I!Capabilities],
         NoneOf(inputEvents, Crossings) => NoneOf(inputEvents', Crossings),
         inputServer'.capabilities = inputServer.capabilities => SeatFollows'
  PROVE  InputInv'
<1>1. InputTypes /\ Unmade
  BY DEF InputInv
<1>2. /\ inputServer' = [inputServer EXCEPT !.resource = FALSE, !.focus = 0]
      /\ inputDevice' = [inputDevice EXCEPT !.state = IF @ = "valid" THEN "ended" ELSE @]
  BY DEF I!DeviceEnds, I!None
<1>3. /\ inputDevice'.state = IF inputDevice.state = "valid" THEN "ended" ELSE inputDevice.state
      /\ inputDevice'.serial = inputDevice.serial
      /\ inputDevice'.enteredSurface = inputDevice.enteredSurface
      /\ inputDevice' \in [state : {"none", "valid", "ended"},
                           enteredSurface : {0} \cup DOMAIN inputSurfaces, serial : Nat]
  BY <1>1, <1>2 DEF InputTypes
<1>4. /\ inputServer'.capabilities = inputServer.capabilities
      /\ inputServer'.focus = 0 /\ inputServer'.serial = inputServer.serial
      /\ inputServer'.entered = inputServer.entered /\ inputServer'.resource = FALSE
      /\ inputServer' \in [capabilities : SUBSET I!Capabilities,
                      known : SUBSET (DOMAIN inputSurfaces),
                      focus : {0} \cup DOMAIN inputSurfaces, resource : BOOLEAN,
                      serial : Nat, entered : Nat]
  BY <1>1, <1>2 DEF InputTypes
<1>5. InputEvents' = InputEvents
  BY DEF InputEvents
<1>6. InputTypes'
  BY <1>1, <1>3, <1>4, <1>5 DEF InputTypes
<1>7. Unmade' /\ DeviceFollows'
  BY <1>1, <1>3, <1>4 DEF Unmade, DeviceFollows
<1> QED
  BY <1>4, <1>6, <1>7 DEF InputInv

LEMMA InputDeviceReleased == InputInv /\ I!ReleaseDevice => InputInv'
<1> SUFFICES ASSUME InputInv, I!ReleaseDevice PROVE InputInv'
  OBVIOUS
<1> DEFINE places == I!Places({"capabilities"})
<1>1. InputTypes /\ SeatFollows
  BY DEF InputInv
<1>2. /\ I!DeviceEnds /\ inputEvents' = Kept(inputEvents, places)
      /\ UNCHANGED <<kind, seat, inputSurfaces>>
  BY InputKeptIs DEF I!ReleaseDevice
<1>3. /\ places \in SUBSET DOMAIN inputEvents
      /\ \A k \in places : inputEvents[k].kind \notin Crossings
      /\ \A k \in DOMAIN inputEvents : inputEvents[k].kind \in {"capabilities"} => k \in places
      /\ \A k \in places : inputEvents[k].kind \in {"capabilities"}
  BY DEF I!Places, Crossings
<1>4. inputEvents \in Seq(InputEvents)
  BY <1>1 DEF InputTypes
<1> HIDE DEF places
<1>5. inputEvents' \in Seq(InputEvents)
  BY <1>2, <1>3, <1>4, KeptFacts
<1>6. NoneOf(inputEvents', Crossings)
  BY <1>2, <1>3, <1>4, DecidedKept
<1>7. ASSUME inputServer'.capabilities = inputServer.capabilities PROVE SeatFollows'
  <2>1. Told' = Told
    BY <1>2, <1>7 DEF Told, InputEvents
  <2>2. CASE seat.state = "valid"
    <3>1. Decided(inputEvents, {"capabilities"}, Told,
                  seat.capabilities = inputServer.capabilities)
      BY <1>1, <2>2 DEF SeatFollows
    <3>2. Decided(inputEvents', {"capabilities"}, Told,
                  seat.capabilities = inputServer.capabilities)
      BY <1>2, <1>3, <1>4, <3>1, DecidedKept
    <3> QED
      BY <1>2, <1>7, <2>1, <2>2, <3>2 DEF SeatFollows
  <2>3. CASE seat.state # "valid"
    <3>1. NoneOf(inputEvents, {"capabilities"}) /\ seat.capabilities = {}
      BY <1>1, <2>3 DEF SeatFollows
    <3>2. \A k \in places : inputEvents[k].kind \notin {"capabilities"}
      BY <1>3, <3>1 DEF NoneOf
    <3>3. NoneOf(inputEvents', {"capabilities"})
      BY <1>2, <1>3, <1>4, <3>2, DecidedKept
    <3> QED
      BY <1>2, <2>3, <3>1, <3>3 DEF SeatFollows
  <2> QED
    BY <2>2, <2>3
<1>8. seat' \in [state : {"unset", "valid", "ended"}, capabilities : SUBSET I!Capabilities]
  BY <1>1, <1>2 DEF InputTypes
<1> QED
  BY <1>2, <1>5, <1>6, <1>7, <1>8, InputDeviceEnded

LEMMA InputSeatEnded == InputInv /\ I!EndSeat => InputInv'
<1> SUFFICES ASSUME InputInv, I!EndSeat PROVE InputInv'
  OBVIOUS
<1>1. InputTypes /\ SeatFollows /\ Unmade /\ DeviceFollows
  BY DEF InputInv
<1>2. /\ seat' = [state |-> "ended", capabilities |-> {}]
      /\ UNCHANGED <<kind, inputSurfaces>>
      /\ IF kind \in I!TextInputs
         THEN /\ inputEvents' = Kept(inputEvents, I!Places({"enter", "leave"}))
              /\ UNCHANGED <<inputServer, inputDevice>>
         ELSE inputEvents' = <<>> /\ I!DeviceEnds
  BY InputKeptIs DEF I!EndSeat, I!SeatEnds
<1>3. inputEvents \in Seq(InputEvents)
  BY <1>1 DEF InputTypes
<1>4. /\ seat'.state # "valid" /\ seat'.capabilities = {}
      /\ seat' \in [state : {"unset", "valid", "ended"}, capabilities : SUBSET I!Capabilities]
  BY <1>2
<1>5. CASE kind \notin I!TextInputs
  <2>1. I!DeviceEnds /\ inputEvents' = <<>>
    BY <1>2, <1>5
  <2>2. \A K : NoneOf(inputEvents', K)
    BY <2>1 DEF NoneOf
  <2>3. inputEvents' \in Seq(InputEvents)
    BY <2>1
  <2>4. SeatFollows'
    BY <1>4, <2>2 DEF SeatFollows
  <2> QED
    BY <1>2, <1>4, <2>1, <2>2, <2>3, <2>4, InputDeviceEnded
<1>6. CASE kind \in I!TextInputs
  <2> DEFINE places == I!Places({"enter", "leave"})
  <2>1. /\ places \in SUBSET DOMAIN inputEvents
        /\ \A k \in places : inputEvents[k].kind \notin {"capabilities"}
        /\ \A k \in DOMAIN inputEvents : inputEvents[k].kind \in Crossings => k \in places
        /\ \A k \in places : inputEvents[k].kind \in Crossings
    BY DEF I!Places, Crossings
  <2>2. inputEvents' = Kept(inputEvents, places) /\ UNCHANGED <<inputServer, inputDevice>>
    BY <1>2, <1>6
  <2> HIDE DEF places
  <2>3. inputEvents' \in Seq(InputEvents)
    BY <1>3, <2>1, <2>2, KeptFacts
  <2>4. /\ InputEvents' = InputEvents /\ Latest' = Latest /\ Aimed' = Aimed
    BY <1>2, <2>2 DEF InputEvents, Latest, Aimed, Same, Named
  <2>5. InputTypes'
    BY <1>1, <1>2, <1>4, <2>2, <2>3, <2>4 DEF InputTypes
  <2>6. SeatFollows'
    <3>1. NoneOf(inputEvents', {"capabilities"})
      BY <1>3, <2>1, <2>2, DecidedKept
    <3> QED
      BY <1>4, <3>1 DEF SeatFollows
  <2>7. Unmade'
    <3>1. ASSUME NoneOf(inputEvents, Crossings) PROVE NoneOf(inputEvents', Crossings)
      <4>1. \A k \in places : inputEvents[k].kind \notin Crossings
        BY <2>1, <3>1 DEF NoneOf
      <4> QED
        BY <1>3, <2>1, <2>2, <4>1, DecidedKept
    <3> QED
      BY <1>1, <2>2, <3>1 DEF Unmade
  <2>8. DeviceFollows'
    <3> SUFFICES ASSUME inputDevice.state = "valid", inputServer.resource PROVE DeviceFollows'
      BY <2>2 DEF DeviceFollows
    <3>1. Decided(inputEvents', Crossings, Aimed', Same(inputDevice.enteredSurface)')
      <4>1. Decided(inputEvents, Crossings, Aimed, Same(inputDevice.enteredSurface))
        BY <1>1 DEF DeviceFollows
      <4>2. Decided(inputEvents', Crossings, Aimed, Same(inputDevice.enteredSurface))
        BY <1>3, <2>1, <2>2, <4>1, DecidedKept
      <4>3. Same(inputDevice.enteredSurface) => Same(inputDevice.enteredSurface)'
        BY <1>2, <2>2 DEF Same
      <4> QED
        BY <2>3, <2>4, <4>2, <4>3, DecidedWeaker
    <3>2. ASSUME kind = "textInputV2"
          PROVE  Decided(inputEvents', Crossings, Latest', inputDevice'.serial = inputServer'.serial)
      <4>1. Decided(inputEvents, Crossings, Latest, inputDevice.serial = inputServer.serial)
        BY <1>1, <3>2 DEF DeviceFollows
      <4>2. Decided(inputEvents', Crossings, Latest, inputDevice.serial = inputServer.serial)
        BY <1>3, <2>1, <2>2, <4>1, DecidedKept
      <4> QED
        BY <2>2, <2>4, <4>2
    <3>3. kind' = kind /\ kind # "pointer"
      BY <1>2, <1>6 DEF I!TextInputs
    <3> QED
      BY <3>1, <3>2, <3>3 DEF DeviceFollows
  <2> QED
    BY <2>5, <2>6, <2>7, <2>8 DEF InputInv
<1> QED
  BY <1>5, <1>6

LEMMA InputQuiet == InputInv /\ UNCHANGED inputVars => InputInv'
<1> SUFFICES ASSUME InputInv, UNCHANGED inputVars PROVE InputInv'
  OBVIOUS
<1>1. UNCHANGED <<kind, inputServer, inputEvents, seat, inputDevice, inputSurfaces>>
  BY DEF inputVars
<1>2. /\ InputEvents' = InputEvents /\ Told' = Told /\ Latest' = Latest
      /\ Entered' = Entered /\ Aimed' = Aimed
  BY <1>1 DEF InputEvents, Told, Latest, Entered, Aimed, Same, Named
<1>3. /\ InputTypes /\ InputTypes'
      /\ \A s \in DOMAIN inputSurfaces : s # 0
  <2>1. InputTypes
    BY DEF InputInv
  <2> QED
    BY <1>1, <1>2, <2>1 DEF InputTypes
<1> QED
  BY <1>1, <1>3, InputSurfacesStep

LEMMA InputStep == InputInv /\ I!Next => InputInv'
BY InputCapabilities, InputCrosses, InputSurfacesChange, InputToldCapabilities,
   InputToldFocus, InputSetup, InputDeviceMade, InputDeviceReleased, InputSeatEnded
DEF I!Next

LEMMA InputFits == InputInv => I!InputFollows
<1> SUFFICES ASSUME InputInv PROVE I!InputFollows
  OBVIOUS
<1>1. InputTypes /\ SeatFollows /\ DeviceFollows
  BY DEF InputInv
<1>2. seat.capabilities = {} \/ seat.state = "valid"
  BY <1>1 DEF SeatFollows
<1> SUFFICES ASSUME inputEvents = <<>>
             PROVE  /\ seat.state = "valid" => seat.capabilities = inputServer.capabilities
                    /\ inputDevice.state = "valid" /\ inputServer.resource =>
                         /\ Same(inputDevice.enteredSurface)
                         /\ kind = "pointer" => inputDevice.serial = inputServer.entered
                         /\ kind = "textInputV2" => inputDevice.serial = inputServer.serial
  BY <1>2 DEF I!InputFollows, I!None, Same
<1>3. \A K : NoneOf(inputEvents, K)
  BY DEF NoneOf
<1> QED
  BY <1>1, <1>3 DEF SeatFollows, DeviceFollows, Decided

-----------------------------------------------------------------------------
InputLooked ==
  /\ component = "InputDevices" => InputInv
  /\ component = "Touch" => TouchInv

LEMMA InputStart == ViewsInit => InputLooked
BY InputInit, TouchInit DEF ViewsInit, InputLooked

LEMMA InputGoesOn == InputLooked /\ [ViewsNext]_<<component, viewVars>> => InputLooked'
<1> SUFFICES ASSUME InputLooked, [ViewsNext]_<<component, viewVars>> PROVE InputLooked'
  OBVIOUS
<1>1. ASSUME component' = "InputDevices" PROVE InputInv'
  <2>1. component = "InputDevices" /\ (I!Next \/ UNCHANGED inputVars)
    BY <1>1 DEF ViewsNext, viewVars
  <2>2. InputInv
    BY <2>1 DEF InputLooked
  <2> QED
    BY <2>1, <2>2, InputStep, InputQuiet
<1>2. ASSUME component' = "Touch" PROVE TouchInv'
  <2>1. component = "Touch" /\ (T!Next \/ UNCHANGED touchVars)
    BY <1>2 DEF ViewsNext, viewVars
  <2>2. TouchInv
    BY <2>1 DEF InputLooked
  <2> QED
    BY <2>1, <2>2, TouchStep, TouchQuiet
<1> QED
  BY <1>1, <1>2 DEF InputLooked

\* With no event on its way the seat, its device and the touch sequence agree with the
\* compositor, in every order of enter, leave, the loss of a capability, the end of
\* surfaces, and touch points whose numbers are used again (Surface::get,
\* Pointer::Private::enter, Touch::Private::down).
THEOREM InputAlwaysFollows == ViewsSpec => []InputFollows
<1>1. InputLooked => InputFollows
  BY InputFits, TouchFits DEF InputLooked, InputFollows
<1> QED
  BY <1>1, InputStart, InputGoesOn, PTL DEF ViewsSpec

-----------------------------------------------------------------------------
(* What a window is to the compositor and to the client.                   *)

\* What a window is to the compositor and to the client.
AllTitles == Titles \cup {CHOOSE t \in Titles : TRUE}
WindowStates ==
  [flags : SUBSET Flags, desktops : SUBSET Desktops,
   attributes : [Fields -> AllTitles]]
WindowState(w, ds) == [flags |-> w.flags, desktops |-> ds, attributes |-> w.attributes]
ServedWindow == WindowState(windowServer, windowServer.desktops)
ShownWindow == WindowState(window, {window.desktops[i] : i \in DOMAIN window.desktops})

WindowAfter(u, e) ==
  IF e.kind = "state"
  THEN [flags |-> e.flags, desktops |-> u.desktops, attributes |-> u.attributes]
  ELSE IF e.kind = "entered" THEN WindowState(u, u.desktops \cup {e.desktop})
  ELSE IF e.kind = "left" THEN WindowState(u, u.desktops \ {e.desktop})
  ELSE IF e.kind = "attribute"
  THEN [flags |-> u.flags, desktops |-> u.desktops,
        attributes |-> [u.attributes EXCEPT ![e.attribute] = e.value]]
  ELSE u

WindowMoves ==
  {move \in WindowStates \X WindowEvents \X WindowStates :
     move[3] = WindowAfter(move[1], move[2])}

WindowInv ==
  /\ WindowType
  /\ ServedWindow \in WindowStates /\ ShownWindow \in WindowStates
  /\ Leads(WindowStates, WindowMoves, ShownWindow, windowEvents, ServedWindow)

LEMMA WindowMove ==
  ASSUME NEW u, NEW e, NEW w
  PROVE  <<u, e, w>> \in WindowMoves <=>
           /\ u \in WindowStates /\ e \in WindowEvents /\ w \in WindowStates
           /\ w = WindowAfter(u, e)
<1> DEFINE move == <<u, e, w>>
<1>1. move[1] = u /\ move[2] = e /\ move[3] = w
  OBVIOUS
<1>2. move \in WindowStates \X WindowEvents \X WindowStates <=>
        u \in WindowStates /\ e \in WindowEvents /\ w \in WindowStates
  OBVIOUS
<1> HIDE DEF move
<1>3. move \in WindowMoves <=>
        /\ move \in WindowStates \X WindowEvents \X WindowStates
        /\ move[3] = WindowAfter(move[1], move[2])
  BY DEF WindowMoves
<1> QED
  BY <1>1, <1>2, <1>3 DEF move

LEMMA WindowStays ==
  ASSUME NEW u \in WindowStates, NEW e \in WindowEvents
  PROVE  WindowAfter(u, e) \in WindowStates
<1>1. CASE e.kind = "state"
  <2>1. e.flags \in SUBSET Flags
    BY <1>1 DEF WindowEvents
  <2> QED
    BY <1>1, <2>1 DEF WindowAfter, WindowStates
<1>2. CASE e.kind \in {"entered", "left"}
  <2>1. e.desktop \in Desktops
    BY <1>2 DEF WindowEvents
  <2> QED
    BY <1>2, <2>1 DEF WindowAfter, WindowStates, WindowState
<1>3. CASE e.kind = "attribute"
  <2>1. e.attribute \in Fields /\ e.value \in AllTitles
    BY <1>3 DEF WindowEvents, AllTitles
  <2> QED
    BY <1>3, <2>1 DEF WindowAfter, WindowStates
<1>4. CASE e.kind = "icon"
  BY <1>4 DEF WindowAfter
<1> QED
  BY <1>1, <1>2, <1>3, <1>4 DEF WindowEvents

LEMMA WindowStarts == A!Init => WindowInv
<1> SUFFICES ASSUME A!Init PROVE WindowInv
  OBVIOUS
<1>1. WindowType
  BY WindowInit
<1>2. /\ ServedWindow = WindowState(windowServer, {})
      /\ ShownWindow = WindowState(windowServer, {})
  <2>1. /\ windowServer.desktops = {} /\ window.desktops = <<>>
        /\ window.flags = windowServer.flags /\ window.attributes = windowServer.attributes
    BY DEF A!Init
  <2>2. {window.desktops[i] : i \in DOMAIN window.desktops} = {}
    BY <2>1
  <2> QED
    BY <2>1, <2>2 DEF ServedWindow, ShownWindow, WindowState
<1>3. WindowState(windowServer, {}) \in WindowStates
  BY DEF A!Init, WindowState, WindowStates, AllTitles
<1>4. Leads(WindowStates, WindowMoves, ShownWindow, <<>>, ServedWindow)
  BY <1>2, <1>3, LeadsNowhere
<1>5. windowEvents = <<>>
  BY DEF A!Init
<1> QED
  BY <1>1, <1>2, <1>3, <1>4, <1>5 DEF WindowInv

\* The compositor changes the window and says so.
LEMMA WindowSent ==
  ASSUME WindowInv, WindowType', NEW e \in WindowEvents, A!Send(e),
         ServedWindow' = WindowAfter(ServedWindow, e)
  PROVE  WindowInv'
<1> DEFINE u == ServedWindow
           w == ServedWindow'
<1>1. windowEvents' = Append(windowEvents, e) /\ window' = window
  BY DEF A!Send
<1>2. /\ Leads(WindowStates, WindowMoves, ShownWindow, windowEvents, u)
      /\ windowEvents \in Seq(WindowEvents) /\ u \in WindowStates
  BY DEF WindowInv, WindowType
<1>3. w \in WindowStates /\ <<u, e, w>> \in WindowMoves
  BY <1>2, WindowStays, WindowMove
<1> HIDE DEF u, w
<1>4. Leads(WindowStates, WindowMoves, ShownWindow, Append(windowEvents, e), w)
  BY <1>2, <1>3, LeadsOn
<1>5. ShownWindow' = ShownWindow
  BY <1>1 DEF ShownWindow, WindowState
<1>6. ShownWindow \in WindowStates
  BY DEF WindowInv
<1> QED
  BY <1>1, <1>3, <1>4, <1>5, <1>6 DEF WindowInv, w

\* The client takes an event.
LEMMA WindowTaken ==
  ASSUME WindowInv, WindowType', windowEvents # <<>>, windowEvents' = Tail(windowEvents),
         windowServer' = windowServer,
         ShownWindow' = WindowAfter(ShownWindow, Head(windowEvents))
  PROVE  WindowInv'
<1> DEFINE u == ShownWindow
           t == ServedWindow
<1>1. /\ Leads(WindowStates, WindowMoves, u, windowEvents, t)
      /\ windowEvents \in Seq(WindowEvents) /\ u \in WindowStates
  BY DEF WindowInv, WindowType
<1>2. Head(windowEvents) \in WindowEvents
  BY <1>1
<1> HIDE DEF u, t
<1>3. PICK r \in WindowStates : /\ <<u, Head(windowEvents), r>> \in WindowMoves
                               /\ Leads(WindowStates, WindowMoves, r, Tail(windowEvents), t)
  BY <1>1, LeadsFrom
<1>4. r = ShownWindow'
  BY <1>3, WindowMove DEF u
<1>5. ServedWindow' = t
  BY DEF ServedWindow, WindowState, t
<1>6. t \in WindowStates
  BY DEF WindowInv, t
<1> QED
  BY <1>3, <1>4, <1>5, <1>6 DEF WindowInv

LEMMA WindowStep == ASSUME WindowInv, A!Next, WindowType' PROVE WindowInv'
<1>1. /\ WindowType /\ ServedWindow \in WindowStates /\ ShownWindow \in WindowStates
      /\ windowEvents # <<>> => Head(windowEvents) \in WindowEvents
  BY DEF WindowInv, WindowType
<1>2. CASE A!ChangeFlags
  <2>1. PICK flags \in SUBSET Flags :
          /\ windowServer' = [windowServer EXCEPT !.flags = flags]
          /\ A!Send(A!StateEvent(flags))
    BY <1>2 DEF A!ChangeFlags
  <2>2. A!StateEvent(flags) \in WindowEvents
    BY DEF A!StateEvent, WindowEvents
  <2>3. ServedWindow' = WindowAfter(ServedWindow, A!StateEvent(flags))
    BY <1>1, <2>1 DEF ServedWindow, WindowAfter, WindowState, A!StateEvent, WindowType
  <2> QED
    BY <2>1, <2>2, <2>3, WindowSent
<1>3. CASE A!ServeSetState
  <2> DEFINE r == Head(windowRequests)
             flags == IF r.set THEN windowServer.flags \cup {r.flag}
                      ELSE windowServer.flags \ {r.flag}
  <2>1. r \in [flag : Flags, set : BOOLEAN]
    <3> DEFINE all == [flag : Flags, set : BOOLEAN]
    <3>1. windowRequests \in Seq(all) /\ windowRequests # <<>>
      BY <1>1, <1>3 DEF A!ServeSetState, WindowType
    <3> HIDE DEF all
    <3>2. Head(windowRequests) \in all
      BY <3>1
    <3> QED
      BY <3>2 DEF all
  <2>2. /\ windowServer' = [windowServer EXCEPT !.flags = flags]
        /\ A!Send(A!StateEvent(flags))
    BY <1>3 DEF A!ServeSetState
  <2>3. flags \in SUBSET Flags
    BY <1>1, <2>1 DEF WindowType
  <2> HIDE DEF flags, r
  <2>4. A!StateEvent(flags) \in WindowEvents
    BY <2>3 DEF A!StateEvent, WindowEvents
  <2>5. ServedWindow' = WindowAfter(ServedWindow, A!StateEvent(flags))
    BY <1>1, <2>2 DEF ServedWindow, WindowAfter, WindowState, A!StateEvent, WindowType
  <2> QED
    BY <2>2, <2>4, <2>5, WindowSent
<1>4. CASE A!ChangeDesktops
  <2>1. PICK d \in Desktops :
          /\ A!Send([kind |-> IF d \notin windowServer.desktops THEN "entered" ELSE "left",
                     desktop |-> d])
          /\ windowServer' = [windowServer EXCEPT !.desktops =
                                IF d \notin windowServer.desktops THEN @ \cup {d} ELSE @ \ {d}]
    BY <1>4 DEF A!ChangeDesktops
  <2>2. CASE d \notin windowServer.desktops
    <3>1. /\ A!Send([kind |-> "entered", desktop |-> d])
          /\ windowServer' = [windowServer EXCEPT !.desktops =
                                windowServer.desktops \cup {d}]
      BY <2>1, <2>2
    <3>2. [kind |-> "entered", desktop |-> d] \in WindowEvents
      BY DEF WindowEvents
    <3>3. ServedWindow' = WindowAfter(ServedWindow, [kind |-> "entered", desktop |-> d])
      BY <1>1, <3>1 DEF ServedWindow, WindowAfter, WindowState, WindowType
    <3> QED
      BY <3>1, <3>2, <3>3, WindowSent
  <2>3. CASE d \in windowServer.desktops
    <3>1. /\ A!Send([kind |-> "left", desktop |-> d])
          /\ windowServer' = [windowServer EXCEPT !.desktops =
                                windowServer.desktops \ {d}]
      BY <2>1, <2>3
    <3>2. [kind |-> "left", desktop |-> d] \in WindowEvents
      BY DEF WindowEvents
    <3>3. ServedWindow' = WindowAfter(ServedWindow, [kind |-> "left", desktop |-> d])
      BY <1>1, <3>1 DEF ServedWindow, WindowAfter, WindowState, WindowType
    <3> QED
      BY <3>1, <3>2, <3>3, WindowSent
  <2> QED
    BY <2>2, <2>3
<1>5. CASE A!ChangeAttribute
  <2>1. PICK a \in Fields, t \in Titles :
          /\ windowServer' = [windowServer EXCEPT !.attributes[a] = t]
          /\ A!Send([kind |-> "attribute", attribute |-> a, value |-> t])
    BY <1>5 DEF A!ChangeAttribute
  <2> DEFINE e == [kind |-> "attribute", attribute |-> a, value |-> t]
  <2>2. e \in WindowEvents
    BY DEF WindowEvents
  <2>3. /\ windowServer'.flags = windowServer.flags
        /\ windowServer'.desktops = windowServer.desktops
        /\ windowServer'.attributes = [windowServer.attributes EXCEPT ![a] = t]
    BY <1>1, <2>1 DEF WindowType
  <2>4. ServedWindow' = WindowAfter(ServedWindow, e)
    BY <2>3 DEF ServedWindow, WindowAfter, WindowState
  <2> QED
    BY <2>1, <2>2, <2>4, WindowSent
<1>6. CASE A!ChangeIcon
  <2>1. [kind |-> "icon", icon |-> windowServer.icon + 1] \in WindowEvents
    BY <1>1 DEF WindowEvents, WindowType
  <2>2. /\ windowServer' = [windowServer EXCEPT !.icon = @ + 1]
        /\ A!Send([kind |-> "icon", icon |-> windowServer.icon + 1])
    BY <1>6 DEF A!ChangeIcon
  <2>3. /\ windowServer'.flags = windowServer.flags
        /\ windowServer'.desktops = windowServer.desktops
        /\ windowServer'.attributes = windowServer.attributes
    BY <1>1, <2>2 DEF WindowType
  <2>4. ServedWindow' = WindowAfter(ServedWindow, [kind |-> "icon", icon |-> windowServer.icon + 1])
    BY <2>3 DEF ServedWindow, WindowAfter, WindowState
  <2> QED
    BY <2>1, <2>2, <2>4, WindowSent
<1>7. CASE A!Toggle \/ A!IconFetched
  <2>1. UNCHANGED <<windowServer, windowEvents>>
    BY <1>7 DEF A!Toggle, A!IconFetched
  <2>2. /\ window'.flags = window.flags /\ window'.desktops = window.desktops
        /\ window'.attributes = window.attributes
    BY <1>1, <1>7 DEF A!Toggle, A!IconFetched, WindowType
  <2>3. ServedWindow' = ServedWindow /\ ShownWindow' = ShownWindow
    BY <2>1, <2>2 DEF ServedWindow, ShownWindow, WindowState
  <2> QED
    BY <2>1, <2>3 DEF WindowInv
<1>8. ASSUME NEW kind_, A!Takes(kind_)
      PROVE  /\ windowEvents # <<>> /\ windowEvents' = Tail(windowEvents)
             /\ windowServer' = windowServer /\ Head(windowEvents).kind = kind_
             /\ Head(windowEvents) \in WindowEvents
  BY <1>1, <1>8 DEF A!Takes
<1>9. CASE A!stateChangedCallback
  <2>1. A!Takes("state") /\ window' = [window EXCEPT !.flags = Head(windowEvents).flags]
    BY <1>9 DEF A!stateChangedCallback
  <2>2. ShownWindow' = WindowAfter(ShownWindow, Head(windowEvents))
    BY <1>1, <1>8, <2>1 DEF ShownWindow, WindowAfter, WindowState, WindowType
  <2> QED
    BY <1>8, <2>1, <2>2, WindowTaken
<1>10. CASE A!virtualDesktopEnteredCallback
  <2> DEFINE d == Head(windowEvents).desktop
             list == window.desktops
  <2>1. A!Takes("entered") /\ window' = [window EXCEPT !.desktops = Append(list, d)]
    BY <1>10 DEF A!virtualDesktopEnteredCallback
  <2>2. d \in Desktops /\ list \in Seq(Desktops)
    BY <1>1, <1>8, <2>1 DEF WindowEvents, WindowType
  <2>3. /\ window'.flags = window.flags /\ window'.attributes = window.attributes
        /\ window'.desktops = Append(list, d)
    BY <1>1, <2>1 DEF WindowType
  <2>4. Head(windowEvents).kind = "entered"
    BY <1>8, <2>1
  <2> HIDE DEF d, list
  <2>5. LET t == Append(list, d)
        IN  {t[i] : i \in DOMAIN t} = {list[i] : i \in DOMAIN list} \cup {d}
    <3> DEFINE t == Append(list, d)
    <3>1. /\ DOMAIN list = 1 .. Len(list) /\ Len(list) \in Nat
          /\ DOMAIN t = 1 .. Len(list) + 1 /\ t[Len(list) + 1] = d
          /\ \A i \in DOMAIN list : t[i] = list[i]
      BY <2>2
    <3> HIDE DEF t
    <3>2. \A i \in DOMAIN t : i \in DOMAIN list \/ i = Len(list) + 1
      BY <3>1
    <3>3. DOMAIN list \subseteq DOMAIN t /\ Len(list) + 1 \in DOMAIN t
      BY <3>1
    <3> QED
      BY <3>1, <3>2, <3>3 DEF t
  <2>6. ShownWindow' = WindowState(window, {list[i] : i \in DOMAIN list} \cup {d})
    BY <2>3, <2>5 DEF ShownWindow, WindowState
  <2>7. ShownWindow' = WindowAfter(ShownWindow, Head(windowEvents))
    BY <2>4, <2>6 DEF ShownWindow, WindowAfter, WindowState, d, list
  <2> QED
    BY <1>8, <2>1, <2>7, WindowTaken
<1>11. CASE A!virtualDesktopLeftCallback
  <2> DEFINE d == Head(windowEvents).desktop
             list == window.desktops
             places == {i \in DOMAIN list : list[i] # d}
  <2>1. A!Takes("left") /\ window' = [window EXCEPT !.desktops = A!Kept(list, places)]
    BY <1>11 DEF A!virtualDesktopLeftCallback
  <2>2. list \in Seq(Desktops) /\ A!Kept(list, places) = Kept(list, places)
    BY <1>1, WindowKeptIs DEF WindowType
  <2>3. /\ window'.flags = window.flags /\ window'.attributes = window.attributes
        /\ window'.desktops = Kept(list, places)
    BY <1>1, <2>1, <2>2 DEF WindowType
  <2>4. Head(windowEvents).kind = "left"
    BY <1>8, <2>1
  <2> HIDE DEF d, list
  <2>5. LET t == Kept(list, places)
        IN  {t[i] : i \in DOMAIN t} = {list[i] : i \in DOMAIN list} \ {d}
    <3> DEFINE t == Kept(list, places)
               c == Cardinality(places)
    <3>1. places \in SUBSET DOMAIN list
      OBVIOUS
    <3> HIDE DEF places
    <3>2. t \in Seq(Desktops) /\ Len(t) = c
      BY <2>2, <3>1, KeptFacts
    <3>3. DOMAIN t = 1 .. c
      BY <3>2
    <3>4. PICK f : Enumerates(f, places) /\ \A i \in 1 .. c : t[i] = list[f[i]]
      BY <2>2, <3>1, KeptFacts
    <3> HIDE DEF t
    <3>5. /\ \A i \in DOMAIN t : f[i] \in places /\ t[i] = list[f[i]]
          /\ \A k \in places : \E i \in DOMAIN t : f[i] = k
      BY <3>3, <3>4 DEF Enumerates
    <3>6. {t[i] : i \in DOMAIN t} = {list[k] : k \in places}
      BY <3>5
    <3> QED
      BY <3>6 DEF places, t
  <2> HIDE DEF places
  <2>6. ShownWindow' = WindowState(window, {list[i] : i \in DOMAIN list} \ {d})
    BY <2>3, <2>5 DEF ShownWindow, WindowState
  <2>7. ShownWindow' = WindowAfter(ShownWindow, Head(windowEvents))
    BY <2>4, <2>6 DEF ShownWindow, WindowAfter, WindowState, d, list
  <2> QED
    BY <1>8, <2>1, <2>7, WindowTaken
<1>12. CASE A!attributeCallback \/ A!pidChangedCallback
  <2> DEFINE e == Head(windowEvents)
  <2>1. /\ A!Takes("attribute")
        /\ \/ e.value = window.attributes[e.attribute] /\ UNCHANGED window
           \/ window' = [window EXCEPT !.attributes[e.attribute] = e.value]
    BY <1>12 DEF A!attributeCallback, A!pidChangedCallback
  <2>2. e.kind = "attribute" /\ e.attribute \in Fields
    BY <1>8, <2>1 DEF WindowEvents
  <2> HIDE DEF e
  <2>3. window.attributes \in [Fields -> AllTitles]
    BY <1>1 DEF ShownWindow, WindowState, WindowStates
  <2>4. /\ window'.flags = window.flags /\ window'.desktops = window.desktops
        /\ window'.attributes = [window.attributes EXCEPT ![e.attribute] = e.value]
    <3>1. CASE e.value = window.attributes[e.attribute] /\ UNCHANGED window
      <4>1. window' = window
        BY <3>1
      <4>2. window.attributes = [window.attributes EXCEPT ![e.attribute] = e.value]
        BY <2>3, <3>1
      <4> QED
        BY <4>1, <4>2
    <3>2. CASE window' = [window EXCEPT !.attributes[e.attribute] = e.value]
      BY <1>1, <3>2 DEF WindowType
    <3> QED
      BY <2>1, <3>1, <3>2
  <2>5. ShownWindow' = WindowAfter(ShownWindow, e)
    BY <2>2, <2>4 DEF ShownWindow, WindowAfter, WindowState
  <2> QED
    BY <1>8, <2>1, <2>5, WindowTaken DEF e
<1>13. CASE A!themedIconNameChangedCallback \/ A!iconChangedCallback
  <2>1. A!Takes("icon")
    BY <1>13 DEF A!themedIconNameChangedCallback, A!iconChangedCallback
  <2>2. /\ window'.flags = window.flags /\ window'.desktops = window.desktops
        /\ window'.attributes = window.attributes
    BY <1>1, <1>13 DEF A!themedIconNameChangedCallback, A!iconChangedCallback, WindowType
  <2>3. ShownWindow' = ShownWindow
    BY <2>2 DEF ShownWindow, WindowState
  <2>4. Head(windowEvents).kind = "icon"
    BY <1>8, <2>1
  <2>5. WindowAfter(ShownWindow, Head(windowEvents)) = ShownWindow
    BY <2>4 DEF WindowAfter
  <2> QED
    BY <1>8, <2>1, <2>3, <2>5, WindowTaken
<1> QED
  BY <1>2, <1>3, <1>4, <1>5, <1>6, <1>7, <1>9, <1>10, <1>11, <1>12, <1>13 DEF A!Next

LEMMA WindowFits == WindowInv => A!WindowFollows
<1> SUFFICES ASSUME WindowInv, windowEvents = <<>>
             PROVE  /\ window.flags = windowServer.flags
                    /\ window.attributes = windowServer.attributes
                    /\ A!Range(window.desktops) = windowServer.desktops
  BY DEF A!WindowFollows
<1>1. ServedWindow = ShownWindow
  <2>1. /\ Leads(WindowStates, WindowMoves, ShownWindow, <<>>, ServedWindow)
        /\ ShownWindow \in WindowStates
    BY DEF WindowInv
  <2> QED
    BY <2>1, LeadsNowhere
<1>2. A!Range(window.desktops) = {window.desktops[i] : i \in DOMAIN window.desktops}
  BY DEF A!Range
<1>3. /\ ServedWindow.flags = ShownWindow.flags
      /\ ServedWindow.attributes = ShownWindow.attributes
      /\ ServedWindow.desktops = ShownWindow.desktops
  BY <1>1
<1> QED
  BY <1>2, <1>3 DEF ServedWindow, ShownWindow, WindowState

LEMMA WindowQuiet ==
  ASSUME WindowInv, UNCHANGED windowVars
  PROVE  WindowInv'
<1>1. UNCHANGED <<windowVersion, windowServer, windowRequests, windowEvents, window>>
  BY DEF windowVars
<1> QED
  BY <1>1 DEF WindowInv, WindowType, ServedWindow, ShownWindow

-----------------------------------------------------------------------------
(* The objects of a shell and the surfaces they were made for.             *)

ShellRows == [madeFor : Nat, parentSurface : Nat, exists : BOOLEAN, valid : BOOLEAN]

\* An object points to the surface it was made for, as long as that exists.
PointsBack(o) ==
  /\ o.parentSurface # 0 =>
       /\ o.parentSurface = o.madeFor
       /\ plasmaSurfaces[o.parentSurface].exists
  /\ o.madeFor # 0 =>
       /\ o.madeFor \in DOMAIN plasmaSurfaces
       /\ plasmaSurfaces[o.madeFor].exists => o.parentSurface = o.madeFor

OneEach ==
  \A o, p \in DOMAIN shellSurfaces :
    /\ shellSurfaces[o].exists /\ shellSurfaces[p].exists
    /\ shellSurfaces[o].madeFor = shellSurfaces[p].madeFor
    /\ shellSurfaces[o].madeFor # 0
    => o = p

GivenRight ==
  given.object # 0 =>
    /\ given.object \in DOMAIN shellSurfaces
    /\ shellSurfaces[given.object].madeFor = given.surface

ApartSurfaces ==
  \A s, t \in DOMAIN plasmaSurfaces :
    /\ plasmaSurfaces[s].exists /\ plasmaSurfaces[t].exists
    /\ plasmaSurfaces[s].address = plasmaSurfaces[t].address
    => s = t

PlasmaInv ==
  /\ plasmaSurfaces \in Seq([address : Addresses, exists : BOOLEAN])
  /\ shellSurfaces \in Seq(ShellRows)
  /\ ApartSurfaces
  /\ \A o \in DOMAIN shellSurfaces : PointsBack(shellSurfaces[o])
  /\ OneEach
  /\ GivenRight

LEMMA PlasmaStarts == S!Init => PlasmaInv
<1> SUFFICES ASSUME S!Init PROVE PlasmaInv
  OBVIOUS
<1>1. plasmaSurfaces = <<>> /\ shellSurfaces = <<>> /\ given.object = 0
  BY DEF S!Init, S!None
<1>2. DOMAIN plasmaSurfaces = {} /\ DOMAIN shellSurfaces = {}
  BY <1>1
<1>3. /\ plasmaSurfaces \in Seq([address : Addresses, exists : BOOLEAN])
      /\ shellSurfaces \in Seq(ShellRows)
  BY <1>1
<1> QED
  BY <1>1, <1>2, <1>3 DEF PlasmaInv, ApartSurfaces, OneEach, GivenRight

\* The object that is found for a surface is the one that was made for it.
LEMMA FoundIs ==
  ASSUME PlasmaInv, NEW s, s = 0 \/ (s \in DOMAIN plasmaSurfaces /\ plasmaSurfaces[s].exists)
  PROVE  /\ S!Found(s) # 0 =>
              /\ S!Found(s) \in DOMAIN shellSurfaces
              /\ shellSurfaces[S!Found(s)].madeFor = s
         /\ S!Found(s) = 0 =>
              s = 0 \/ \A o \in DOMAIN shellSurfaces :
                         shellSurfaces[o].exists => shellSurfaces[o].madeFor # s
<1> DEFINE those == {o \in DOMAIN shellSurfaces :
                         /\ shellSurfaces[o].exists
                         /\ S!SameAddress(shellSurfaces[o].parentSurface, s)}
<1>1. S!Found(s) = IF s = 0 \/ those = {} THEN 0
                   ELSE CHOOSE o \in those : \A p \in those : o <= p
  BY DEF S!Found, S!None
<1>2. CASE s = 0
  BY <1>1, <1>2
<1>3. CASE s # 0
  <2>1. s \in DOMAIN plasmaSurfaces /\ plasmaSurfaces[s].exists
    BY <1>3
  <2>2. ASSUME NEW o \in those
        PROVE  /\ o \in DOMAIN shellSurfaces /\ shellSurfaces[o].madeFor = s
               /\ shellSurfaces[o].exists /\ o \in Nat
    <3> DEFINE t == shellSurfaces[o].parentSurface
    <3>1. /\ o \in DOMAIN shellSurfaces /\ shellSurfaces[o].exists
          /\ t # 0 /\ plasmaSurfaces[t].address = plasmaSurfaces[s].address
      BY DEF S!SameAddress, S!None
    <3>2. /\ t = shellSurfaces[o].madeFor /\ plasmaSurfaces[t].exists
          /\ t \in DOMAIN plasmaSurfaces
      BY <3>1 DEF PlasmaInv, PointsBack
    <3>3. t = s
      BY <2>1, <3>1, <3>2 DEF PlasmaInv, ApartSurfaces
    <3>4. DOMAIN shellSurfaces \subseteq Nat
      BY DEF PlasmaInv
    <3> QED
      BY <3>1, <3>2, <3>3, <3>4
  <2>3. \A o, p \in those : o = p
    BY <1>3, <2>2 DEF PlasmaInv, OneEach
  <2>4. CASE those # {}
    <3>1. PICK o \in those : TRUE
      BY <2>4
    <3>2. \A p \in those : o <= p
      <4>1. o <= o
        BY <2>2
      <4> QED
        BY <2>3, <4>1
    <3> HIDE DEF those
    <3>3. S!Found(s) \in those
      BY <1>1, <1>3, <2>4, <3>2
    <3>4. S!Found(s) # 0
      <4>1. 0 \notin DOMAIN shellSurfaces
        BY DEF PlasmaInv
      <4> QED
        BY <2>2, <3>3, <4>1
    <3> QED
      BY <2>2, <3>3, <3>4
  <2>5. CASE those = {}
    <3>1. ASSUME NEW o \in DOMAIN shellSurfaces, shellSurfaces[o].exists,
                 shellSurfaces[o].madeFor = s
          PROVE  FALSE
      <4>1. shellSurfaces[o].parentSurface = s
        BY <1>3, <2>1, <3>1 DEF PlasmaInv, PointsBack
      <4>2. o \in those
        BY <1>3, <3>1, <4>1 DEF S!SameAddress, S!None
      <4> QED
        BY <2>5, <4>2
    <3>2. S!Found(s) = 0
      BY <1>1, <2>5
    <3> QED
      BY <3>1, <3>2
  <2> QED
    BY <2>4, <2>5
<1> QED
  BY <1>2, <1>3

\* Nothing but what an object says of its surface matters.
LEMMA PlasmaSame ==
  ASSUME PlasmaInv, UNCHANGED plasmaSurfaces, shellSurfaces' \in Seq(ShellRows),
         DOMAIN shellSurfaces' = DOMAIN shellSurfaces,
         \A o \in DOMAIN shellSurfaces :
            /\ shellSurfaces'[o].madeFor = shellSurfaces[o].madeFor
            /\ shellSurfaces'[o].parentSurface = shellSurfaces[o].parentSurface
            /\ shellSurfaces'[o].exists => shellSurfaces[o].exists,
         GivenRight'
  PROVE  PlasmaInv'
<1>1. \A o \in DOMAIN shellSurfaces' : PointsBack(shellSurfaces[o])
  BY DEF PlasmaInv
<1>2. \A o \in DOMAIN shellSurfaces' : PointsBack(shellSurfaces[o])'
  BY <1>1 DEF PointsBack
<1>3. OneEach'
  BY DEF PlasmaInv, OneEach
<1>4. ApartSurfaces'
  BY DEF PlasmaInv, ApartSurfaces
<1> QED
  BY <1>2, <1>3, <1>4 DEF PlasmaInv

LEMMA PlasmaStep == ASSUME PlasmaInv, S!Next PROVE PlasmaInv'
<1>1. /\ plasmaSurfaces \in Seq([address : Addresses, exists : BOOLEAN])
      /\ shellSurfaces \in Seq(ShellRows)
      /\ DOMAIN shellSurfaces \subseteq Nat /\ 0 \notin DOMAIN plasmaSurfaces
  BY DEF PlasmaInv
<1>2. \A o \in DOMAIN shellSurfaces :
        /\ shellSurfaces[o] \in ShellRows
        /\ PointsBack(shellSurfaces[o])
  BY <1>1 DEF PlasmaInv
<1>3. CASE S!CreateSurface
  <2>1. PICK a \in Addresses :
          /\ \A s \in DOMAIN plasmaSurfaces :
               plasmaSurfaces[s].exists => plasmaSurfaces[s].address # a
          /\ plasmaSurfaces' = Append(plasmaSurfaces, [address |-> a, exists |-> TRUE])
          /\ UNCHANGED <<shellSurfaces, given>>
    BY <1>3 DEF S!CreateSurface
  <2> DEFINE n == Len(plasmaSurfaces) + 1
             row == [address |-> a, exists |-> TRUE]
  <2>2. row \in [address : Addresses, exists : BOOLEAN] /\ row.address = a
    OBVIOUS
  <2> HIDE DEF row
  <2>3. /\ plasmaSurfaces' \in Seq([address : Addresses, exists : BOOLEAN])
        /\ DOMAIN plasmaSurfaces' = DOMAIN plasmaSurfaces \cup {n}
        /\ plasmaSurfaces'[n] = row
        /\ \A s \in DOMAIN plasmaSurfaces : plasmaSurfaces'[s] = plasmaSurfaces[s]
    <3> DEFINE R == [address : Addresses, exists : BOOLEAN]
    <3>1. plasmaSurfaces \in Seq(R) /\ row \in R /\ plasmaSurfaces' = Append(plasmaSurfaces, row)
      BY <1>1, <2>1, <2>2 DEF row
    <3> HIDE DEF R
    <3>2. \A list \in Seq(R) :
            /\ Append(list, row) \in Seq(R)
            /\ DOMAIN Append(list, row) = DOMAIN list \cup {Len(list) + 1}
            /\ Append(list, row)[Len(list) + 1] = row
            /\ \A s \in DOMAIN list : Append(list, row)[s] = list[s]
      BY <3>1
    <3> QED
      BY <3>1, <3>2 DEF R
  <2> HIDE DEF n
  <2>4. ApartSurfaces'
    BY <2>1, <2>2, <2>3 DEF PlasmaInv, ApartSurfaces
  <2>5. ASSUME NEW o \in DOMAIN shellSurfaces PROVE PointsBack(shellSurfaces[o])'
    <3> DEFINE row_o == shellSurfaces[o]
    <3>1. PointsBack(row_o) /\ shellSurfaces'[o] = row_o
      BY <1>2, <2>1
    <3> HIDE DEF row_o
    <3> QED
      BY <2>3, <3>1 DEF PointsBack
  <2> QED
    BY <2>1, <2>3, <2>4, <2>5 DEF PlasmaInv, OneEach, GivenRight
<1>4. CASE S!DeleteSurface
  <2>1. PICK d \in DOMAIN plasmaSurfaces :
          /\ plasmaSurfaces' = [plasmaSurfaces EXCEPT ![d].exists = FALSE]
          /\ shellSurfaces' = S!CleanedOf(d)
          /\ UNCHANGED given
    BY <1>4 DEF S!DeleteSurface
  <2>2. /\ plasmaSurfaces' \in Seq([address : Addresses, exists : BOOLEAN])
        /\ DOMAIN plasmaSurfaces' = DOMAIN plasmaSurfaces
        /\ ~plasmaSurfaces'[d].exists
        /\ \A s \in DOMAIN plasmaSurfaces :
             /\ s # d => plasmaSurfaces'[s] = plasmaSurfaces[s]
             /\ plasmaSurfaces'[s].address = plasmaSurfaces[s].address
             /\ plasmaSurfaces'[s].exists => plasmaSurfaces[s].exists
    <3> DEFINE R == [address : Addresses, exists : BOOLEAN]
               row == [plasmaSurfaces[d] EXCEPT !.exists = FALSE]
    <3>1. plasmaSurfaces \in Seq(R)
      BY <1>1
    <3>2. plasmaSurfaces[d] \in R
      <4> HIDE DEF R
      <4> QED
        BY <3>1
    <3>3. row \in R /\ row.address = plasmaSurfaces[d].address /\ ~row.exists
      BY <3>2
    <3>4. plasmaSurfaces' = [plasmaSurfaces EXCEPT ![d] = row]
      BY <2>1
    <3> HIDE DEF R, row
    <3>5. plasmaSurfaces' \in Seq(R) /\ DOMAIN plasmaSurfaces' = DOMAIN plasmaSurfaces
      BY <3>1, <3>3, <3>4
    <3>6. \A s \in DOMAIN plasmaSurfaces :
            plasmaSurfaces'[s] = IF s = d THEN row ELSE plasmaSurfaces[s]
      BY <3>1, <3>4
    <3> QED
      BY <3>3, <3>5, <3>6 DEF R
  <2>3. /\ DOMAIN shellSurfaces' = DOMAIN shellSurfaces
        /\ \A o \in DOMAIN shellSurfaces :
             shellSurfaces'[o] = IF shellSurfaces[o].parentSurface = d
                                 THEN [shellSurfaces[o] EXCEPT !.parentSurface = 0]
                                 ELSE shellSurfaces[o]
    BY <2>1 DEF S!CleanedOf, S!None
  <2>4. \A o \in DOMAIN shellSurfaces :
          /\ shellSurfaces'[o] \in ShellRows
          /\ shellSurfaces'[o].madeFor = shellSurfaces[o].madeFor
          /\ shellSurfaces'[o].exists = shellSurfaces[o].exists
          /\ shellSurfaces'[o].parentSurface = IF shellSurfaces[o].parentSurface = d THEN 0
                                               ELSE shellSurfaces[o].parentSurface
    BY <1>2, <2>3 DEF ShellRows
  <2>5. shellSurfaces' \in Seq(ShellRows)
    <3>1. DOMAIN shellSurfaces = 1 .. Len(shellSurfaces) /\ Len(shellSurfaces) \in Nat
      BY <1>1
    <3>2. shellSurfaces' = [o \in 1 .. Len(shellSurfaces) |-> shellSurfaces'[o]]
      BY <2>1, <2>3, <3>1 DEF S!CleanedOf
    <3>3. \A o \in 1 .. Len(shellSurfaces) : shellSurfaces'[o] \in ShellRows
      BY <2>4, <3>1
    <3> QED
      BY <3>1, <3>2, <3>3
  <2>6. ApartSurfaces'
    BY <2>2 DEF PlasmaInv, ApartSurfaces
  <2>7. ASSUME NEW o \in DOMAIN shellSurfaces' PROVE PointsBack(shellSurfaces[o])'
    <3>1. PICK row, new :
            /\ new = shellSurfaces'[o]
            /\ PointsBack(row)
            /\ new.madeFor = row.madeFor
            /\ new.parentSurface = IF row.parentSurface = d THEN 0 ELSE row.parentSurface
      BY <1>2, <2>3, <2>4
    <3>2. PointsBack(new)'
      BY <2>2, <3>1 DEF PointsBack
    <3> QED
      BY <3>1, <3>2 DEF PointsBack
  <2>8. OneEach' /\ GivenRight'
    BY <2>1, <2>3, <2>4 DEF PlasmaInv, OneEach, GivenRight
  <2> QED
    BY <2>2, <2>5, <2>6, <2>7, <2>8 DEF PlasmaInv
<1>5. CASE S!Setup
  BY <1>5 DEF S!Setup, PlasmaInv, ApartSurfaces, PointsBack, OneEach, GivenRight
<1>6. ASSUME DOMAIN shellSurfaces' = DOMAIN shellSurfaces, UNCHANGED plasmaSurfaces,
             shellSurfaces' = [o \in DOMAIN shellSurfaces |-> shellSurfaces'[o]],
             \A o \in DOMAIN shellSurfaces :
               /\ shellSurfaces'[o] \in ShellRows
               /\ shellSurfaces'[o].madeFor = shellSurfaces[o].madeFor
               /\ shellSurfaces'[o].parentSurface = shellSurfaces[o].parentSurface
               /\ shellSurfaces'[o].exists => shellSurfaces[o].exists,
             given' = given \/ given'.object = 0
      PROVE  PlasmaInv'
  <2>1. shellSurfaces' \in Seq(ShellRows)
    <3>1. DOMAIN shellSurfaces = 1 .. Len(shellSurfaces) /\ Len(shellSurfaces) \in Nat
      BY <1>1
    <3>2. \A o \in 1 .. Len(shellSurfaces) : shellSurfaces'[o] \in ShellRows
      BY <1>6, <3>1
    <3> QED
      BY <1>6, <3>1, <3>2
  <2>2. GivenRight'
    BY <1>6 DEF PlasmaInv, GivenRight
  <2> QED
    BY <1>6, <2>1, <2>2, PlasmaSame
<1>7. CASE S!EndShell
  <2>1. /\ UNCHANGED <<plasmaSurfaces, given>>
        /\ shellSurfaces' = [o \in DOMAIN shellSurfaces |->
                               [shellSurfaces[o] EXCEPT !.valid = FALSE]]
    BY <1>7 DEF S!EndShell
  <2> QED
    BY <1>2, <1>6, <2>1 DEF ShellRows
<1>8. CASE S!ReleaseShellSurface
  <2>1. PICK d \in DOMAIN shellSurfaces :
          /\ shellSurfaces' = [shellSurfaces EXCEPT ![d].valid = FALSE]
          /\ UNCHANGED <<plasmaSurfaces, given>>
    BY <1>8 DEF S!ReleaseShellSurface
  <2> QED
    BY <1>2, <1>6, <2>1 DEF ShellRows
<1>9. CASE S!DeleteShellSurface
  <2>1. PICK d \in DOMAIN shellSurfaces :
          /\ shellSurfaces' = [shellSurfaces EXCEPT ![d].exists = FALSE, ![d].valid = FALSE]
          /\ UNCHANGED plasmaSurfaces
          /\ given' = IF given.object = d THEN [surface |-> 0, object |-> 0] ELSE given
    BY <1>9 DEF S!DeleteShellSurface, S!None
  <2>2. \A o \in DOMAIN shellSurfaces :
          /\ shellSurfaces'[o] \in ShellRows
          /\ shellSurfaces'[o].madeFor = shellSurfaces[o].madeFor
          /\ shellSurfaces'[o].parentSurface = shellSurfaces[o].parentSurface
          /\ shellSurfaces'[o].exists => shellSurfaces[o].exists
    BY <1>2, <2>1 DEF ShellRows
  <2>3. /\ DOMAIN shellSurfaces' = DOMAIN shellSurfaces
        /\ shellSurfaces' = [o \in DOMAIN shellSurfaces |-> shellSurfaces'[o]]
    BY <2>1
  <2>4. given' = given \/ given'.object = 0
    BY <2>1
  <2> QED
    BY <1>6, <2>1, <2>2, <2>3, <2>4
<1>10. CASE S!createSurface
  <2>1. PICK s \in {0} \cup {t \in DOMAIN plasmaSurfaces : plasmaSurfaces[t].exists} :
          IF S!Found(s) # 0
          THEN /\ given' = [surface |-> s, object |-> S!Found(s)]
               /\ UNCHANGED shellSurfaces
          ELSE /\ shellSurfaces' =
                    Append(shellSurfaces,
                           [madeFor |-> s, parentSurface |-> s, exists |-> TRUE,
                            valid |-> TRUE])
               /\ given' = [surface |-> s, object |-> Len(shellSurfaces) + 1]
    BY <1>10 DEF S!createSurface, S!None
  <2>2. UNCHANGED plasmaSurfaces
    BY <1>10 DEF S!createSurface
  <2>3. s = 0 \/ (s \in DOMAIN plasmaSurfaces /\ plasmaSurfaces[s].exists)
    BY <2>1
  <2>4. CASE S!Found(s) # 0
    <3>1. /\ S!Found(s) \in DOMAIN shellSurfaces
          /\ shellSurfaces[S!Found(s)].madeFor = s
      BY <2>3, <2>4, FoundIs
    <3>2. GivenRight'
      BY <2>1, <2>4, <3>1 DEF GivenRight
    <3>3. UNCHANGED shellSurfaces
      BY <2>1, <2>4
    <3> QED
      BY <1>1, <2>2, <3>2, <3>3, PlasmaSame
  <2>5. CASE S!Found(s) = 0
    <3> DEFINE n == Len(shellSurfaces) + 1
               row == [madeFor |-> s, parentSurface |-> s, exists |-> TRUE, valid |-> TRUE]
    <3>1. /\ row \in ShellRows /\ row.madeFor = s /\ row.parentSurface = s
      <4>1. s \in Nat
        BY <1>1, <2>1
      <4> QED
        BY <4>1 DEF ShellRows
    <3>2. /\ shellSurfaces' = Append(shellSurfaces, row)
          /\ given'.object = n /\ given'.surface = s
      BY <2>1, <2>5
    <3> HIDE DEF row
    <3>3. /\ shellSurfaces' \in Seq(ShellRows) /\ n \notin DOMAIN shellSurfaces
          /\ DOMAIN shellSurfaces' = DOMAIN shellSurfaces \cup {n}
          /\ shellSurfaces'[n] = row
          /\ \A o \in DOMAIN shellSurfaces : shellSurfaces'[o] = shellSurfaces[o]
      <4>1. \A list \in Seq(ShellRows) :
              /\ Append(list, row) \in Seq(ShellRows)
              /\ Len(list) + 1 \notin DOMAIN list
              /\ DOMAIN Append(list, row) = DOMAIN list \cup {Len(list) + 1}
              /\ Append(list, row)[Len(list) + 1] = row
              /\ \A o \in DOMAIN list : Append(list, row)[o] = list[o]
        BY <3>1
      <4> QED
        BY <1>1, <3>2, <4>1
    <3> HIDE DEF n
    <3>4. \A o \in DOMAIN shellSurfaces :
            shellSurfaces[o].exists => s = 0 \/ shellSurfaces[o].madeFor # s
      BY <2>3, <2>5, FoundIs
    <3>5. OneEach'
      BY <3>1, <3>3, <3>4 DEF PlasmaInv, OneEach
    <3>6. GivenRight'
      BY <3>1, <3>2, <3>3 DEF GivenRight
    <3>7. PointsBack(row)
      BY <2>3, <3>1 DEF PointsBack
    <3>8. \A o \in DOMAIN shellSurfaces' : PointsBack(shellSurfaces'[o])
      BY <1>2, <3>3, <3>7
    <3>9. \A o \in DOMAIN shellSurfaces' : PointsBack(shellSurfaces[o])'
      BY <2>2, <3>8 DEF PointsBack
    <3>10. ApartSurfaces'
      BY <2>2 DEF PlasmaInv, ApartSurfaces
    <3> QED
      BY <1>1, <2>2, <3>3, <3>5, <3>6, <3>9, <3>10 DEF PlasmaInv
  <2> QED
    BY <2>4, <2>5
<1> QED
  BY <1>3, <1>4, <1>5, <1>7, <1>8, <1>9, <1>10 DEF S!Next

LEMMA PlasmaFits == PlasmaInv => S!OneForEachSurface
BY DEF PlasmaInv, OneEach, GivenRight, S!OneForEachSurface, S!None

LEMMA PlasmaQuiet ==
  ASSUME PlasmaInv, UNCHANGED plasmaVars
  PROVE  PlasmaInv'
<1>1. UNCHANGED <<plasmaSurfaces, shellSurfaces, given>>
  BY DEF plasmaVars
<1> QED
  BY <1>1 DEF PlasmaInv, ApartSurfaces, PointsBack, OneEach, GivenRight

-----------------------------------------------------------------------------
(* The stacking order and the objects that are told it.                    *)

LEMMA StackKeptIs == \A s, places : O!Kept(s, places) = Kept(s, places)
<1>1. \A set : O!Cardinality(set) = Cardinality(set)
  BY DEF O!Cardinality, Cardinality
<1>2. \A places, k : O!Rank(places, k) = Rank(places, k)
  BY <1>1 DEF O!Rank, Rank
<1> TAKE s, places
<1>3. O!Kept(s, places) =
        [n \in 1 .. Cardinality(places) |->
           s[CHOOSE k \in places : O!Rank(places, k) = n]]
  BY <1>1 DEF O!Kept
<1>4. \A n \in 1 .. Cardinality(places) :
        (CHOOSE k \in places : O!Rank(places, k) = n)
          = (CHOOSE k \in places : Rank(places, k) = n)
  BY <1>2
<1> QED
  BY <1>3, <1>4 DEF Kept

Lists == Seq(Windows)
StackEvents ==
  [kind : {"changed"}]
    \cup [kind : {"window"}, object : Nat, window : Windows]
    \cup [kind : {"done"}, object : Nat]
About(e, o) == e.kind # "changed" /\ e.object = o

\* A list that is told, and one that was told.
ListStates == [list : Lists, ended : BOOLEAN]
Open(l) == [list |-> l, ended |-> FALSE]
Closed(l) == [list |-> l, ended |-> TRUE]

\* What an event for an object does to its list.
ListMove(o, u, e, w) ==
  IF About(e, o)
  THEN /\ ~u.ended
       /\ w = IF e.kind = "window" THEN Open(Append(u.list, e.window)) ELSE Closed(u.list)
  ELSE w = u
ListMoves(o) ==
  {move \in ListStates \X StackEvents \X ListStates :
     ListMove(o, move[1], move[2], move[3])}

\* An object is being told this order, or was.
Answered(o, final) ==
  \E u \in {Open(lists[o]), Closed(lists[o])} :
    Leads(ListStates, ListMoves(o), u, stackEvents, Closed(final))

LatestOrder == history[Len(history)]

\* An object asked for is told nothing before the compositor has the request.
NotYet(o) == lists[o] = <<>> /\ \A k \in DOMAIN stackEvents : ~About(stackEvents[k], o)

StackType ==
  /\ history \in Seq(Lists) /\ history # <<>>
  /\ stackRequests \in Seq(Nat)
  /\ stackEvents \in Seq(StackEvents)
  /\ lists \in Seq(Lists)

\* The next order to arrive is the one there is, or there are more to ask for.
OrderComes ==
  \/ stackRequests # <<>>
  \/ \E k \in DOMAIN stackEvents : stackEvents[k].kind = "changed"
  \/ NoneOf(stackEvents, {"done"}) /\ order = LatestOrder
  \/ \E k \in DOMAIN stackEvents :
       /\ IsLast(stackEvents, {"done"}, k)
       /\ stackEvents[k].object \in DOMAIN lists
       /\ Answered(stackEvents[k].object, LatestOrder)

\* Every object there is waits for the compositor or is told an order it had.
ListsComplete ==
  \A o \in DOMAIN lists :
    IF \E i \in DOMAIN stackRequests : stackRequests[i] = o
    THEN NotYet(o)
    ELSE \E i \in DOMAIN history : Answered(o, history[i])

\* Each request is for an object of its own.
OwnRequests ==
  /\ \A i \in DOMAIN stackRequests : stackRequests[i] \in DOMAIN lists
  /\ \A i, j \in DOMAIN stackRequests : stackRequests[i] = stackRequests[j] => i = j

StackInv ==
  /\ StackType
  /\ OwnRequests
  /\ \A k \in DOMAIN stackEvents :
       stackEvents[k].kind # "changed" => stackEvents[k].object \in DOMAIN lists
  /\ ListsComplete
  /\ \E i \in DOMAIN history : order = history[i]
  /\ wm = "valid" => OrderComes

LEMMA ListMoveIs ==
  ASSUME NEW o, NEW u, NEW e, NEW w
  PROVE  <<u, e, w>> \in ListMoves(o) <=>
           u \in ListStates /\ e \in StackEvents /\ w \in ListStates /\ ListMove(o, u, e, w)
<1> DEFINE move == <<u, e, w>>
<1>1. move[1] = u /\ move[2] = e /\ move[3] = w
  OBVIOUS
<1>2. move \in ListStates \X StackEvents \X ListStates <=>
        u \in ListStates /\ e \in StackEvents /\ w \in ListStates
  OBVIOUS
<1> HIDE DEF move
<1>3. move \in ListMoves(o) <=>
        /\ move \in ListStates \X StackEvents \X ListStates
        /\ ListMove(o, move[1], move[2], move[3])
  BY DEF ListMoves
<1> QED
  BY <1>1, <1>2, <1>3 DEF move

LEMMA ListStateFacts ==
  /\ \A l \in Lists : Open(l) \in ListStates /\ Closed(l) \in ListStates
  /\ \A l : /\ ~Open(l).ended /\ Closed(l).ended
            /\ Open(l).list = l /\ Closed(l).list = l
  /\ \A l, m : Closed(l) = Closed(m) => l = m
<1>1. \A l : Open(l).list = l /\ Closed(l).list = l /\ ~Open(l).ended /\ Closed(l).ended
  BY DEF Open, Closed
<1>2. \A l \in Lists : Open(l) \in ListStates /\ Closed(l) \in ListStates
  BY DEF Open, Closed, ListStates
<1>3. ASSUME NEW l, NEW m, Closed(l) = Closed(m) PROVE l = m
  <2>1. Closed(l).list = Closed(m).list
    BY <1>3
  <2> QED
    BY <1>1, <2>1
<1> QED
  BY <1>1, <1>2, <1>3

LEMMA StackStarts == O!Init => StackInv
<1> SUFFICES ASSUME O!Init PROVE StackInv
  OBVIOUS
<1>1. /\ history = <<<<>>>> /\ wm = "unset" /\ stackRequests = <<>>
      /\ stackEvents = <<>> /\ lists = <<>> /\ order = <<>>
  BY DEF O!Init
<1>2. <<>> \in Lists
  BY DEF Lists
<1>3. history \in Seq(Lists) /\ DOMAIN history = {1} /\ history[1] = order
  BY <1>1, <1>2
<1>4. history # <<>>
  BY <1>3
<1>5. /\ DOMAIN stackRequests = {} /\ DOMAIN stackEvents = {} /\ DOMAIN lists = {}
      /\ stackRequests \in Seq(Nat) /\ stackEvents \in Seq(StackEvents)
      /\ lists \in Seq(Lists)
  BY <1>1
<1> QED
  BY <1>1, <1>3, <1>4, <1>5 DEF StackInv, StackType, OwnRequests, ListsComplete

\* Events that are not about an object leave what it is told.
LEMMA AnsweredStill ==
  ASSUME StackType, NEW o \in DOMAIN lists, NEW final, Answered(o, final),
         NEW more \in Seq(StackEvents), \A k \in DOMAIN more : ~About(more[k], o),
         stackEvents' = stackEvents \o more, lists'[o] = lists[o]
  PROVE  Answered(o, final)'
<1> PICK u : u \in {Open(lists[o]), Closed(lists[o])} /\
       Leads(ListStates, ListMoves(o), u, stackEvents, Closed(final))
  BY DEF Answered
<1>1. Closed(final) \in ListStates
  <2>1. \A h, n : h \in [0 .. n -> ListStates] /\ n \in Nat => h[n] \in ListStates
    OBVIOUS
  <2>2. Len(stackEvents) \in Nat
    BY DEF StackType
  <2> QED
    BY <2>1, <2>2 DEF Leads
<1>2. \A k \in DOMAIN more : <<Closed(final), more[k], Closed(final)>> \in ListMoves(o)
  <2> TAKE k \in DOMAIN more
  <2>1. more[k] \in StackEvents
    OBVIOUS
  <2> QED
    BY <1>1, <2>1, ListMoveIs DEF ListMove
<1> DEFINE v == Closed(final)
<1>3. Leads(ListStates, ListMoves(o), v, more, v)
  <2> HIDE DEF v
  <2>1. v \in ListStates /\ \A k \in DOMAIN more : <<v, more[k], v>> \in ListMoves(o)
    BY <1>1, <1>2 DEF v
  <2> QED
    BY <2>1, LeadsSame
<1>4. Leads(ListStates, ListMoves(o), u, stackEvents \o more, v)
  <2> HIDE DEF v
  <2>1. stackEvents \in Seq(StackEvents)
    BY DEF StackType
  <2>2. Leads(ListStates, ListMoves(o), u, stackEvents, v)
    BY DEF v
  <2> QED
    BY <1>3, <2>1, <2>2, LeadsThrough
<1> QED
  BY <1>4 DEF Answered

\* An event is taken, and the list of its object is what the event makes of it.
LEMMA AnsweredTaken ==
  ASSUME StackType, NEW o \in DOMAIN lists, NEW final, Answered(o, final),
         stackEvents # <<>>, stackEvents' = Tail(stackEvents),
         NEW e, e = Head(stackEvents),
         lists'[o] = IF About(e, o) /\ e.kind = "window"
                     THEN Append(lists[o], e.window) ELSE lists[o]
  PROVE  /\ Answered(o, final)'
         /\ About(e, o) /\ e.kind # "window" => final = lists[o]
<1> PICK u : u \in {Open(lists[o]), Closed(lists[o])} /\
       Leads(ListStates, ListMoves(o), u, stackEvents, Closed(final))
  BY DEF Answered
<1> DEFINE v == Closed(final)
           moves == ListMoves(o)
<1>1. Leads(ListStates, moves, u, stackEvents, v) /\ stackEvents \in Seq(StackEvents)
  BY DEF StackType
<1> HIDE DEF v, moves
<1>2. PICK r \in ListStates : /\ <<u, Head(stackEvents), r>> \in moves
                             /\ Leads(ListStates, moves, r, Tail(stackEvents), v)
  BY <1>1, LeadsFrom
<1>3. ListMove(o, u, e, r)
  BY <1>2, ListMoveIs DEF moves
<1>4. r \in {Open(lists'[o]), Closed(lists'[o])}
  <2>1. CASE ~About(e, o)
    BY <1>3, <2>1 DEF ListMove
  <2>2. CASE About(e, o)
    <3>1. u.list = lists[o]
      BY ListStateFacts
    <3> QED
      BY <1>3, <2>2, <3>1 DEF ListMove
  <2> QED
    BY <2>1, <2>2
<1>5. ASSUME About(e, o), e.kind # "window" PROVE final = lists[o]
  <2>1. u.list = lists[o] /\ r = Closed(lists[o])
    <3>1. u.list = lists[o]
      BY ListStateFacts
    <3> QED
      BY <1>3, <1>5, <3>1 DEF ListMove
  <2> DEFINE t == Tail(stackEvents)
  <2>2. t \in Seq(StackEvents)
    BY <1>1
  <2>3. r.ended
    BY <2>1, ListStateFacts
  <2>4. ASSUME NEW k \in DOMAIN t, NEW y \in ListStates, <<r, t[k], y>> \in moves
        PROVE  y = r
    <3>1. ListMove(o, r, t[k], y)
      BY <2>4, ListMoveIs DEF moves
    <3> QED
      BY <2>3, <3>1 DEF ListMove
  <2> HIDE DEF t
  <2>5. v = r
    <3>1. \A k \in DOMAIN t : \A y \in ListStates : <<r, t[k], y>> \in moves => y = r
      BY <2>4
    <3>2. Leads(ListStates, moves, r, t, v)
      BY <1>2 DEF t
    <3> QED
      BY <2>2, <3>1, <3>2, LeadsSure
  <2> QED
    BY <2>1, <2>5, ListStateFacts DEF v
<1>6. Leads(ListStates, ListMoves(o), r, stackEvents', Closed(final))
  BY <1>2 DEF v, moves
<1> QED
  BY <1>4, <1>5, <1>6 DEF Answered

\* Events about no object are dropped.
LEMMA AnsweredKept ==
  ASSUME StackType, NEW o \in DOMAIN lists, NEW final, Answered(o, final),
         NEW places, places = {k \in DOMAIN stackEvents : stackEvents[k].kind # "changed"},
         stackEvents' = Kept(stackEvents, places), lists' = lists
  PROVE  Answered(o, final)'
<1> PICK u : u \in {Open(lists[o]), Closed(lists[o])} /\
       Leads(ListStates, ListMoves(o), u, stackEvents, Closed(final))
  BY DEF Answered
<1> DEFINE v == Closed(final)
           moves == ListMoves(o)
           es == stackEvents
<1>1. Leads(ListStates, moves, u, es, v) /\ es \in Seq(StackEvents)
  BY DEF StackType
<1>2. places \in SUBSET DOMAIN es
  OBVIOUS
<1>3. ASSUME NEW k \in DOMAIN es, k \notin places, NEW x \in ListStates,
             NEW y \in ListStates, <<x, es[k], y>> \in moves
      PROVE  x = y
  <2>1. ListMove(o, x, es[k], y) /\ ~About(es[k], o)
    BY <1>3, ListMoveIs DEF About
  <2> QED
    BY <2>1 DEF ListMove
<1> HIDE DEF v, moves, es
<1>4. \A k \in DOMAIN es : k \notin places =>
        \A x, y \in ListStates : <<x, es[k], y>> \in moves => x = y
  BY <1>3
<1>5. Leads(ListStates, moves, u, Kept(es, places), v)
  BY <1>1, <1>2, <1>4, LeadsKept
<1> QED
  BY <1>5 DEF Answered, v, moves, es

\* An order is told from its first window to its last.
LEMMA AllTold ==
  ASSUME NEW o \in Nat, NEW now \in Lists, NEW run,
         run = [i \in DOMAIN now |-> O!Window(o, now[i])]
  PROVE  /\ run \in Seq(StackEvents) /\ DOMAIN run = DOMAIN now
         /\ \A k \in DOMAIN run : run[k].kind = "window" /\ run[k].object = o
         /\ Leads(ListStates, ListMoves(o), Open(<<>>), run, Open(now))
<1>1. DOMAIN now = 1 .. Len(now) /\ Len(now) \in Nat
  BY DEF Lists
<1>2. \A i \in 1 .. Len(now) : now[i] \in Windows
  BY DEF Lists
<1>3. \A i \in 1 .. Len(now) :
        /\ run[i] \in StackEvents /\ run[i].kind = "window"
        /\ run[i].object = o /\ run[i].window = now[i]
  BY <1>1, <1>2 DEF O!Window, StackEvents
<1>4. run \in Seq(StackEvents) /\ Len(run) = Len(now) /\ DOMAIN run = 1 .. Len(now)
  BY <1>1, <1>3
<1> DEFINE n == Len(now)
           part(k) == SubSeq(now, 1, k)
           h == [k \in 0 .. n |-> Open(part(k))]
<1>5. \A k \in 0 .. n : part(k) \in Lists
  BY <1>1 DEF Lists
<1>6. part(0) = <<>> /\ part(n) = now
  BY <1>1 DEF Lists
<1>7. \A k \in 1 .. n : part(k) = Append(part(k - 1), now[k])
  <2> TAKE k \in 1 .. n
  <2>1. /\ Len(part(k)) = k /\ part(k) \in Seq(Windows)
        /\ \A i \in 1 .. k : part(k)[i] = now[i]
    BY <1>1 DEF Lists
  <2>2. /\ Len(part(k - 1)) = k - 1 /\ part(k - 1) \in Seq(Windows)
        /\ \A i \in 1 .. k - 1 : part(k - 1)[i] = now[i]
    BY <1>1 DEF Lists
  <2> DEFINE a == part(k)
             b == part(k - 1)
             x == now[k]
             c == Append(b, x)
  <2>3. x \in Windows /\ k \in Nat
    BY <1>1, <1>2
  <2> HIDE DEF a, b, x, part
  <2>4. /\ c \in Seq(Windows) /\ Len(c) = k /\ c[k] = x
        /\ \A i \in 1 .. k - 1 : c[i] = b[i]
    BY <2>2, <2>3 DEF b
  <2> HIDE DEF c
  <2>5. \A i \in 1 .. k : a[i] = c[i]
    BY <2>1, <2>2, <2>3, <2>4 DEF a, b, x
  <2>6. a = c
    BY <2>1, <2>3, <2>4, <2>5 DEF a
  <2> QED
    BY <2>6 DEF a, b, c, x
<1> HIDE DEF part, n
<1>8. h \in [0 .. n -> ListStates] /\ \A k \in 0 .. n : h[k] = Open(part(k))
  BY <1>5, ListStateFacts
<1> HIDE DEF h
<1>9. ASSUME NEW k \in 1 .. n PROVE <<h[k - 1], run[k], h[k]>> \in ListMoves(o)
  <2>1. k - 1 \in 0 .. n /\ k \in 0 .. n
    BY <1>1 DEF n
  <2>2. /\ h[k - 1] = Open(part(k - 1)) /\ h[k] = Open(Append(part(k - 1), now[k]))
        /\ h[k - 1] \in ListStates /\ h[k] \in ListStates
    BY <1>7, <1>8, <2>1
  <2>3. /\ run[k] \in StackEvents /\ run[k].kind = "window"
        /\ run[k].object = o /\ run[k].window = now[k]
    BY <1>3 DEF n
  <2>4. ListMove(o, h[k - 1], run[k], h[k])
    BY <2>2, <2>3, ListStateFacts DEF ListMove, About
  <2> QED
    BY <2>2, <2>3, <2>4, ListMoveIs
<1>10. h[0] = Open(<<>>) /\ h[n] = Open(now)
  BY <1>1, <1>6, <1>8 DEF n
<1> QED
  BY <1>1, <1>3, <1>4, <1>8, <1>9, <1>10 DEF Leads, n

\* The compositor tells an object the order there is.
LEMMA StackServed ==
  ASSUME StackInv, O!ServeGetStackingOrder
  PROVE  StackInv'
<1> PICK o : o = Head(stackRequests)
  OBVIOUS
<1> PICK now : now = history[Len(history)]
  OBVIOUS
<1> DEFINE run == [i \in DOMAIN now |-> O!Window(o, now[i])]
           last == O!Done(o)
           es == stackEvents
<1>1. /\ stackRequests # <<>> /\ stackRequests' = Tail(stackRequests)
      /\ stackEvents' = (es \o run) \o <<last>>
      /\ UNCHANGED <<history, wm, lists, order>>
  <2>1. now = history[Len(history)] /\ o = Head(stackRequests)
    OBVIOUS
  <2> QED
    BY <2>1 DEF O!ServeGetStackingOrder
<1>2. StackType /\ OwnRequests /\ ListsComplete
  BY DEF StackInv
<1>3. /\ stackRequests' \in Seq(Nat) /\ o \in Nat
      /\ 1 \in DOMAIN stackRequests /\ o = stackRequests[1]
      /\ \A k \in DOMAIN stackRequests' :
           /\ k + 1 \in DOMAIN stackRequests /\ stackRequests'[k] = stackRequests[k + 1]
           /\ k + 1 # 1 /\ k \in Nat
      /\ \A k \in DOMAIN stackRequests : k # 1 =>
           k - 1 \in DOMAIN stackRequests' /\ stackRequests'[k - 1] = stackRequests[k]
  <2>1. stackRequests \in Seq(Nat)
    BY <1>2 DEF StackType
  <2>2. stackRequests' \in Seq(Nat) /\ o \in Nat
    BY <1>1, <2>1
  <2>3. 1 \in DOMAIN stackRequests /\ o = stackRequests[1]
    BY <1>1, <2>1, TailIndices
  <2>4. \A k \in DOMAIN stackRequests' :
          /\ k + 1 \in DOMAIN stackRequests /\ stackRequests'[k] = stackRequests[k + 1]
          /\ k + 1 # 1 /\ k \in Nat
    BY <1>1, <2>1, TailIndices
  <2>5. \A k \in DOMAIN stackRequests : k # 1 =>
          k - 1 \in DOMAIN stackRequests' /\ stackRequests'[k - 1] = stackRequests[k]
    BY <1>1, <2>1, TailIndices
  <2> QED
    BY <2>2, <2>3, <2>4, <2>5
<1>4. o \in DOMAIN lists /\ NotYet(o)
  BY <1>2, <1>3 DEF OwnRequests, ListsComplete
<1>5. /\ es \in Seq(StackEvents) /\ history \in Seq(Lists)
      /\ Len(history) \in DOMAIN history /\ now \in Lists
  BY <1>2 DEF StackType
<1>6. /\ run \in Seq(StackEvents)
      /\ \A k \in DOMAIN run : run[k].kind = "window" /\ run[k].object = o
      /\ Leads(ListStates, ListMoves(o), Open(<<>>), run, Open(now))
  BY <1>3, <1>5, AllTold
<1>7. /\ last \in StackEvents /\ last.kind = "done" /\ last.object = o
  BY <1>3 DEF O!Done, StackEvents
<1> HIDE DEF run, last, es
<1> DEFINE more == run \o <<last>>
<1>8. more \in Seq(StackEvents) /\ stackEvents' = es \o more
  <2>1. <<last>> \in Seq(StackEvents)
    BY <1>7
  <2> QED
    BY <1>1, <1>5, <1>6, <2>1, Associates
<1>9. \A k \in DOMAIN more : more[k].kind # "changed" /\ more[k].object = o
  <2>1. <<last>> \in Seq(StackEvents) /\ DOMAIN <<last>> = {1} /\ <<last>>[1] = last
    BY <1>7
  <2>2. \A k \in DOMAIN more :
          \/ k \in DOMAIN run /\ more[k] = run[k]
          \/ k - Len(run) \in DOMAIN <<last>> /\ more[k] = <<last>>[k - Len(run)]
    BY <1>6, <2>1, Behind
  <2> HIDE DEF more
  <2>3. \A k \in DOMAIN more : more[k] = last \/ (k \in DOMAIN run /\ more[k] = run[k])
    BY <2>1, <2>2
  <2> QED
    BY <1>6, <1>7, <2>3
<1> HIDE DEF more
<1>10. stackEvents' \in Seq(StackEvents)
  BY <1>5, <1>8
<1>11. \A k \in DOMAIN stackEvents' :
         \/ k \in DOMAIN stackEvents /\ stackEvents'[k] = stackEvents[k]
         \/ stackEvents'[k].kind # "changed" /\ stackEvents'[k].object = o
  <2>1. \A k \in DOMAIN stackEvents' :
          \/ k \in DOMAIN es /\ stackEvents'[k] = es[k]
          \/ k - Len(es) \in DOMAIN more /\ stackEvents'[k] = more[k - Len(es)]
    BY <1>5, <1>8, Behind
  <2> QED
    BY <1>9, <2>1 DEF es
<1>12. Answered(o, now)'
  <2> DEFINE moves == ListMoves(o)
             none == Open(<<>>)
             opened == Open(now)
             closed == Closed(now)
  <2>1. none \in ListStates /\ opened \in ListStates /\ closed \in ListStates
    <3>1. <<>> \in Lists
      BY DEF Lists
    <3> QED
      BY <1>5, <3>1, ListStateFacts
  <2>2. \A k \in DOMAIN es : <<none, es[k], none>> \in moves
    <3> TAKE k \in DOMAIN es
    <3>1. es[k] \in StackEvents /\ ~About(es[k], o)
      BY <1>4, <1>5 DEF NotYet, es
    <3> QED
      BY <2>1, <3>1, ListMoveIs DEF ListMove
  <2>3. <<opened, last, closed>> \in moves
    <3>1. ListMove(o, opened, last, closed)
      BY <1>7, ListStateFacts DEF ListMove, About
    <3> QED
      BY <1>7, <2>1, <3>1, ListMoveIs
  <2>4. Leads(ListStates, moves, none, run, opened)
    BY <1>6
  <2> HIDE DEF none, opened, closed, moves
  <2>5. Leads(ListStates, moves, none, es, none)
    BY <1>5, <2>1, <2>2, LeadsSame
  <2>6. Leads(ListStates, moves, none, es \o run, opened) /\ es \o run \in Seq(StackEvents)
    BY <1>5, <1>6, <2>4, <2>5, LeadsThrough
  <2> DEFINE both == es \o run
  <2>7. (es \o run) \o <<last>> = Append(both, last)
    <3>1. <<last>> \in Seq(StackEvents) /\ DOMAIN <<last>> = {1} /\ <<last>>[1] = last
      BY <1>7
    <3> QED
      BY <2>6, <3>1, ConcatOne
  <2>8. Leads(ListStates, moves, none, Append(both, last), closed)
    <3>1. Leads(ListStates, moves, none, both, opened) /\ both \in Seq(StackEvents)
      BY <2>6
    <3> HIDE DEF both
    <3> QED
      BY <1>7, <2>1, <2>3, <3>1, LeadsOn
  <2>9. lists'[o] = <<>>
    BY <1>1, <1>4 DEF NotYet
  <2> QED
    BY <1>1, <2>7, <2>8, <2>9 DEF Answered, none, closed, moves
<1>13. OwnRequests'
  BY <1>1, <1>2, <1>3 DEF OwnRequests
<1>14. ListsComplete'
  <2> SUFFICES ASSUME NEW p \in DOMAIN lists
               PROVE  IF \E i \in DOMAIN stackRequests' : stackRequests'[i] = p
                      THEN NotYet(p)' ELSE \E i \in DOMAIN history : Answered(p, history[i])'
    BY <1>1 DEF ListsComplete
  <2>1. CASE p = o
    <3>1. ~\E i \in DOMAIN stackRequests' : stackRequests'[i] = p
      BY <1>2, <1>3, <2>1 DEF OwnRequests
    <3>2. Answered(p, history[Len(history)])'
      BY <1>1, <1>12, <2>1
    <3> QED
      BY <1>1, <1>5, <3>1, <3>2
  <2>2. CASE p # o
    <3>1. (\E i \in DOMAIN stackRequests' : stackRequests'[i] = p)
            <=> \E i \in DOMAIN stackRequests : stackRequests[i] = p
      BY <1>3, <2>2
    <3>2. NotYet(p) => NotYet(p)'
      BY <1>1, <1>11, <2>2 DEF NotYet, About
    <3>3. \A k \in DOMAIN more : ~About(more[k], p)
      BY <1>9, <2>2 DEF About
    <3>4. ASSUME NEW i \in DOMAIN history, Answered(p, history[i])
          PROVE  Answered(p, history[i])'
      <4>1. PICK final : final = history[i] /\ history'[i] = final
        BY <1>1
      <4>2. Answered(p, final)'
        BY <1>1, <1>2, <1>8, <3>3, <3>4, <4>1, AnsweredStill DEF es
      <4> QED
        BY <4>1, <4>2
    <3> QED
      BY <1>2, <3>1, <3>2, <3>4 DEF ListsComplete
  <2> QED
    BY <2>1, <2>2
<1>15. OrderComes'
  <2> DEFINE both == es \o run
             n == Len(both) + 1
  <2>1. /\ both \in Seq(StackEvents) /\ stackEvents' = both \o <<last>>
    BY <1>1, <1>5, <1>6
  <2>2. stackEvents' = Append(both, last)
    <3>1. <<last>> \in Seq(StackEvents) /\ DOMAIN <<last>> = {1} /\ <<last>>[1] = last
      BY <1>7
    <3> HIDE DEF both
    <3> QED
      BY <2>1, <3>1, ConcatOne
  <2> HIDE DEF both
  <2>3. /\ n \in DOMAIN stackEvents' /\ stackEvents'[n] = last
        /\ \A k \in DOMAIN stackEvents' : k <= n
    BY <1>7, <2>1, <2>2
  <2> HIDE DEF n
  <2>4. IsLast(stackEvents', {"done"}, n)
    BY <1>7, <2>3 DEF IsLast
  <2>5. Answered(o, LatestOrder)'
    BY <1>1, <1>12 DEF LatestOrder
  <2>6. stackEvents'[n].object = o /\ o \in DOMAIN lists'
    BY <1>1, <1>4, <1>7, <2>3
  <2> QED
    BY <2>3, <2>4, <2>5, <2>6 DEF OrderComes
<1>16. \A k \in DOMAIN stackEvents' :
         stackEvents'[k].kind # "changed" => stackEvents'[k].object \in DOMAIN lists'
  BY <1>1, <1>4, <1>11 DEF StackInv
<1>17. StackType'
  BY <1>1, <1>2, <1>3, <1>10 DEF StackType
<1>18. \E i \in DOMAIN history' : order' = history'[i]
  BY <1>1 DEF StackInv
<1> QED
  BY <1>13, <1>14, <1>15, <1>16, <1>17, <1>18 DEF StackInv

\* The order changes: whoever asked already is told an earlier one.
LEMMA StackRestacked ==
  ASSUME StackInv, O!Restack
  PROVE  StackInv'
<1> PICK s : s \in O!Orders /\ history' = Append(history, s)
  BY DEF O!Restack
<1> PICK more : more = IF wm = "valid" THEN <<O!Changed>> ELSE <<>>
  OBVIOUS
<1>1. /\ stackEvents' = IF wm = "valid" THEN Append(stackEvents, O!Changed) ELSE stackEvents
      /\ UNCHANGED <<wm, stackRequests, lists, order>>
  BY DEF O!Restack
<1>2. StackType /\ OwnRequests /\ ListsComplete
  BY DEF StackInv
<1>3. s \in Lists
  <2>1. PICK n \in 0 .. O!Cardinality(Windows) : s \in O!Injection(1 .. n, Windows)
    BY DEF O!Orders
  <2>2. s \in [1 .. n -> Windows] /\ n \in Nat
    BY <2>1 DEF O!Injection
  <2> QED
    BY <2>2 DEF Lists
<1>4. /\ history' \in Seq(Lists) /\ history' # <<>>
      /\ \A i \in DOMAIN history : i \in DOMAIN history' /\ history'[i] = history[i]
  BY <1>2, <1>3 DEF StackType
<1>5. O!Changed \in StackEvents /\ O!Changed.kind = "changed"
  BY DEF O!Changed, StackEvents
<1>6. /\ more \in Seq(StackEvents) /\ stackEvents' = stackEvents \o more
      /\ \A k \in DOMAIN more : more[k].kind = "changed"
  <2> DEFINE c == O!Changed
  <2>1. c \in StackEvents /\ c.kind = "changed" /\ stackEvents \in Seq(StackEvents)
    BY <1>2, <1>5 DEF StackType
  <2>2. /\ stackEvents' = IF wm = "valid" THEN Append(stackEvents, c) ELSE stackEvents
        /\ more = IF wm = "valid" THEN <<c>> ELSE <<>>
    BY <1>1
  <2> HIDE DEF c
  <2>3. /\ <<c>> \in Seq(StackEvents) /\ DOMAIN <<c>> = {1} /\ <<c>>[1] = c
        /\ <<>> \in Seq(StackEvents) /\ DOMAIN <<>> = {}
    BY <2>1
  <2>4. stackEvents \o <<c>> = Append(stackEvents, c) /\ stackEvents \o <<>> = stackEvents
    BY <2>1, <2>3, ConcatOne
  <2> QED
    BY <2>1, <2>2, <2>3, <2>4
<1>7. /\ stackEvents' \in Seq(StackEvents)
      /\ \A k \in DOMAIN stackEvents' :
           \/ k \in DOMAIN stackEvents /\ stackEvents'[k] = stackEvents[k]
           \/ stackEvents'[k].kind = "changed"
  <2>1. stackEvents \in Seq(StackEvents)
    BY <1>2 DEF StackType
  <2>2. \A k \in DOMAIN stackEvents' :
          \/ k \in DOMAIN stackEvents /\ stackEvents'[k] = stackEvents[k]
          \/ k - Len(stackEvents) \in DOMAIN more
             /\ stackEvents'[k] = more[k - Len(stackEvents)]
    BY <1>6, <2>1, Behind
  <2> QED
    BY <1>6, <2>1, <2>2
<1>8. \A o : \A k \in DOMAIN more : ~About(more[k], o)
  BY <1>6 DEF About
<1>9. ASSUME NEW p \in DOMAIN lists, NEW i \in DOMAIN history, Answered(p, history[i])
      PROVE  Answered(p, history[i])'
  <2>1. PICK final : final = history[i] /\ history'[i] = final
    BY <1>4
  <2>2. Answered(p, final)'
    BY <1>1, <1>2, <1>6, <1>8, <1>9, <2>1, AnsweredStill
  <2> QED
    BY <2>1, <2>2
<1>10. ListsComplete'
  <2> SUFFICES ASSUME NEW p \in DOMAIN lists
               PROVE  IF \E i \in DOMAIN stackRequests : stackRequests[i] = p
                      THEN NotYet(p)' ELSE \E i \in DOMAIN history' : Answered(p, history[i])'
    BY <1>1 DEF ListsComplete
  <2>1. NotYet(p) => NotYet(p)'
    BY <1>1, <1>7 DEF NotYet, About
  <2> QED
    BY <1>2, <1>4, <1>9, <2>1 DEF ListsComplete
<1>11. ASSUME wm = "valid" PROVE OrderComes'
  <2> DEFINE n == Len(stackEvents) + 1
  <2>1. n \in DOMAIN stackEvents' /\ stackEvents'[n] = O!Changed
    <3>1. stackEvents \in Seq(StackEvents)
      BY <1>2 DEF StackType
    <3> DEFINE c == O!Changed
    <3>2. stackEvents' = Append(stackEvents, c) /\ c \in StackEvents
      BY <1>1, <1>5, <1>11
    <3> HIDE DEF c
    <3>3. n \in DOMAIN stackEvents' /\ stackEvents'[n] = c
      BY <3>1, <3>2
    <3> QED
      BY <3>3 DEF c
  <2> HIDE DEF n
  <2> QED
    BY <1>5, <2>1 DEF OrderComes
<1>12. \A k \in DOMAIN stackEvents' :
         stackEvents'[k].kind # "changed" => stackEvents'[k].object \in DOMAIN lists'
  BY <1>1, <1>7 DEF StackInv
<1>13. StackType' /\ OwnRequests'
  BY <1>1, <1>2, <1>4, <1>7 DEF StackType, OwnRequests
<1>14. \E i \in DOMAIN history' : order' = history'[i]
  BY <1>1, <1>4 DEF StackInv
<1> QED
  BY <1>1, <1>10, <1>11, <1>12, <1>13, <1>14 DEF StackInv

\* An order is asked for with a list that is empty.
LEMMA StackAsked ==
  ASSUME StackInv, O!Ask, UNCHANGED <<history, order>>,
         \/ UNCHANGED stackEvents
         \/ /\ stackEvents # <<>> /\ stackEvents' = Tail(stackEvents)
            /\ Head(stackEvents).kind = "changed"
  PROVE  StackInv'
<1> PICK new : new = Len(lists) + 1
  OBVIOUS
<1>1. lists' = Append(lists, <<>>) /\ stackRequests' = Append(stackRequests, new)
  BY DEF O!Ask
<1>2. StackType /\ OwnRequests /\ ListsComplete
  BY DEF StackInv
<1>3. /\ lists \in Seq(Lists) /\ stackRequests \in Seq(Nat) /\ stackEvents \in Seq(StackEvents)
      /\ <<>> \in Lists /\ new \in Nat
  BY <1>2 DEF StackType, Lists
<1>4. /\ lists' \in Seq(Lists) /\ new \notin DOMAIN lists /\ new \in DOMAIN lists'
      /\ lists'[new] = <<>> /\ DOMAIN lists' = DOMAIN lists \cup {new}
      /\ \A p \in DOMAIN lists : lists'[p] = lists[p]
  BY <1>1, <1>3
<1> DEFINE n == Len(stackRequests) + 1
<1>5. /\ stackRequests' \in Seq(Nat) /\ n \notin DOMAIN stackRequests
      /\ DOMAIN stackRequests' = DOMAIN stackRequests \cup {n} /\ stackRequests'[n] = new
      /\ \A i \in DOMAIN stackRequests : stackRequests'[i] = stackRequests[i]
  BY <1>1, <1>3
<1> HIDE DEF n
<1>6. OwnRequests'
  BY <1>2, <1>4, <1>5 DEF OwnRequests
<1>7. /\ stackEvents' \in Seq(StackEvents)
      /\ \A k \in DOMAIN stackEvents' :
           \E j \in DOMAIN stackEvents : stackEvents'[k] = stackEvents[j]
  <2>1. CASE UNCHANGED stackEvents
    BY <1>3, <2>1
  <2>2. CASE stackEvents # <<>> /\ stackEvents' = Tail(stackEvents)
    <3>1. stackEvents' \in Seq(StackEvents)
      BY <1>3, <2>2
    <3>2. \A k \in DOMAIN stackEvents' :
            k + 1 \in DOMAIN stackEvents /\ stackEvents'[k] = stackEvents[k + 1]
      BY <1>3, <2>2, TailIndices
    <3> QED
      BY <3>1, <3>2
  <2> QED
    BY <2>1, <2>2
<1>8. \A k \in DOMAIN stackEvents' :
        stackEvents'[k].kind # "changed" => stackEvents'[k].object \in DOMAIN lists
  BY <1>7 DEF StackInv
<1>9. ASSUME NEW p \in DOMAIN lists, NEW i \in DOMAIN history, Answered(p, history[i])
      PROVE  Answered(p, history[i])'
  <2>1. PICK final : final = history[i] /\ history'[i] = final
    OBVIOUS
  <2>2. CASE UNCHANGED stackEvents
    <3>1. lists'[p] = lists[p]
      BY <1>4
    <3> QED
      BY <1>9, <2>1, <2>2, <3>1 DEF Answered
  <2>3. CASE /\ stackEvents # <<>> /\ stackEvents' = Tail(stackEvents)
             /\ Head(stackEvents).kind = "changed"
    <3> PICK e : e = Head(stackEvents)
      OBVIOUS
    <3>1. ~About(e, p) /\ lists'[p] = lists[p]
      BY <1>4, <2>3 DEF About
    <3>2. Answered(p, final)'
      BY <1>2, <1>9, <2>1, <2>3, <3>1, AnsweredTaken
    <3> QED
      BY <2>1, <3>2
  <2> QED
    BY <2>2, <2>3
<1>10. ListsComplete'
  <2> SUFFICES ASSUME NEW p \in DOMAIN lists'
               PROVE  IF \E i \in DOMAIN stackRequests' : stackRequests'[i] = p
                      THEN NotYet(p)' ELSE \E i \in DOMAIN history : Answered(p, history[i])'
    BY DEF ListsComplete
  <2>1. CASE p = new
    <3>1. NotYet(p)'
      BY <1>4, <1>8, <2>1 DEF NotYet, About
    <3>2. n \in DOMAIN stackRequests' /\ stackRequests'[n] = p
      BY <1>5, <2>1
    <3> QED
      BY <3>1, <3>2
  <2>2. CASE p # new
    <3>1. p \in DOMAIN lists /\ lists'[p] = lists[p]
      BY <1>4, <2>2
    <3>2. (\E i \in DOMAIN stackRequests' : stackRequests'[i] = p)
            <=> \E i \in DOMAIN stackRequests : stackRequests[i] = p
      BY <1>5, <2>2
    <3>3. NotYet(p) => NotYet(p)'
      BY <1>7, <3>1 DEF NotYet, About
    <3> QED
      BY <1>2, <1>9, <3>1, <3>2, <3>3 DEF ListsComplete
  <2> QED
    BY <2>1, <2>2
<1>11. OrderComes'
  <2>1. stackRequests' # <<>>
    BY <1>5
  <2> QED
    BY <2>1 DEF OrderComes
<1>12. StackType'
  BY <1>2, <1>4, <1>5, <1>7 DEF StackType
<1> QED
  BY <1>4, <1>6, <1>8, <1>10, <1>11, <1>12 DEF StackInv

\* What is for the management is dropped; it follows nothing any more.
LEMMA StackDropped ==
  ASSUME StackInv, stackEvents' = O!ForLists, wm' # "valid",
         UNCHANGED <<history, stackRequests, lists, order>>
  PROVE  StackInv'
<1> PICK places : places = {k \in DOMAIN stackEvents : stackEvents[k].kind # "changed"}
  OBVIOUS
<1>1. stackEvents' = Kept(stackEvents, places)
  BY StackKeptIs DEF O!ForLists
<1>2. StackType /\ OwnRequests /\ ListsComplete
  BY DEF StackInv
<1>3. /\ stackEvents' \in Seq(StackEvents)
      /\ \A k \in DOMAIN stackEvents' :
           \E j \in DOMAIN stackEvents : stackEvents'[k] = stackEvents[j]
  <2>1. stackEvents \in Seq(StackEvents) /\ places \in SUBSET DOMAIN stackEvents
    BY <1>2 DEF StackType
  <2>2. stackEvents' \in Seq(StackEvents) /\ Within(stackEvents', stackEvents)
    BY <1>1, <2>1, KeptWithin
  <2> QED
    BY <2>2 DEF Within
<1>4. ASSUME NEW p \in DOMAIN lists, NEW i \in DOMAIN history, Answered(p, history[i])
      PROVE  Answered(p, history[i])'
  <2>1. PICK final : final = history[i] /\ history'[i] = final
    OBVIOUS
  <2>2. Answered(p, final)'
    BY <1>1, <1>2, <1>4, <2>1, AnsweredKept
  <2> QED
    BY <2>1, <2>2
<1>5. ListsComplete'
  <2> SUFFICES ASSUME NEW p \in DOMAIN lists
               PROVE  IF \E i \in DOMAIN stackRequests : stackRequests[i] = p
                      THEN NotYet(p)' ELSE \E i \in DOMAIN history : Answered(p, history[i])'
    BY DEF ListsComplete
  <2>1. NotYet(p) => NotYet(p)'
    BY <1>3 DEF NotYet, About
  <2> QED
    BY <1>2, <1>4, <2>1 DEF ListsComplete
<1>6. StackType' /\ OwnRequests'
  BY <1>2, <1>3 DEF StackType, OwnRequests
<1>7. \A k \in DOMAIN stackEvents' :
        stackEvents'[k].kind # "changed" => stackEvents'[k].object \in DOMAIN lists'
  BY <1>3 DEF StackInv
<1> QED
  BY <1>5, <1>6, <1>7 DEF StackInv

\* An object is named a window or is told that there are no more; the list it has
\* then is an order the compositor had, and the newest one is told last.
LEMMA StackTold ==
  ASSUME StackInv, O!stackingOrderWindow \/ O!stackingOrderDone
  PROVE  StackInv'
<1> PICK e : e = Head(stackEvents)
  OBVIOUS
<1> PICK o : o = e.object
  OBVIOUS
<1>1. /\ stackEvents # <<>> /\ stackEvents' = Tail(stackEvents)
      /\ e.kind \in {"window", "done"}
      /\ UNCHANGED <<history, wm, stackRequests>>
  BY DEF O!stackingOrderWindow, O!stackingOrderDone, O!Takes
<1>2. StackType /\ OwnRequests /\ ListsComplete
  BY DEF StackInv
<1>3. /\ stackEvents \in Seq(StackEvents) /\ 1 \in DOMAIN stackEvents /\ e = stackEvents[1]
      /\ lists \in Seq(Lists)
  <2>1. stackEvents \in Seq(StackEvents) /\ lists \in Seq(Lists)
    BY <1>2 DEF StackType
  <2> QED
    BY <1>1, <2>1, TailIndices
<1>4. e \in StackEvents /\ o \in DOMAIN lists
  BY <1>1, <1>3 DEF StackInv
<1>5. \A p : About(e, p) <=> p = o
  BY <1>1 DEF About
<1>6. /\ \A p \in DOMAIN lists :
           lists'[p] = IF About(e, p) /\ e.kind = "window"
                       THEN Append(lists[p], e.window) ELSE lists[p]
      /\ lists' \in Seq(Lists) /\ DOMAIN lists' = DOMAIN lists
  <2>1. CASE O!stackingOrderWindow
    <3> PICK w : w = e.window
      OBVIOUS
    <3>1. e.kind = "window" /\ lists' = [lists EXCEPT ![o] = Append(@, w)]
      BY <2>1 DEF O!stackingOrderWindow, O!Takes
    <3>2. w \in Windows
      BY <1>4, <3>1 DEF StackEvents
    <3>3. lists[o] \in Lists /\ Append(lists[o], w) \in Lists
      <4>1. lists[o] \in Seq(Windows)
        BY <1>3, <1>4 DEF Lists
      <4>2. \A l \in Seq(Windows) : Append(l, w) \in Seq(Windows)
        BY <3>2
      <4> QED
        BY <4>1, <4>2 DEF Lists
    <3> DEFINE l == Append(lists[o], w)
    <3>4. lists' = [lists EXCEPT ![o] = l] /\ l \in Lists
      BY <3>1, <3>3
    <3> HIDE DEF l
    <3>5. lists' \in Seq(Lists) /\ DOMAIN lists' = DOMAIN lists
      BY <1>3, <1>4, <3>4
    <3>6. \A p \in DOMAIN lists : lists'[p] = IF p = o THEN l ELSE lists[p]
      BY <1>4, <3>4
    <3> QED
      BY <1>5, <3>1, <3>5, <3>6 DEF l
  <2>2. CASE O!stackingOrderDone
    <3>1. e.kind = "done" /\ lists' = lists
      BY <2>2 DEF O!stackingOrderDone, O!Takes
    <3> QED
      BY <1>3, <3>1
  <2> QED
    BY <2>1, <2>2
<1>7. \A p \in DOMAIN lists : \A final : Answered(p, final) =>
        /\ Answered(p, final)'
        /\ About(e, p) /\ e.kind # "window" => final = lists[p]
  <2> TAKE p \in DOMAIN lists
  <2> TAKE final
  <2> HAVE Answered(p, final)
  <2>1. lists'[p] = IF About(e, p) /\ e.kind = "window"
                    THEN Append(lists[p], e.window) ELSE lists[p]
    BY <1>6
  <2> QED
    BY <1>1, <1>2, <2>1, AnsweredTaken
<1>8. /\ stackEvents' \in Seq(StackEvents)
      /\ \A k \in DOMAIN stackEvents' :
           k + 1 \in DOMAIN stackEvents /\ stackEvents'[k] = stackEvents[k + 1] /\ k \in Nat
      /\ \A k \in DOMAIN stackEvents : k # 1 =>
           k - 1 \in DOMAIN stackEvents' /\ stackEvents'[k - 1] = stackEvents[k]
  <2>1. stackEvents' \in Seq(StackEvents)
    BY <1>1, <1>3
  <2>2. \A k \in DOMAIN stackEvents' :
           k + 1 \in DOMAIN stackEvents /\ stackEvents'[k] = stackEvents[k + 1] /\ k \in Nat
    BY <1>1, <1>3, TailIndices
  <2>3. \A k \in DOMAIN stackEvents : k # 1 =>
           k - 1 \in DOMAIN stackEvents' /\ stackEvents'[k - 1] = stackEvents[k]
    BY <1>1, <1>3, TailIndices
  <2> QED
    BY <2>1, <2>2, <2>3
<1>9. ~\E i \in DOMAIN stackRequests : stackRequests[i] = o
  BY <1>2, <1>3, <1>4, <1>5 DEF ListsComplete, NotYet
<1>10. PICK i \in DOMAIN history : Answered(o, history[i])
  BY <1>2, <1>4, <1>9 DEF ListsComplete
<1>11. ASSUME NEW p \in DOMAIN lists, NEW j \in DOMAIN history, Answered(p, history[j])
       PROVE  Answered(p, history[j])'
  <2>1. PICK final : final = history[j] /\ history'[j] = final
    BY <1>1
  <2>2. Answered(p, final)'
    BY <1>7, <1>11, <2>1
  <2> QED
    BY <2>1, <2>2
<1>12. ListsComplete'
  <2> SUFFICES ASSUME NEW p \in DOMAIN lists
               PROVE  IF \E j \in DOMAIN stackRequests : stackRequests[j] = p
                      THEN NotYet(p)' ELSE \E j \in DOMAIN history : Answered(p, history[j])'
    BY <1>1, <1>6 DEF ListsComplete
  <2>1. ASSUME NotYet(p) PROVE NotYet(p)'
    <3>1. p # o
      BY <1>3, <1>5, <2>1 DEF NotYet
    <3>2. lists'[p] = lists[p]
      BY <1>5, <1>6, <3>1
    <3> QED
      BY <1>8, <2>1, <3>2 DEF NotYet, About
  <2> QED
    BY <1>2, <1>11, <2>1 DEF ListsComplete
<1>13. /\ e.kind = "window" => order' = order
       /\ e.kind = "done" /\ wm # "deleted" => order' = lists[o]
       /\ order' \in {order, lists[o]}
  BY <1>1 DEF O!stackingOrderWindow, O!stackingOrderDone, O!Takes
<1>14. \E j \in DOMAIN history' : order' = history'[j]
  <2>1. e.kind = "done" => lists[o] = history[i]
    BY <1>4, <1>5, <1>7, <1>10
  <2>2. \E j \in DOMAIN history : order = history[j]
    BY DEF StackInv
  <2>3. order' = order \/ (e.kind = "done" /\ order' = lists[o])
    BY <1>1, <1>13
  <2> QED
    BY <1>1, <1>10, <2>1, <2>2, <2>3
<1>15. ASSUME wm = "valid" PROVE OrderComes'
  <2>1. CASE stackRequests # <<>>
    BY <1>1, <2>1 DEF OrderComes
  <2>2. ASSUME NEW k \in DOMAIN stackEvents, stackEvents[k].kind = "changed"
        PROVE  OrderComes'
    <3>1. k - 1 \in DOMAIN stackEvents' /\ stackEvents'[k - 1].kind = "changed"
      BY <1>1, <1>3, <1>8, <2>2
    <3> QED
      BY <3>1 DEF OrderComes
  <2>3. CASE NoneOf(stackEvents, {"done"}) /\ order = LatestOrder
    <3>1. NoneOf(stackEvents', {"done"}) /\ e.kind # "done"
      BY <1>3, <1>8, <2>3 DEF NoneOf
    <3>2. order' = LatestOrder'
      BY <1>1, <1>13, <2>3, <3>1 DEF LatestOrder
    <3> QED
      BY <3>1, <3>2 DEF OrderComes
  <2>4. ASSUME NEW k \in DOMAIN stackEvents, IsLast(stackEvents, {"done"}, k),
               stackEvents[k].object \in DOMAIN lists,
               Answered(stackEvents[k].object, LatestOrder)
        PROVE  OrderComes'
    <3> PICK p : p = stackEvents[k].object
      OBVIOUS
    <3>1. PICK final : final = LatestOrder /\ final = LatestOrder'
      BY <1>1 DEF LatestOrder
    <3>2. CASE k = 1
      <4>1. e.kind = "done" /\ p = o
        BY <1>3, <2>4, <3>2 DEF IsLast
      <4>2. final = lists[o] /\ order' = lists[o]
        BY <1>4, <1>5, <1>7, <1>13, <1>15, <2>4, <3>1, <4>1
      <4>3. NoneOf(stackEvents', {"done"})
        <5> SUFFICES ASSUME NEW j \in DOMAIN stackEvents', stackEvents'[j].kind = "done"
                     PROVE  FALSE
          BY DEF NoneOf
        <5>1. j + 1 \in DOMAIN stackEvents /\ stackEvents[j + 1].kind = "done" /\ j \in Nat
          BY <1>8
        <5>2. j + 1 <= 1 /\ j # 0
          BY <1>8, <2>4, <3>2, <5>1 DEF IsLast
        <5> QED
          BY <5>1, <5>2
      <4> QED
        BY <3>1, <4>2, <4>3 DEF OrderComes
    <3>3. CASE k # 1
      <4> DEFINE n == k - 1
      <4>1. n \in DOMAIN stackEvents' /\ stackEvents'[n] = stackEvents[k] /\ k \in Nat
        BY <1>3, <1>8, <3>3
      <4>2. IsLast(stackEvents', {"done"}, n)
        <5> SUFFICES ASSUME NEW j \in DOMAIN stackEvents', stackEvents'[j].kind = "done"
                     PROVE  j <= n
          BY <2>4, <4>1 DEF IsLast
        <5>1. j + 1 \in DOMAIN stackEvents /\ stackEvents[j + 1].kind = "done" /\ j \in Nat
          BY <1>8
        <5>2. j + 1 <= k
          BY <2>4, <5>1 DEF IsLast
        <5> QED
          BY <4>1, <5>1, <5>2
      <4>3. Answered(p, final)'
        BY <1>7, <2>4, <3>1
      <4>4. Answered(p, LatestOrder)'
        BY <3>1, <4>3
      <4>5. stackEvents'[n].object = p /\ p \in DOMAIN lists'
        BY <1>6, <2>4, <4>1
      <4> HIDE DEF n
      <4> QED
        BY <4>1, <4>2, <4>4, <4>5 DEF OrderComes
    <3> QED
      BY <3>2, <3>3
  <2> QED
    BY <1>15, <2>1, <2>2, <2>3, <2>4 DEF StackInv, OrderComes
<1>16. StackType'
  BY <1>1, <1>2, <1>6, <1>8 DEF StackType
<1>17. OwnRequests'
  BY <1>1, <1>2, <1>6 DEF OwnRequests
<1>18. \A k \in DOMAIN stackEvents' :
         stackEvents'[k].kind # "changed" => stackEvents'[k].object \in DOMAIN lists'
  BY <1>6, <1>8 DEF StackInv
<1> QED
  BY <1>1, <1>12, <1>14, <1>15, <1>16, <1>17, <1>18 DEF StackInv

LEMMA StackStep ==
  ASSUME StackInv, O!Next
  PROVE  StackInv'
<1>1. CASE O!Restack
  BY <1>1, StackRestacked
<1>2. CASE O!ServeGetStackingOrder
  BY <1>2, StackServed
<1>3. CASE O!Setup
  BY <1>3, StackAsked DEF O!Setup
<1>4. CASE O!Release \/ O!Delete
  <2>1. /\ stackEvents' = O!ForLists /\ wm' # "valid"
        /\ UNCHANGED <<history, stackRequests, lists, order>>
    BY <1>4 DEF O!Release, O!Delete
  <2> QED
    BY <2>1, StackDropped
<1>5. CASE O!stackingOrder2Callback
  BY <1>5, StackAsked DEF O!stackingOrder2Callback, O!Takes
<1>6. CASE O!stackingOrderWindow \/ O!stackingOrderDone
  BY <1>6, StackTold
<1> QED
  BY <1>1, <1>2, <1>3, <1>4, <1>5, <1>6 DEF O!Next

LEMMA StackQuiet ==
  ASSUME StackInv, UNCHANGED stackVars
  PROVE  StackInv'
<1>1. UNCHANGED <<history, wm, stackRequests, stackEvents, lists, order>>
  BY DEF stackVars
<1>2. \A o, final : Answered(o, final)' <=> Answered(o, final)
  BY <1>1 DEF Answered
<1>3. \A o : NotYet(o)' <=> NotYet(o)
  BY <1>1 DEF NotYet
<1>4. LatestOrder' = LatestOrder /\ (StackType' <=> StackType) /\ (OwnRequests' <=> OwnRequests)
  BY <1>1 DEF LatestOrder, StackType, OwnRequests
<1>5. OrderComes => OrderComes'
  BY <1>1, <1>2, <1>4 DEF OrderComes
<1>6. ListsComplete => ListsComplete'
  BY <1>1, <1>2, <1>3 DEF ListsComplete
<1> QED
  BY <1>1, <1>4, <1>5, <1>6 DEF StackInv

LEMMA StackFits == StackInv => O!OrderFollows
<1> SUFFICES ASSUME StackInv PROVE O!OrderFollows
  OBVIOUS
<1>1. order \in O!Range(history)
  BY DEF StackInv, O!Range
<1>2. ASSUME wm = "valid", stackEvents = <<>>, stackRequests = <<>>
      PROVE  order = history[Len(history)]
  BY <1>2 DEF StackInv, OrderComes, LatestOrder
<1> QED
  BY <1>1, <1>2 DEF O!OrderFollows

-----------------------------------------------------------------------------
(* The desktops and the objects for them.                                  *)

LEMMA DesktopOperators ==
  /\ \A s, places : V!Kept(s, places) = Kept(s, places)
  /\ \A places : V!First(places) = First(places)
  /\ \A s, n, x : V!Inserted(s, n, x) = Inserted(s, n, x)
  /\ \A set : V!Listing(set) = Listing(set)
<1>1. \A set : V!Cardinality(set) = Cardinality(set)
  BY DEF V!Cardinality, Cardinality
<1>2. \A places, k : V!Rank(places, k) = Rank(places, k)
  BY <1>1 DEF V!Rank, Rank
<1>3. ASSUME NEW s, NEW places PROVE V!Kept(s, places) = Kept(s, places)
  <2>1. V!Kept(s, places) =
          [n \in 1 .. Cardinality(places) |->
             s[CHOOSE k \in places : V!Rank(places, k) = n]]
    BY <1>1 DEF V!Kept
  <2>2. \A n \in 1 .. Cardinality(places) :
          (CHOOSE k \in places : V!Rank(places, k) = n)
            = (CHOOSE k \in places : Rank(places, k) = n)
    BY <1>2
  <2> QED
    BY <2>1, <2>2 DEF Kept
<1>4. \A f : V!IsInjective(f) <=> IsInjective(f)
  BY DEF V!IsInjective, IsInjective
<1>5. ASSUME NEW set PROVE V!Listing(set) = Listing(set)
  <2>1. V!Listing(set) = CHOOSE f \in [1 .. Cardinality(set) -> set] : V!IsInjective(f)
    BY <1>1 DEF V!Listing
  <2>2. (CHOOSE f \in [1 .. Cardinality(set) -> set] : V!IsInjective(f))
          = (CHOOSE f \in [1 .. Cardinality(set) -> set] : IsInjective(f))
    BY <1>4
  <2> QED
    BY <2>1, <2>2 DEF Listing
<1>6. \A places : V!First(places) = First(places)
  BY DEF V!First, First
<1>7. \A s, n, x : V!Inserted(s, n, x) = Inserted(s, n, x)
  BY DEF V!Inserted, Inserted
<1> QED
  BY <1>3, <1>5, <1>6, <1>7

DeskLists == Seq(Desktops)
ObjectKinds == {"activated", "deactivated"}
ListKinds == {"created", "removed"}
DeskEvents ==
  [kind : ListKinds, of : Desktops, position : Nat]
    \cup [kind : ObjectKinds, of : Nat, position : {0}]
DeskRows == [id : Desktops, active : BOOLEAN, deleted : BOOLEAN]

\* What an event does to the list of identifiers, and to what an object says.
DeskMove(s, e, t) ==
  /\ e.kind = "created" => /\ e.position \in 0 .. Len(s) /\ ~Has(s, e.of)
                           /\ t = Inserted(s, e.position, e.of)
  /\ e.kind = "removed" => Has(s, e.of) /\ t = Less(s, e.of)
  /\ e.kind \in ObjectKinds => t = s
DeskMoves ==
  {move \in DeskLists \X DeskEvents \X DeskLists : DeskMove(move[1], move[2], move[3])}

Tells(e, o) == e.kind \in ObjectKinds /\ e.of = o
ActiveMove(o, x, e, y) == y = IF Tells(e, o) THEN e.kind = "activated" ELSE x
ActiveMoves(o) ==
  {move \in BOOLEAN \X DeskEvents \X BOOLEAN : ActiveMove(o, move[1], move[2], move[3])}

IdsNow == [i \in DOMAIN desktops |-> made[desktops[i]].id]
Going(id) ==
  \E k \in DOMAIN desktopEvents :
    desktopEvents[k].kind = "removed" /\ desktopEvents[k].of = id

\* An object that stays says in the end whether its desktop is active.
SaysActive(o) ==
  ~Going(made[o].id) =>
    Leads(BOOLEAN, ActiveMoves(o), made[o].active, desktopEvents,
          made[o].id \in desktopActive)

DeskType ==
  /\ desktopAnnounced \in DeskLists /\ Apart(desktopAnnounced)
  /\ \A c, d \in desktopActive : c = d
  /\ desktopEvents \in Seq(DeskEvents)
  /\ desktops \in Seq(Nat)
  /\ made \in Seq(DeskRows)

DeskObjects ==
  /\ \A k \in DOMAIN desktopEvents :
       desktopEvents[k].kind \in ObjectKinds => desktopEvents[k].of \in DOMAIN made
  /\ \A i \in DOMAIN desktops :
       desktops[i] \in DOMAIN made /\ ~made[desktops[i]].deleted

DeskList ==
  IF bound THEN Leads(DeskLists, DeskMoves, IdsNow, desktopEvents, desktopAnnounced)
           ELSE desktops = <<>> /\ NoneOf(desktopEvents, ListKinds)

DeskInv ==
  /\ DeskType
  /\ DeskObjects
  /\ Apart(IdsNow)
  /\ \A o \in Nat : Has(desktops, o) => SaysActive(o)
  /\ DeskList

LEMMA DeskMoveIs ==
  ASSUME NEW s, NEW e, NEW t
  PROVE  <<s, e, t>> \in DeskMoves <=>
           s \in DeskLists /\ e \in DeskEvents /\ t \in DeskLists /\ DeskMove(s, e, t)
<1> DEFINE move == <<s, e, t>>
<1>1. move[1] = s /\ move[2] = e /\ move[3] = t
  OBVIOUS
<1>2. move \in DeskLists \X DeskEvents \X DeskLists <=>
        s \in DeskLists /\ e \in DeskEvents /\ t \in DeskLists
  OBVIOUS
<1> HIDE DEF move
<1>3. move \in DeskMoves <=>
        /\ move \in DeskLists \X DeskEvents \X DeskLists
        /\ DeskMove(move[1], move[2], move[3])
  BY DEF DeskMoves
<1> QED
  BY <1>1, <1>2, <1>3 DEF move

LEMMA ActiveMoveIs ==
  ASSUME NEW o, NEW x, NEW e, NEW y
  PROVE  <<x, e, y>> \in ActiveMoves(o) <=>
           x \in BOOLEAN /\ e \in DeskEvents /\ y \in BOOLEAN /\ ActiveMove(o, x, e, y)
<1> DEFINE move == <<x, e, y>>
           states == BOOLEAN
<1> HIDE DEF states
<1>1. move[1] = x /\ move[2] = e /\ move[3] = y
  OBVIOUS
<1>2. move \in states \X DeskEvents \X states <=>
        x \in states /\ e \in DeskEvents /\ y \in states
  OBVIOUS
<1> HIDE DEF move
<1>3. move \in ActiveMoves(o) <=>
        /\ move \in states \X DeskEvents \X states
        /\ ActiveMove(o, move[1], move[2], move[3])
  BY DEF ActiveMoves, states
<1> QED
  BY <1>1, <1>2, <1>3 DEF move, states

LEMMA DeskStarts == V!Init => DeskInv
<1> SUFFICES ASSUME V!Init PROVE DeskInv
  OBVIOUS
<1>1. /\ desktopAnnounced = <<>> /\ desktopActive = {} /\ bound = FALSE
      /\ desktopEvents = <<>> /\ desktops = <<>> /\ made = <<>>
  BY DEF V!Init
<1>2. /\ DOMAIN desktopEvents = {} /\ DOMAIN desktops = {} /\ DOMAIN IdsNow = {}
      /\ DOMAIN desktopAnnounced = {}
  BY <1>1 DEF IdsNow
<1>3. DeskType
  <2>1. desktopAnnounced \in DeskLists
    BY <1>1 DEF DeskLists
  <2>2. desktopEvents \in Seq(DeskEvents) /\ desktops \in Seq(Nat) /\ made \in Seq(DeskRows)
    BY <1>1
  <2> QED
    BY <1>1, <1>2, <2>1, <2>2 DEF DeskType, Apart
<1>4. DeskObjects /\ Apart(IdsNow) /\ DeskList
  BY <1>1, <1>2 DEF DeskObjects, Apart, DeskList, NoneOf
<1>5. \A o : ~Has(desktops, o)
  BY <1>2 DEF Has
<1> QED
  BY <1>3, <1>4, <1>5 DEF DeskInv

\* What does not tell an object leaves what it says; the last that tells it counts.
LEMMA ActiveSame ==
  ASSUME NEW o, NEW more \in Seq(DeskEvents), NEW y \in BOOLEAN,
         \A k \in DOMAIN more : ~Tells(more[k], o)
  PROVE  Leads(BOOLEAN, ActiveMoves(o), y, more, y)
<1>1. \A k \in DOMAIN more : <<y, more[k], y>> \in ActiveMoves(o)
  <2> TAKE k \in DOMAIN more
  <2>1. more[k] \in DeskEvents
    OBVIOUS
  <2>2. ActiveMove(o, y, more[k], y)
    BY DEF ActiveMove
  <2> QED
    BY <2>1, <2>2, ActiveMoveIs
<1> DEFINE moves == ActiveMoves(o)
           states == BOOLEAN
<1>2. y \in states /\ \A k \in DOMAIN more : <<y, more[k], y>> \in moves
  BY <1>1
<1> HIDE DEF moves, states
<1>3. Leads(states, moves, y, more, y)
  BY <1>2, LeadsSame
<1> QED
  BY <1>3 DEF moves, states

LEMMA ActiveTold ==
  ASSUME NEW o, NEW more \in Seq(DeskEvents), NEW y \in BOOLEAN, NEW b \in BOOLEAN,
         \A k \in DOMAIN more : Tells(more[k], o) => (more[k].kind = "activated") = b,
         \E k \in DOMAIN more : Tells(more[k], o)
  PROVE  Leads(BOOLEAN, ActiveMoves(o), y, more, b)
<1> DEFINE places == {k \in DOMAIN more : Tells(more[k], o)}
           n == First(places)
<1>1. Len(more) \in Nat /\ DOMAIN more = 1 .. Len(more) /\ places \in SUBSET (1 .. Len(more))
  BY SeqDomain
<1>2. n \in places /\ \A k \in places : n <= k
  <2>1. places # {}
    OBVIOUS
  <2> HIDE DEF places
  <2> QED
    BY <1>1, <2>1, FirstFacts
<1>3. n \in DOMAIN more /\ Tells(more[n], o) /\ \A k \in DOMAIN more : k < n => ~Tells(more[k], o)
  <2> HIDE DEF n
  <2> QED
    BY <1>1, <1>2
<1> HIDE DEF n, places
<1>4. \A k \in DOMAIN more : more[k] \in DeskEvents
  OBVIOUS
<1>5. <<y, more[n], b>> \in ActiveMoves(o)
  <2>1. ActiveMove(o, y, more[n], b)
    BY <1>3 DEF ActiveMove
  <2> QED
    BY <1>3, <1>4, <2>1, ActiveMoveIs
<1>6. \A k \in DOMAIN more : k < n => <<y, more[k], y>> \in ActiveMoves(o)
  <2> TAKE k \in DOMAIN more
  <2> HAVE k < n
  <2>1. ActiveMove(o, y, more[k], y)
    BY <1>3 DEF ActiveMove
  <2> QED
    BY <1>4, <2>1, ActiveMoveIs
<1>7. \A k \in DOMAIN more : <<b, more[k], b>> \in ActiveMoves(o)
  <2> TAKE k \in DOMAIN more
  <2>1. ActiveMove(o, b, more[k], b)
    BY DEF ActiveMove
  <2> QED
    BY <1>4, <2>1, ActiveMoveIs
<1> DEFINE moves == ActiveMoves(o)
           states == BOOLEAN
<1>8. /\ y \in states /\ b \in states /\ <<y, more[n], b>> \in moves
      /\ \A k \in DOMAIN more : /\ k < n => <<y, more[k], y>> \in moves
                                /\ k > n => <<b, more[k], b>> \in moves
  BY <1>5, <1>6, <1>7
<1> HIDE DEF moves, states
<1>9. Leads(states, moves, y, more, b)
  BY <1>3, <1>8, LeadsOnce
<1> QED
  BY <1>9 DEF moves, states

\* Events for objects change nothing of the list.
LEMMA ListSame ==
  ASSUME NEW s \in DeskLists, NEW more \in Seq(DeskEvents),
         \A k \in DOMAIN more : more[k].kind \in ObjectKinds
  PROVE  Leads(DeskLists, DeskMoves, s, more, s)
<1>1. \A k \in DOMAIN more : <<s, more[k], s>> \in DeskMoves
  <2> TAKE k \in DOMAIN more
  <2>1. more[k] \in DeskEvents
    OBVIOUS
  <2>2. DeskMove(s, more[k], s)
    BY DEF DeskMove, ObjectKinds
  <2> QED
    BY <2>1, <2>2, DeskMoveIs
<1> QED
  BY <1>1, LeadsSame

LEMMA IdsFacts ==
  ASSUME DeskType, DeskObjects
  PROVE  /\ IdsNow \in DeskLists /\ DOMAIN IdsNow = DOMAIN desktops
         /\ DOMAIN desktops = 1 .. Len(desktops) /\ Len(desktops) \in Nat
         /\ Len(IdsNow) = Len(desktops)
         /\ \A i \in DOMAIN desktops :
              /\ desktops[i] \in DOMAIN made /\ made[desktops[i]] \in DeskRows
              /\ IdsNow[i] = made[desktops[i]].id /\ IdsNow[i] \in Desktops
<1>1. /\ DOMAIN desktops = 1 .. Len(desktops) /\ Len(desktops) \in Nat
      /\ \A i \in DOMAIN made : made[i] \in DeskRows
  BY DEF DeskType
<1>2. \A i \in DOMAIN desktops :
        desktops[i] \in DOMAIN made /\ made[desktops[i]] \in DeskRows
  BY <1>1 DEF DeskObjects
<1>3. DOMAIN IdsNow = DOMAIN desktops /\ \A i \in DOMAIN desktops : IdsNow[i] = made[desktops[i]].id
  BY DEF IdsNow
<1>4. \A i \in DOMAIN desktops : IdsNow[i] \in Desktops
  BY <1>2, <1>3 DEF DeskRows
<1>5. IdsNow \in [1 .. Len(desktops) -> Desktops]
  <2>1. IdsNow = [i \in DOMAIN desktops |-> IdsNow[i]]
    BY <1>3 DEF IdsNow
  <2> QED
    BY <1>1, <1>3, <1>4, <2>1
<1>6. IdsNow \in DeskLists /\ Len(IdsNow) = Len(desktops)
  BY <1>1, <1>5 DEF DeskLists
<1> QED
  BY <1>1, <1>2, <1>3, <1>4, <1>6

\* An object that is told what it must say in the end.
LEMMA TellsOn ==
  ASSUME NEW o, SaysActive(o), DeskType,
         NEW more \in Seq(DeskEvents), desktopEvents' = desktopEvents \o more,
         made'[o] = made[o],
         ~Going(made[o].id)' => ~Going(made[o].id),
         ~Going(made[o].id) =>
           Leads(BOOLEAN, ActiveMoves(o), made[o].id \in desktopActive, more,
                 made[o].id \in desktopActive')
  PROVE  SaysActive(o)'
<1> SUFFICES ASSUME ~Going(made[o].id)'
             PROVE  Leads(BOOLEAN, ActiveMoves(o), made[o].active, desktopEvents \o more,
                          made[o].id \in desktopActive')
  BY DEF SaysActive
<1> DEFINE moves == ActiveMoves(o)
           states == BOOLEAN
           was == made[o].id \in desktopActive
           is == made[o].id \in desktopActive'
<1>1. /\ Leads(states, moves, made[o].active, desktopEvents, was)
      /\ Leads(states, moves, was, more, is)
  BY DEF SaysActive
<1>2. desktopEvents \in Seq(DeskEvents)
  BY DEF DeskType
<1> HIDE DEF moves, states, was, is
<1>3. Leads(states, moves, made[o].active, desktopEvents \o more, is)
  BY <1>1, <1>2, LeadsThrough
<1> QED
  BY <1>3 DEF moves, states, was, is

\* The compositor adds a desktop or removes one, and says so to who listens.
LEMMA DeskArranged ==
  ASSUME DeskInv, NEW e \in DeskEvents, e.kind \in ListKinds, NEW list \in DeskLists,
         desktopAnnounced' = list, Apart(list), DeskMove(desktopAnnounced, e, list),
         desktopEvents' = IF bound THEN Append(desktopEvents, e) ELSE desktopEvents,
         desktopActive' \subseteq desktopActive,
         \A id \in desktopActive : id \notin desktopActive' => e.kind = "removed" /\ e.of = id,
         UNCHANGED <<bound, desktops, made>>
  PROVE  DeskInv'
<1> DEFINE es == desktopEvents
<1>1. DeskType /\ DeskObjects /\ es \in Seq(DeskEvents)
  BY DEF DeskInv, DeskType
<1>2. IdsNow' = IdsNow
  BY DEF IdsNow
<1>3. CASE ~bound
  <2>1. es' = es /\ desktops = <<>> /\ NoneOf(es, ListKinds)
    BY <1>3 DEF DeskInv, DeskList
  <2>2. \A o : ~Has(desktops, o)'
    <3>1. DOMAIN desktops' = {}
      BY <2>1
    <3> QED
      BY <3>1 DEF Has
  <2>3. DeskList'
    BY <1>3, <2>1 DEF DeskList, NoneOf
  <2>4. DeskType' /\ DeskObjects'
    BY <1>1, <2>1 DEF DeskType, DeskObjects
  <2>5. Apart(IdsNow)'
    BY <1>2 DEF DeskInv, Apart
  <2> QED
    BY <2>2, <2>3, <2>4, <2>5 DEF DeskInv
<1>4. CASE bound
  <2> DEFINE one == <<e>>
             n == Len(es) + 1
  <2>1. one \in Seq(DeskEvents) /\ DOMAIN one = {1} /\ one[1] = e
    OBVIOUS
  <2>2. desktopEvents' = Append(es, e) /\ es \o one = Append(es, e)
    <3>1. desktopEvents' = Append(es, e)
      BY <1>4
    <3> HIDE DEF es, one
    <3> QED
      BY <1>1, <2>1, <3>1, ConcatOne
  <2>3. /\ desktopEvents' \in Seq(DeskEvents) /\ DOMAIN desktopEvents' = DOMAIN es \cup {n}
        /\ desktopEvents'[n] = e /\ \A k \in DOMAIN es : desktopEvents'[k] = es[k]
    BY <1>1, <2>2
  <2> HIDE DEF n, one
  <2>4. DeskType'
    BY <1>1, <2>3 DEF DeskType
  <2>5. DeskObjects'
    BY <1>1, <2>3 DEF DeskObjects, ListKinds, ObjectKinds
  <2>6. Apart(IdsNow)'
    BY <1>2 DEF DeskInv, Apart
  <2>7. Leads(DeskLists, DeskMoves, IdsNow, Append(es, e), list)
    <3>1. Leads(DeskLists, DeskMoves, IdsNow, es, desktopAnnounced)
      BY <1>4 DEF DeskInv, DeskList
    <3>2. <<desktopAnnounced, e, list>> \in DeskMoves
      BY <1>1, DeskMoveIs DEF DeskType
    <3> HIDE DEF es
    <3> QED
      BY <1>1, <3>1, <3>2, LeadsOn
  <2>8. DeskList'
    BY <1>2, <1>4, <2>2, <2>7 DEF DeskList
  <2>9. ASSUME NEW o \in Nat, Has(desktops, o) PROVE SaysActive(o)'
    <3>1. SaysActive(o)
      BY <2>9 DEF DeskInv
    <3>2. ~Going(made[o].id)' => ~Going(made[o].id) /\ ~(e.kind = "removed" /\ e.of = made[o].id)
      BY <2>3 DEF Going
    <3>3. CASE Going(made[o].id)'
      BY <3>3 DEF SaysActive
    <3>4. CASE ~Going(made[o].id)'
      <4> DEFINE y == made[o].id \in desktopActive
      <4>1. (made[o].id \in desktopActive') = y /\ y \in BOOLEAN
        BY <3>2, <3>4
      <4>2. Leads(BOOLEAN, ActiveMoves(o), y, one, y)
        <5>1. \A k \in DOMAIN one : ~Tells(one[k], o)
          BY <2>1 DEF Tells, ListKinds, ObjectKinds
        <5> HIDE DEF y
        <5> QED
          BY <2>1, <4>1, <5>1, ActiveSame
      <4>3. Leads(BOOLEAN, ActiveMoves(o), made[o].id \in desktopActive, one,
                  made[o].id \in desktopActive')
        BY <4>1, <4>2
      <4> QED
        BY <1>1, <2>1, <2>2, <3>1, <3>2, <4>3, TellsOn
    <3> QED
      BY <3>3, <3>4
  <2>10. \A o \in Nat : Has(desktops, o)' => SaysActive(o)'
    BY <2>9 DEF Has
  <2> QED
    BY <2>4, <2>5, <2>6, <2>8, <2>10 DEF DeskInv
<1> QED
  BY <1>3, <1>4

LEMMA DeskAdded ==
  ASSUME DeskInv, V!AddDesktop
  PROVE  DeskInv'
<1> PICK id \in Desktops \ V!Range(desktopAnnounced), i \in 0 .. Len(desktopAnnounced) :
       /\ desktopAnnounced' = Inserted(desktopAnnounced, i, id)
       /\ desktopEvents' = IF bound THEN Append(desktopEvents, V!Event("created", id, i))
                           ELSE desktopEvents
  BY DesktopOperators DEF V!AddDesktop
<1> PICK e : e = V!Event("created", id, i)
  OBVIOUS
<1> PICK list : list = Inserted(desktopAnnounced, i, id)
  OBVIOUS
<1>1. desktopAnnounced \in Seq(Desktops) /\ Apart(desktopAnnounced)
  BY DEF DeskInv, DeskType, DeskLists
<1>2. Len(desktopAnnounced) \in Nat /\ i \in Nat
  BY <1>1
<1>3. e \in DeskEvents /\ e.kind = "created" /\ e.of = id /\ e.position = i
  BY <1>2 DEF V!Event, DeskEvents, ListKinds
<1>4. ~Has(desktopAnnounced, id)
  BY DEF Has, V!Range
<1>5. list \in DeskLists
  BY <1>1, InsertedFacts DEF DeskLists
<1>6. Apart(list)
  BY <1>1, <1>4, InsertedHas
<1>7. DeskMove(desktopAnnounced, e, list)
  BY <1>3, <1>4 DEF DeskMove, ObjectKinds
<1>8. desktopAnnounced' = list /\ e.kind \in ListKinds
  BY <1>3 DEF ListKinds
<1>9. UNCHANGED <<desktopActive, bound, desktops, made>>
  BY DEF V!AddDesktop
<1> QED
  BY <1>3, <1>5, <1>6, <1>7, <1>8, <1>9, DeskArranged

LEMMA DeskRemoved ==
  ASSUME DeskInv, V!RemoveDesktop
  PROVE  DeskInv'
<1> PICK i \in DOMAIN desktopAnnounced :
       /\ desktopAnnounced' = Kept(desktopAnnounced, DOMAIN desktopAnnounced \ {i})
       /\ desktopActive' = desktopActive \ {desktopAnnounced[i]}
       /\ desktopEvents' = IF bound
            THEN Append(desktopEvents, V!Event("removed", desktopAnnounced[i], 0))
            ELSE desktopEvents
  BY DesktopOperators DEF V!RemoveDesktop
<1> PICK id : id = desktopAnnounced[i]
  OBVIOUS
<1> PICK e : e = V!Event("removed", id, 0)
  OBVIOUS
<1> PICK list : list = Less(desktopAnnounced, id)
  OBVIOUS
<1>1. desktopAnnounced \in Seq(Desktops) /\ Apart(desktopAnnounced)
  BY DEF DeskInv, DeskType, DeskLists
<1>2. id \in Desktops
  BY <1>1
<1>3. e \in DeskEvents /\ e.kind = "removed" /\ e.of = id
  BY <1>2 DEF V!Event, DeskEvents, ListKinds
<1>4. Has(desktopAnnounced, id)
  BY DEF Has
<1>5. list \in DeskLists /\ Apart(list)
  BY <1>1, LessFacts DEF DeskLists
<1>6. DeskMove(desktopAnnounced, e, list)
  BY <1>3, <1>4 DEF DeskMove, ObjectKinds
<1>7. desktopAnnounced' = list
  <2>1. DOMAIN desktopAnnounced \ {i} = {k \in DOMAIN desktopAnnounced : desktopAnnounced[k] # id}
    BY <1>1 DEF Apart
  <2> QED
    BY <2>1 DEF Less
<1>8. UNCHANGED <<bound, desktops, made>>
  BY DEF V!RemoveDesktop
<1>9. e.kind \in ListKinds
  BY <1>3 DEF ListKinds
<1>10. /\ desktopActive' \subseteq desktopActive
       /\ \A d \in desktopActive : d \notin desktopActive' => e.kind = "removed" /\ e.of = d
  BY <1>3
<1>11. desktopEvents' = IF bound THEN Append(desktopEvents, e) ELSE desktopEvents
  OBVIOUS
<1> QED
  BY <1>3, <1>5, <1>6, <1>7, <1>8, <1>9, <1>10, <1>11, DeskArranged

\* Objects are told, and no more than that.
LEMMA DeskTold ==
  ASSUME DeskInv, NEW more \in Seq(DeskEvents), desktopEvents' = desktopEvents \o more,
         \A k \in DOMAIN more : more[k].kind \in ObjectKinds /\ more[k].of \in DOMAIN made',
         UNCHANGED <<desktopAnnounced, bound, desktops>>,
         made' \in Seq(DeskRows),
         \A o \in DOMAIN made : o \in DOMAIN made' /\ made'[o] = made[o],
         \A c, d \in desktopActive' : c = d,
         \A o \in Nat : Has(desktops, o) =>
           Leads(BOOLEAN, ActiveMoves(o), made[o].id \in desktopActive, more,
                 made[o].id \in desktopActive')
  PROVE  DeskInv'
<1> DEFINE es == desktopEvents
<1>1. DeskType /\ DeskObjects /\ es \in Seq(DeskEvents)
  BY DEF DeskInv, DeskType
<1>2. /\ desktopEvents' \in Seq(DeskEvents)
      /\ \A k \in DOMAIN es : k \in DOMAIN desktopEvents' /\ desktopEvents'[k] = es[k]
      /\ \A k \in DOMAIN desktopEvents' :
           \/ k \in DOMAIN es /\ desktopEvents'[k] = es[k]
           \/ \E j \in DOMAIN more : desktopEvents'[k] = more[j]
  <2>1. desktopEvents' \in Seq(DeskEvents)
    BY <1>1
  <2>2. \A k \in DOMAIN es : k \in DOMAIN desktopEvents' /\ desktopEvents'[k] = es[k]
    BY <1>1, Behind
  <2>3. \A k \in DOMAIN desktopEvents' : k \notin DOMAIN es =>
          k - Len(es) \in DOMAIN more /\ desktopEvents'[k] = more[k - Len(es)]
    BY <1>1, Behind
  <2> QED
    BY <2>1, <2>2, <2>3
<1>3. /\ \A i \in DOMAIN desktops : made'[desktops[i]] = made[desktops[i]]
      /\ \A o : Has(desktops, o) => o \in DOMAIN made
  BY <1>1 DEF DeskObjects, Has
<1>4. IdsNow' = IdsNow
  BY <1>3 DEF IdsNow
<1>5. DeskType'
  BY <1>1, <1>2 DEF DeskType
<1>6. DeskObjects'
  <2>1. \A k \in DOMAIN desktopEvents' :
          desktopEvents'[k].kind \in ObjectKinds => desktopEvents'[k].of \in DOMAIN made'
    BY <1>1, <1>2 DEF DeskObjects
  <2>2. \A i \in DOMAIN desktops :
          desktops[i] \in DOMAIN made' /\ ~made'[desktops[i]].deleted
    BY <1>1, <1>3 DEF DeskObjects
  <2> QED
    BY <2>1, <2>2 DEF DeskObjects
<1>7. Apart(IdsNow)'
  BY <1>4 DEF DeskInv, Apart
<1>8. DeskList'
  <2>1. CASE bound
    <3>1. IdsNow \in DeskLists /\ desktopAnnounced \in DeskLists
      BY <1>1, IdsFacts DEF DeskType
    <3>2. Leads(DeskLists, DeskMoves, desktopAnnounced, more, desktopAnnounced)
      BY <3>1, ListSame
    <3>3. Leads(DeskLists, DeskMoves, IdsNow, es, desktopAnnounced)
      BY <2>1 DEF DeskInv, DeskList
    <3>4. Leads(DeskLists, DeskMoves, IdsNow, es \o more, desktopAnnounced)
      <4> HIDE DEF es
      <4> QED
        BY <1>1, <3>2, <3>3, LeadsThrough
    <3> QED
      BY <1>4, <2>1, <3>4 DEF DeskList
  <2>2. CASE ~bound
    <3>1. desktops = <<>> /\ NoneOf(es, ListKinds)
      BY <2>2 DEF DeskInv, DeskList
    <3>2. NoneOf(desktopEvents', ListKinds)
      BY <1>2, <3>1 DEF NoneOf, ListKinds, ObjectKinds
    <3> QED
      BY <2>2, <3>1, <3>2 DEF DeskList
  <2> QED
    BY <2>1, <2>2
<1>9. ASSUME NEW o \in Nat, Has(desktops, o) PROVE SaysActive(o)'
  <2>1. SaysActive(o) /\ made'[o] = made[o]
    BY <1>3, <1>9 DEF DeskInv
  <2>2. ~Going(made[o].id)' => ~Going(made[o].id)
    BY <1>2, <2>1 DEF Going
  <2>3. Leads(BOOLEAN, ActiveMoves(o), made[o].id \in desktopActive, more,
              made[o].id \in desktopActive')
    BY <1>9
  <2> QED
    BY <1>1, <2>1, <2>2, <2>3, TellsOn
<1>10. \A o \in Nat : Has(desktops, o)' => SaysActive(o)'
  BY <1>9 DEF Has
<1> QED
  BY <1>5, <1>6, <1>7, <1>8, <1>10 DEF DeskInv

LEMMA ToldFacts ==
  ASSUME DeskType, NEW verb \in ObjectKinds, NEW id, NEW run, run = V!ToObjects(verb, id)
  PROVE  /\ run \in Seq(DeskEvents)
         /\ \A k \in DOMAIN run :
              /\ run[k].kind = verb /\ run[k].of \in DOMAIN made
              /\ made[run[k].of].id = id
         /\ \A o \in DOMAIN made : made[o].id = id /\ ~made[o].deleted =>
              \E k \in DOMAIN run : run[k].of = o
<1> DEFINE hearers == {o \in DOMAIN made : made[o].id = id /\ ~made[o].deleted}
           all == Listing(hearers)
<1>1. DOMAIN made = 1 .. Len(made) /\ Len(made) \in Nat
  BY DEF DeskType
<1>2. IsFiniteSet(hearers)
  <2>1. IsFiniteSet(1 .. Len(made)) /\ hearers \subseteq 1 .. Len(made)
    BY <1>1, FS_Interval
  <2> HIDE DEF hearers
  <2> QED
    BY <2>1, FS_Subset
<1>3. all \in Seq(hearers) /\ \A o \in hearers : Has(all, o)
  BY <1>2, ListingFacts
<1>4. run = [i \in DOMAIN all |-> V!Event(verb, all[i], 0)]
  BY DesktopOperators DEF V!ToObjects, V!Alive
<1>5. \A o \in hearers : o \in DOMAIN made /\ o \in Nat /\ made[o].id = id
  BY <1>1
<1>6. \A o \in DOMAIN made : made[o].id = id /\ ~made[o].deleted => o \in hearers
  OBVIOUS
<1> HIDE DEF all, hearers
<1>7. /\ DOMAIN all = 1 .. Len(all) /\ Len(all) \in Nat
      /\ \A i \in DOMAIN all : all[i] \in hearers
  BY <1>3
<1>8. \A i \in DOMAIN all :
        /\ run[i] \in DeskEvents /\ run[i].kind = verb /\ run[i].of = all[i]
  <2>1. \A o \in Nat :
          /\ V!Event(verb, o, 0) \in DeskEvents
          /\ V!Event(verb, o, 0).kind = verb /\ V!Event(verb, o, 0).of = o
    BY DEF V!Event, DeskEvents
  <2> QED
    BY <1>4, <1>5, <1>7, <2>1
<1>9. DOMAIN run = DOMAIN all
  BY <1>4
<1>10. run \in Seq(DeskEvents)
  <2>1. run \in [1 .. Len(all) -> DeskEvents]
    BY <1>4, <1>7, <1>8
  <2> QED
    BY <1>7, <2>1
<1> QED
  BY <1>3, <1>5, <1>6, <1>7, <1>8, <1>9, <1>10 DEF Has

LEMMA DeskActivated ==
  ASSUME DeskInv, V!Activate
  PROVE  DeskInv'
<1>a. PICK id \in V!Range(desktopAnnounced) \ desktopActive :
       /\ desktopActive' = {id}
       /\ desktopEvents' = desktopEvents \o
            ((IF desktopActive = {} THEN <<>>
              ELSE V!ToObjects("deactivated", CHOOSE d \in desktopActive : TRUE))
             \o V!ToObjects("activated", id))
  BY DEF V!Activate
<1>b. PICK was : was = CHOOSE d \in desktopActive : TRUE
  OBVIOUS
<1>c. PICK old : old = IF desktopActive = {} THEN <<>> ELSE V!ToObjects("deactivated", was)
  OBVIOUS
<1>d. PICK new : new = V!ToObjects("activated", id)
  OBVIOUS
<1>f. desktopActive' = {id} /\ id \notin desktopActive
  BY <1>a
<1>1. DeskType /\ DeskObjects
  BY DEF DeskInv
<1>2. UNCHANGED <<desktopAnnounced, bound, desktops, made>>
  BY DEF V!Activate
<1>3. desktopActive = {} \/ desktopActive = {was}
  BY <1>b, <1>1 DEF DeskType
<1>4. /\ new \in Seq(DeskEvents)
      /\ \A k \in DOMAIN new :
           /\ new[k].kind = "activated" /\ new[k].of \in DOMAIN made
           /\ made[new[k].of].id = id
      /\ \A o \in DOMAIN made : made[o].id = id /\ ~made[o].deleted =>
           \E k \in DOMAIN new : new[k].of = o
  <2>1. "activated" \in ObjectKinds
    BY DEF ObjectKinds
  <2> QED
    BY <1>d, <1>1, <2>1, ToldFacts
<1>5. /\ old \in Seq(DeskEvents)
      /\ \A k \in DOMAIN old :
           /\ old[k].kind = "deactivated" /\ old[k].of \in DOMAIN made
           /\ made[old[k].of].id = was /\ was \in desktopActive
      /\ \A o \in DOMAIN made : made[o].id \in desktopActive /\ ~made[o].deleted =>
           \E k \in DOMAIN old : old[k].of = o
  <2>1. CASE desktopActive = {}
    <3>1. old = <<>> /\ DOMAIN old = {} /\ <<>> \in Seq(DeskEvents)
      BY <1>c, <2>1
    <3> QED
      BY <2>1, <3>1
  <2>2. CASE desktopActive = {was}
    <3>1. "deactivated" \in ObjectKinds /\ old = V!ToObjects("deactivated", was)
      BY <1>c, <2>2 DEF ObjectKinds
    <3> QED
      BY <1>1, <2>2, <3>1, ToldFacts
  <2> QED
    BY <1>3, <2>1, <2>2
<1>e. PICK more : more = old \o new
  OBVIOUS
<1>6. desktopEvents' = desktopEvents \o more /\ more \in Seq(DeskEvents)
  BY <1>a, <1>b, <1>c, <1>d, <1>e, <1>4, <1>5
<1>7. \A k \in DOMAIN more : more[k].kind \in ObjectKinds /\ more[k].of \in DOMAIN made
  <2>1. \A k \in DOMAIN more :
          \/ k \in DOMAIN old /\ more[k] = old[k]
          \/ k - Len(old) \in DOMAIN new /\ more[k] = new[k - Len(old)]
    BY <1>e, <1>4, <1>5, Behind
  <2> QED
    BY <1>4, <1>5, <2>1 DEF ObjectKinds
<1>8. ASSUME NEW o \in Nat, Has(desktops, o)
      PROVE  Leads(BOOLEAN, ActiveMoves(o), made[o].id \in desktopActive, more,
                   made[o].id \in desktopActive')
  <2>y. PICK y : y = (made[o].id \in desktopActive)
    OBVIOUS
  <2>z. PICK z : z = (made[o].id \in desktopActive')
    OBVIOUS
  <2>1. o \in DOMAIN made /\ ~made[o].deleted /\ y \in BOOLEAN /\ z \in BOOLEAN
    BY <1>1, <1>8, <2>y, <2>z DEF Has, DeskObjects
  <2> DEFINE moves == ActiveMoves(o)
  <2>2. \E m \in BOOLEAN : Leads(BOOLEAN, moves, y, old, m) /\ Leads(BOOLEAN, moves, m, new, z)
    <3>1. CASE made[o].id = id
      <4>1. z = TRUE /\ \A k \in DOMAIN old : ~Tells(old[k], o)
        <5>1. z = TRUE
          BY <1>f, <2>z, <3>1
        <5>2. \A k \in DOMAIN old : made[old[k].of].id # id
          BY <1>f, <1>5, <3>1
        <5> QED
          BY <3>1, <5>1, <5>2 DEF Tells
      <4>2. Leads(BOOLEAN, moves, y, old, y)
        BY <1>5, <2>1, <4>1, ActiveSame
      <4>3. /\ \A k \in DOMAIN new : Tells(new[k], o) => (new[k].kind = "activated") = TRUE
            /\ \E k \in DOMAIN new : Tells(new[k], o)
        BY <1>4, <2>1, <3>1 DEF Tells, ObjectKinds
      <4>4. Leads(BOOLEAN, moves, y, new, TRUE)
        BY <1>4, <2>1, <4>3, ActiveTold
      <4> QED
        BY <2>1, <4>1, <4>2, <4>4
    <3>2. CASE made[o].id # id
      <4>1. z = FALSE /\ \A k \in DOMAIN new : ~Tells(new[k], o)
        <5>1. z = FALSE
          <6>1. ~(made[o].id \in desktopActive')
            BY <1>f, <3>2
          <6>2. (made[o].id \in desktopActive') = FALSE
            BY <6>1
          <6> QED
            BY <2>z, <6>2
        <5> QED
          BY <1>4, <3>2, <5>1 DEF Tells
      <4>2. Leads(BOOLEAN, moves, FALSE, new, FALSE)
        BY <1>4, <4>1, ActiveSame
      <4>3. CASE y = TRUE
        <5>1. /\ \A k \in DOMAIN old : Tells(old[k], o) => (old[k].kind = "activated") = FALSE
              /\ \E k \in DOMAIN old : Tells(old[k], o)
          BY <1>5, <2>1, <2>y, <4>3 DEF Tells, ObjectKinds
        <5>2. Leads(BOOLEAN, moves, y, old, FALSE)
          BY <1>5, <2>1, <5>1, ActiveTold
        <5> QED
          BY <4>1, <4>2, <5>2
      <4>4. CASE y = FALSE
        <5>1. \A k \in DOMAIN old : ~Tells(old[k], o)
          <6>1. \A k \in DOMAIN old : made[old[k].of].id # made[o].id
            BY <1>5, <2>y, <4>4
          <6> QED
            BY <6>1 DEF Tells
        <5>2. Leads(BOOLEAN, moves, FALSE, old, FALSE)
          BY <1>5, <5>1, ActiveSame
        <5> QED
          BY <4>1, <4>2, <4>4, <5>2
      <4> QED
        BY <2>1, <4>3, <4>4
    <3> QED
      BY <3>1, <3>2
  <2> DEFINE states == BOOLEAN
  <2>3. PICK m \in states : Leads(states, moves, y, old, m) /\ Leads(states, moves, m, new, z)
    BY <2>2
  <2> HIDE DEF states, moves
  <2>4. Leads(states, moves, y, more, z)
    BY <1>e, <1>4, <1>5, <2>3, LeadsThrough
  <2> QED
    BY <2>y, <2>z, <2>4 DEF states, moves
<1>9. \A c, d \in desktopActive' : c = d
  BY <1>a
<1>10. made' \in Seq(DeskRows)
  BY <1>1, <1>2 DEF DeskType
<1> QED
  BY <1>2, <1>6, <1>7, <1>8, <1>9, <1>10, DeskTold

\* getVirtualDesktop makes an object that is in no list.
LEMMA DeskObtained ==
  ASSUME DeskInv, V!getVirtualDesktop
  PROVE  DeskInv'
<1> PICK id \in Desktops :
       /\ made' = V!ObjectsWith(id)
       /\ desktopEvents' = IF V!Find(id) = 0
                           THEN desktopEvents \o V!State(V!Obtained(id), id)
                           ELSE desktopEvents
  BY DEF V!getVirtualDesktop
<1>1. DeskType /\ DeskObjects /\ UNCHANGED <<desktopAnnounced, desktopActive, bound, desktops>>
  BY DEF DeskInv, V!getVirtualDesktop
<1>2. \A c, d \in desktopActive' : c = d
  BY <1>1 DEF DeskType
<1>3. CASE V!Find(id) # 0
  <2> PICK more : more = <<>>
    OBVIOUS
  <2>1. more \in Seq(DeskEvents) /\ DOMAIN more = {}
    OBVIOUS
  <2>2. desktopEvents' = desktopEvents \o more
    <3>1. desktopEvents \in Seq(DeskEvents)
      BY <1>1 DEF DeskType
    <3> QED
      BY <1>3, <2>1, <3>1, ConcatNone
  <2>3. made' = made
    BY <1>3 DEF V!ObjectsWith
  <2>4. made' \in Seq(DeskRows)
    BY <1>1, <2>3 DEF DeskType
  <2>5. ASSUME NEW o \in Nat
        PROVE  Leads(BOOLEAN, ActiveMoves(o), made[o].id \in desktopActive, more,
                     made[o].id \in desktopActive')
    <3> PICK y : y = (made[o].id \in desktopActive)
      OBVIOUS
    <3>1. y \in BOOLEAN /\ y = (made[o].id \in desktopActive')
      BY <1>1
    <3>2. Leads(BOOLEAN, ActiveMoves(o), y, more, y)
      BY <2>1, <3>1, ActiveSame
    <3> QED
      BY <3>1, <3>2
  <2> QED
    BY <1>1, <1>2, <2>1, <2>2, <2>3, <2>4, <2>5, DeskTold
<1>4. CASE V!Find(id) = 0
  <2> PICK new : new = Len(made) + 1
    OBVIOUS
  <2> PICK more : more = V!State(new, id)
    OBVIOUS
  <2> PICK row : row = [id |-> id, active |-> FALSE, deleted |-> FALSE]
    OBVIOUS
  <2>1. made' = Append(made, row) /\ desktopEvents' = desktopEvents \o more
    BY <1>4 DEF V!ObjectsWith, V!Obtained
  <2>2. row \in DeskRows /\ made \in Seq(DeskRows)
    BY <1>1 DEF DeskRows, DeskType
  <2>3. /\ made' \in Seq(DeskRows) /\ new \in Nat /\ new \notin DOMAIN made /\ new \in DOMAIN made'
        /\ \A o \in DOMAIN made : o \in DOMAIN made' /\ made'[o] = made[o]
    BY <2>1, <2>2
  <2>4. /\ more \in Seq(DeskEvents)
        /\ \A k \in DOMAIN more : more[k].kind \in ObjectKinds /\ more[k].of = new
    <3> DEFINE e == V!Event(IF id \in desktopActive THEN "activated" ELSE "deactivated", new, 0)
    <3>1. e \in DeskEvents /\ e.kind \in ObjectKinds /\ e.of = new
      BY <2>3 DEF V!Event, DeskEvents, ObjectKinds
    <3>2. more = <<e>> \/ more = <<>>
      BY DEF V!State
    <3> HIDE DEF e
    <3>3. <<e>> \in Seq(DeskEvents) /\ DOMAIN <<e>> = {1} /\ <<e>>[1] = e
          /\ <<>> \in Seq(DeskEvents) /\ DOMAIN <<>> = {}
      BY <3>1
    <3> QED
      BY <3>1, <3>2, <3>3
  <2>5. ASSUME NEW o \in Nat, Has(desktops, o)
        PROVE  Leads(BOOLEAN, ActiveMoves(o), made[o].id \in desktopActive, more,
                     made[o].id \in desktopActive')
    <3> PICK y : y = (made[o].id \in desktopActive)
      OBVIOUS
    <3>1. y \in BOOLEAN /\ y = (made[o].id \in desktopActive')
      BY <1>1
    <3>2. o # new
      BY <1>1, <2>3, <2>5 DEF Has, DeskObjects
    <3>3. Leads(BOOLEAN, ActiveMoves(o), y, more, y)
      BY <2>4, <3>1, <3>2, ActiveSame DEF Tells
    <3> QED
      BY <3>1, <3>3
  <2> QED
    BY <1>1, <1>2, <2>1, <2>3, <2>4, <2>5, DeskTold
<1> QED
  BY <1>3, <1>4

\* The list there is, told desktop by desktop.
LEMMA Introduced ==
  ASSUME DeskType, NEW run, run = V!Introduction
  PROVE  /\ run \in Seq(DeskEvents)
         /\ \A k \in DOMAIN run : run[k].kind = "created"
         /\ Leads(DeskLists, DeskMoves, <<>>, run, desktopAnnounced)
<1> DEFINE list == desktopAnnounced
           n == Len(list)
           part(k) == SubSeq(list, 1, k)
           h == [k \in 0 .. n |-> part(k)]
<1>1. /\ list \in Seq(Desktops) /\ DOMAIN list = 1 .. n /\ n \in Nat
      /\ \A k \in 1 .. n : list[k] \in Desktops
  BY DEF DeskType, DeskLists
<1>2. \A i, j \in 1 .. n : list[i] = list[j] => i = j
  BY <1>1 DEF DeskType, Apart
<1>3. run = [i \in 1 .. n |-> V!Event("created", list[i], i - 1)]
  BY <1>1 DEF V!Introduction
<1> HIDE DEF list
<1>4. \A k \in 1 .. n :
        /\ run[k] \in DeskEvents /\ run[k].kind = "created"
        /\ run[k].of = list[k] /\ run[k].position = k - 1
  BY <1>1, <1>3 DEF V!Event, DeskEvents, ListKinds
<1>5. run \in Seq(DeskEvents) /\ Len(run) = n /\ DOMAIN run = 1 .. n
  <2>1. run \in [1 .. n -> DeskEvents]
    BY <1>3, <1>4
  <2> QED
    BY <1>1, <2>1
<1>6. \A k \in 0 .. n :
        /\ part(k) \in Seq(Desktops) /\ Len(part(k)) = k /\ DOMAIN part(k) = 1 .. k
        /\ \A i \in 1 .. k : part(k)[i] = list[i]
  BY <1>1
<1>7. part(0) = <<>> /\ part(n) = list
  BY <1>1
<1> HIDE DEF n, part
<1>8. h \in [0 .. n -> DeskLists] /\ \A k \in 0 .. n : h[k] = part(k)
  BY <1>6 DEF DeskLists
<1> HIDE DEF h
<1>9. ASSUME NEW k \in 1 .. n PROVE <<h[k - 1], run[k], h[k]>> \in DeskMoves
  <2> PICK b : b = part(k - 1)
    OBVIOUS
  <2> PICK x : x = list[k]
    OBVIOUS
  <2>1. k - 1 \in 0 .. n /\ k \in 0 .. n /\ k - 1 \in Nat
    BY <1>1
  <2>2. /\ b \in Seq(Desktops) /\ Len(b) = k - 1 /\ DOMAIN b = 1 .. k - 1
        /\ \A i \in 1 .. k - 1 : b[i] = list[i]
    BY <1>6, <2>1
  <2>3. x \in Desktops
    BY <1>1
  <2>4. ~Has(b, x)
    BY <1>1, <1>2, <2>1, <2>2 DEF Has
  <2>5. Inserted(b, k - 1, x) = part(k)
    <3>1. /\ DOMAIN Inserted(b, k - 1, x) = 1 .. k
          /\ \A i \in 1 .. k : Inserted(b, k - 1, x)[i] = list[i]
      BY <2>1, <2>2 DEF Inserted
    <3>2. Inserted(b, k - 1, x) \in Seq(Desktops)
      <4>1. k - 1 \in 0 .. Len(b) /\ b \in Seq(Desktops)
        BY <2>1, <2>2
      <4> PICK p : p = k - 1
        OBVIOUS
      <4> QED
        BY <2>3, <4>1, InsertedFacts
    <3>3. Len(Inserted(b, k - 1, x)) = k
      BY <2>1, <3>1, <3>2
    <3> QED
      BY <1>6, <2>1, <3>1, <3>2, <3>3
  <2>6. DeskMove(b, run[k], part(k))
    BY <1>4, <2>1, <2>2, <2>4, <2>5 DEF DeskMove, ObjectKinds
  <2>7. h[k - 1] = b /\ h[k] = part(k) /\ b \in DeskLists /\ part(k) \in DeskLists
    BY <1>6, <1>8, <2>1, <2>2 DEF DeskLists
  <2> QED
    BY <1>4, <2>6, <2>7, DeskMoveIs
<1>10. h[0] = <<>> /\ h[n] = list
  BY <1>1, <1>7, <1>8
<1> QED
  BY <1>1, <1>4, <1>5, <1>8, <1>9, <1>10 DEF Leads, list

LEMMA DeskSetUp ==
  ASSUME DeskInv, V!Setup
  PROVE  DeskInv'
<1>1. /\ ~bound /\ bound' = TRUE /\ desktopEvents' = V!Introduction
      /\ UNCHANGED <<desktopAnnounced, desktopActive, desktops, made>>
  BY DEF V!Setup
<1>2. DeskType /\ DeskObjects /\ desktops = <<>> /\ DOMAIN desktops = {}
  BY <1>1 DEF DeskInv, DeskList
<1>3. /\ desktopEvents' \in Seq(DeskEvents)
      /\ \A k \in DOMAIN desktopEvents' : desktopEvents'[k].kind = "created"
      /\ Leads(DeskLists, DeskMoves, <<>>, desktopEvents', desktopAnnounced)
  BY <1>1, <1>2, Introduced
<1>4. IdsNow = <<>> /\ IdsNow' = IdsNow
  <2>1. IdsNow = [i \in {} |-> made[desktops[i]].id]
    BY <1>2 DEF IdsNow
  <2>2. IdsNow = <<>>
    <3>1. IdsNow \in DeskLists /\ Len(IdsNow) = Len(desktops)
      BY <1>2, IdsFacts
    <3>2. Len(IdsNow) = 0
      BY <1>2, <3>1
    <3> QED
      BY <3>1, <3>2 DEF DeskLists
  <2> QED
    BY <1>1, <2>2 DEF IdsNow
<1>5. DeskType' /\ DeskObjects'
  BY <1>1, <1>2, <1>3 DEF DeskType, DeskObjects, ObjectKinds
<1>6. Apart(IdsNow)'
  BY <1>4 DEF DeskInv, Apart
<1>7. \A o : ~Has(desktops, o)'
  BY <1>1, <1>2 DEF Has
<1>8. DeskList'
  BY <1>1, <1>3, <1>4 DEF DeskList
<1> QED
  BY <1>5, <1>6, <1>7, <1>8 DEF DeskInv

\* What is the same before and after an event that does not tell an object.
LEMMA ActiveTaken ==
  ASSUME NEW o, NEW es \in Seq(DeskEvents), es # <<>>, NEW x, NEW y,
         Leads(BOOLEAN, ActiveMoves(o), x, es, y)
  PROVE  /\ y \in BOOLEAN
         /\ Tells(Head(es), o) =>
              Leads(BOOLEAN, ActiveMoves(o), Head(es).kind = "activated", Tail(es), y)
         /\ ~Tells(Head(es), o) => Leads(BOOLEAN, ActiveMoves(o), x, Tail(es), y)
<1> DEFINE moves == ActiveMoves(o)
           states == BOOLEAN
<1>1. Leads(states, moves, x, es, y)
  OBVIOUS
<1> HIDE DEF moves, states
<1>2. PICK r \in states : <<x, Head(es), r>> \in moves /\ Leads(states, moves, r, Tail(es), y)
  BY <1>1, LeadsFrom
<1>3. ActiveMove(o, x, Head(es), r)
  BY <1>2, ActiveMoveIs DEF moves
<1>4. y \in states
  <2>1. \A h, n : h \in [0 .. n -> states] /\ n \in Nat => h[n] \in states
    OBVIOUS
  <2> QED
    BY <1>1, <2>1 DEF Leads
<1>5. ASSUME Tells(Head(es), o)
      PROVE  Leads(states, moves, Head(es).kind = "activated", Tail(es), y)
  BY <1>2, <1>3, <1>5 DEF ActiveMove
<1>6. ASSUME ~Tells(Head(es), o) PROVE Leads(states, moves, x, Tail(es), y)
  BY <1>2, <1>3, <1>6 DEF ActiveMove
<1> QED
  BY <1>4, <1>5, <1>6 DEF moves, states

\* A desktop that is not removed stays in the list.
LEMMA DeskStays ==
  ASSUME NEW s \in DeskLists, NEW es \in Seq(DeskEvents), NEW t,
         Leads(DeskLists, DeskMoves, s, es, t), NEW id, Has(s, id),
         \A k \in DOMAIN es : ~(es[k].kind = "removed" /\ es[k].of = id)
  PROVE  Has(t, id)
<1> DEFINE P == {l \in DeskLists : Has(l, id)}
<1>1. ASSUME NEW k \in DOMAIN es, NEW x \in P, NEW y \in DeskLists, <<x, es[k], y>> \in DeskMoves
      PROVE  y \in P
  <2>1. /\ DeskMove(x, es[k], y) /\ x \in Seq(Desktops) /\ Has(x, id)
        /\ es[k] \in DeskEvents
    BY <1>1, DeskMoveIs DEF DeskLists
  <2>2. CASE es[k].kind = "created"
    <3>1. es[k].of \in Desktops
      BY <2>1, <2>2 DEF DeskEvents, ObjectKinds
    <3>2. es[k].position \in 0 .. Len(x) /\ y = Inserted(x, es[k].position, es[k].of)
      BY <2>1, <2>2 DEF DeskMove
    <3>3. Has(y, id)
      BY <2>1, <3>1, <3>2, InsertedHas
    <3> QED
      BY <3>3
  <2>3. CASE es[k].kind = "removed"
    <3>1. y = Less(x, es[k].of) /\ es[k].of # id
      BY <2>1, <2>3 DEF DeskMove
    <3>2. Has(y, id)
      BY <2>1, <3>1, LessFacts
    <3> QED
      BY <3>2
  <2>4. CASE es[k].kind \in ObjectKinds
    BY <2>1, <2>4 DEF DeskMove
  <2> QED
    BY <2>1, <2>2, <2>3, <2>4 DEF DeskEvents, ListKinds
<1>2. s \in P
  OBVIOUS
<1> HIDE DEF P
<1>3. \A k \in DOMAIN es : \A x \in P, y \in DeskLists : <<x, es[k], y>> \in DeskMoves => y \in P
  BY <1>1
<1>4. t \in P
  BY <1>2, <1>3, LeadsStays
<1> QED
  BY <1>4 DEF P

\* The first event on its way does to the list what it says.
LEMMA DeskNext ==
  ASSUME DeskInv, desktopEvents # <<>>, NEW e, e = Head(desktopEvents)
  PROVE  /\ e \in DeskEvents
         /\ e.kind \in ListKinds => bound
         /\ bound => \E r \in DeskLists :
              /\ DeskMove(IdsNow, e, r)
              /\ Leads(DeskLists, DeskMoves, r, Tail(desktopEvents), desktopAnnounced)
         /\ Tail(desktopEvents) \in Seq(DeskEvents)
         /\ 1 \in DOMAIN desktopEvents /\ e = desktopEvents[1]
         /\ \A k \in DOMAIN Tail(desktopEvents) :
              k + 1 \in DOMAIN desktopEvents /\ Tail(desktopEvents)[k] = desktopEvents[k + 1]
         /\ \A k \in DOMAIN desktopEvents : k # 1 =>
              k - 1 \in DOMAIN Tail(desktopEvents)
              /\ Tail(desktopEvents)[k - 1] = desktopEvents[k]
<1> PICK es : es = desktopEvents
  OBVIOUS
<1>1. es \in Seq(DeskEvents) /\ es # <<>>
  BY DEF DeskInv, DeskType
<1>2. 1 \in DOMAIN es /\ e = es[1] /\ e \in DeskEvents /\ Tail(es) \in Seq(DeskEvents)
  BY <1>1
<1>3. \A k \in DOMAIN Tail(es) : k + 1 \in DOMAIN es /\ Tail(es)[k] = es[k + 1]
  BY <1>1, TailIndices
<1>4. \A k \in DOMAIN es : k # 1 => k - 1 \in DOMAIN Tail(es) /\ Tail(es)[k - 1] = es[k]
  BY <1>1, TailIndices
<1>5. e.kind \in ListKinds => bound
  BY <1>2 DEF DeskInv, DeskList, NoneOf
<1>6. ASSUME bound
      PROVE  \E r \in DeskLists : /\ DeskMove(IdsNow, e, r)
                                  /\ Leads(DeskLists, DeskMoves, r, Tail(es), desktopAnnounced)
  <2>1. Leads(DeskLists, DeskMoves, IdsNow, es, desktopAnnounced)
    BY <1>6 DEF DeskInv, DeskList
  <2>2. PICK r \in DeskLists : /\ <<IdsNow, Head(es), r>> \in DeskMoves
                              /\ Leads(DeskLists, DeskMoves, r, Tail(es), desktopAnnounced)
    BY <1>1, <2>1, LeadsFrom
  <2> QED
    BY <2>2, DeskMoveIs
<1> QED
  BY <1>2, <1>3, <1>4, <1>5, <1>6

\* createdCallback: the list has one more, and the new object is told its state.
LEMMA DeskCreated ==
  ASSUME DeskInv, V!createdCallback
  PROVE  DeskInv'
<1>a. PICK e : e = Head(desktopEvents)
  OBVIOUS
<1>b. PICK id, place : id = e.of /\ place = e.position
  OBVIOUS
<1>c. PICK new : new = Len(made) + 1
  OBVIOUS
<1>d. PICK more : more = V!State(new, id)
  OBVIOUS
<1>t. PICK rest : rest = Tail(desktopEvents)
  OBVIOUS
<1>r. PICK row : row = [id |-> id, active |-> FALSE, deleted |-> FALSE]
  OBVIOUS
<1>1. /\ desktopEvents # <<>> /\ e.kind = "created"
      /\ UNCHANGED <<desktopAnnounced, desktopActive, bound>>
      /\ desktops' = Inserted(desktops, place, V!Obtained(id))
      /\ made' = V!ObjectsWith(id)
      /\ desktopEvents' = rest \o V!State(V!Obtained(id), id)
  BY <1>a, <1>b, <1>t, DesktopOperators DEF V!createdCallback, V!Takes
<1>2. DeskType /\ DeskObjects /\ Apart(IdsNow)
  BY DEF DeskInv
<1>3. /\ e \in DeskEvents /\ bound /\ rest \in Seq(DeskEvents)
      /\ \A k \in DOMAIN rest : k + 1 \in DOMAIN desktopEvents /\ rest[k] = desktopEvents[k + 1]
      /\ \A k \in DOMAIN desktopEvents : k # 1 =>
           k - 1 \in DOMAIN rest /\ rest[k - 1] = desktopEvents[k]
      /\ 1 \in DOMAIN desktopEvents /\ e = desktopEvents[1]
  <2>1. e.kind \in ListKinds
    BY <1>1 DEF ListKinds
  <2> QED
    BY <1>a, <1>t, <1>1, <2>1, DeskNext
<1>4. PICK list \in DeskLists :
        /\ DeskMove(IdsNow, e, list)
        /\ Leads(DeskLists, DeskMoves, list, rest, desktopAnnounced)
  BY <1>a, <1>t, <1>1, <1>3, DeskNext
<1>5. /\ IdsNow \in DeskLists /\ DOMAIN IdsNow = DOMAIN desktops
      /\ DOMAIN desktops = 1 .. Len(desktops) /\ Len(desktops) \in Nat
      /\ Len(IdsNow) = Len(desktops)
      /\ \A i \in DOMAIN desktops : desktops[i] \in DOMAIN made /\ IdsNow[i] = made[desktops[i]].id
  BY <1>2, IdsFacts
<1>6. /\ id \in Desktops /\ place \in 0 .. Len(desktops) /\ ~Has(IdsNow, id)
      /\ list = Inserted(IdsNow, place, id)
  BY <1>b, <1>1, <1>3, <1>4, <1>5 DEF DeskEvents, DeskMove, ObjectKinds
<1>7. V!Find(id) = 0
  <2>1. {k \in DOMAIN desktops : made[desktops[k]].id = id} = {}
    BY <1>5, <1>6 DEF Has
  <2>2. First({}) = 0
    BY DEF First
  <2> QED
    BY <2>1, <2>2, DesktopOperators DEF V!Find
<1>8. /\ desktops' = Inserted(desktops, place, new) /\ made' = Append(made, row)
      /\ desktopEvents' = rest \o more
  BY <1>c, <1>d, <1>r, <1>1, <1>7 DEF V!Obtained, V!ObjectsWith
<1>9. /\ made' \in Seq(DeskRows) /\ new \in Nat /\ new \notin DOMAIN made /\ new \in DOMAIN made'
      /\ made'[new] = row /\ row.id = id /\ row.active = FALSE /\ ~row.deleted
      /\ \A o \in DOMAIN made : o \in DOMAIN made' /\ made'[o] = made[o] /\ o # new
  <2>1. row \in DeskRows /\ made \in Seq(DeskRows)
    BY <1>r, <1>2, <1>6 DEF DeskRows, DeskType
  <2>2. row.id = id /\ row.active = FALSE /\ ~row.deleted
    BY <1>r
  <2> QED
    BY <1>c, <1>8, <2>1, <2>2
<1>10. desktops \in Seq(Nat)
  BY <1>2 DEF DeskType
<1>11. /\ desktops' \in Seq(Nat) /\ DOMAIN desktops' = 1 .. Len(desktops) + 1
       /\ place + 1 \in DOMAIN desktops' /\ desktops'[place + 1] = new /\ place \in Nat
       /\ \A k \in DOMAIN desktops' :
            /\ k <= place => k \in DOMAIN desktops /\ desktops'[k] = desktops[k]
            /\ k > place + 1 => k - 1 \in DOMAIN desktops /\ desktops'[k] = desktops[k - 1]
  <2>t. PICK t : t = Inserted(desktops, place, new)
    OBVIOUS
  <2> DEFINE numbers == Nat
  <2>n. desktops \in Seq(numbers) /\ new \in numbers /\ place \in 0 .. Len(desktops)
    BY <1>6, <1>9, <1>10
  <2> HIDE DEF numbers
  <2>1. t \in Seq(numbers) /\ DOMAIN t = 1 .. Len(desktops) + 1
    BY <2>t, <2>n, InsertedFacts
  <2>2. place + 1 \in DOMAIN t /\ t[place + 1] = new /\ place \in Nat
    BY <2>t, <2>n, InsertedFacts
  <2>3. \A k \in DOMAIN t :
          /\ k <= place => k \in DOMAIN desktops /\ t[k] = desktops[k]
          /\ k > place + 1 => k - 1 \in DOMAIN desktops /\ t[k] = desktops[k - 1]
    BY <2>t, <2>n, InsertedFacts
  <2>4. desktops' = t
    BY <2>t, <1>8
  <2> QED
    BY <2>1, <2>2, <2>3, <2>4 DEF numbers
<1>12. /\ DOMAIN list = 1 .. Len(desktops) + 1 /\ list[place + 1] = id
       /\ \A k \in DOMAIN list :
            /\ k <= place => k \in DOMAIN desktops /\ list[k] = IdsNow[k]
            /\ k > place + 1 => k - 1 \in DOMAIN desktops /\ list[k] = IdsNow[k - 1]
  <2>1. IdsNow \in Seq(Desktops) /\ place \in 0 .. Len(IdsNow)
    BY <1>5, <1>6 DEF DeskLists
  <2>2. /\ DOMAIN list = 1 .. Len(IdsNow) + 1 /\ list[place + 1] = id
    BY <1>6, <2>1, InsertedFacts
  <2>3. \A k \in DOMAIN list :
          /\ k <= place => k \in DOMAIN IdsNow /\ list[k] = IdsNow[k]
          /\ k > place + 1 => k - 1 \in DOMAIN IdsNow /\ list[k] = IdsNow[k - 1]
    BY <1>6, <2>1, InsertedFacts
  <2> QED
    BY <1>5, <2>2, <2>3
<1>13. IdsNow' = list
  <2>1. \A k \in DOMAIN desktops' : made'[desktops'[k]].id = list[k]
    <3> TAKE k \in DOMAIN desktops'
    <3>1. k <= place \/ k = place + 1 \/ k > place + 1
      BY <1>11
    <3>2. CASE k <= place
      BY <1>5, <1>9, <1>11, <1>12, <3>2
    <3>3. CASE k = place + 1
      BY <1>9, <1>11, <1>12, <3>3
    <3>4. CASE k > place + 1
      BY <1>5, <1>9, <1>11, <1>12, <3>4
    <3> QED
      BY <3>1, <3>2, <3>3, <3>4
  <2>2. list = [k \in 1 .. Len(desktops) + 1 |-> list[k]]
    BY <1>12 DEF DeskLists
  <2> QED
    BY <1>11, <2>1, <2>2 DEF IdsNow
<1>14. /\ more \in Seq(DeskEvents)
       /\ \A k \in DOMAIN more : more[k].kind \in ObjectKinds /\ more[k].of = new
       /\ Has(desktopAnnounced, id) =>
            /\ \E k \in DOMAIN more : TRUE
            /\ \A k \in DOMAIN more : (more[k].kind = "activated") = (id \in desktopActive)
  <2> DEFINE e1 == V!Event(IF id \in desktopActive THEN "activated" ELSE "deactivated", new, 0)
  <2>1. /\ e1 \in DeskEvents /\ e1.kind \in ObjectKinds /\ e1.of = new
        /\ (e1.kind = "activated") = (id \in desktopActive)
    BY <1>9 DEF V!Event, DeskEvents, ObjectKinds
  <2>2. more = IF id \in V!Range(desktopAnnounced) THEN <<e1>> ELSE <<>>
    BY <1>d DEF V!State
  <2>3. id \in V!Range(desktopAnnounced) <=> Has(desktopAnnounced, id)
    BY DEF V!Range, Has
  <2> HIDE DEF e1
  <2>4. <<e1>> \in Seq(DeskEvents) /\ DOMAIN <<e1>> = {1} /\ <<e1>>[1] = e1
        /\ <<>> \in Seq(DeskEvents) /\ DOMAIN <<>> = {}
    BY <2>1
  <2>5. CASE Has(desktopAnnounced, id)
    BY <2>1, <2>2, <2>3, <2>4, <2>5
  <2>6. CASE ~Has(desktopAnnounced, id)
    BY <2>2, <2>3, <2>4, <2>6
  <2> QED
    BY <2>5, <2>6
<1>15. /\ desktopEvents' \in Seq(DeskEvents)
       /\ \A k \in DOMAIN rest : k \in DOMAIN desktopEvents' /\ desktopEvents'[k] = rest[k]
       /\ \A k \in DOMAIN desktopEvents' :
            \/ k \in DOMAIN rest /\ desktopEvents'[k] = rest[k]
            \/ \E j \in DOMAIN more : desktopEvents'[k] = more[j]
  <2>1. desktopEvents' \in Seq(DeskEvents)
    BY <1>3, <1>8, <1>14
  <2>2. \A k \in DOMAIN rest : k \in DOMAIN desktopEvents' /\ desktopEvents'[k] = rest[k]
    BY <1>3, <1>8, <1>14, Behind
  <2>3. \A k \in DOMAIN desktopEvents' : k \notin DOMAIN rest =>
          k - Len(rest) \in DOMAIN more /\ desktopEvents'[k] = more[k - Len(rest)]
    BY <1>3, <1>8, <1>14, Behind
  <2> QED
    BY <2>1, <2>2, <2>3
<1>16. DeskType'
  BY <1>1, <1>2, <1>9, <1>11, <1>15 DEF DeskType
<1>17. \A k \in DOMAIN rest : rest[k].kind \in ObjectKinds => rest[k].of \in DOMAIN made
  BY <1>2, <1>3 DEF DeskObjects
<1>18. DeskObjects'
  <2>1. \A k \in DOMAIN desktopEvents' :
          desktopEvents'[k].kind \in ObjectKinds => desktopEvents'[k].of \in DOMAIN made'
    BY <1>9, <1>14, <1>15, <1>17
  <2>2. \A k \in DOMAIN desktops' : k <= place \/ k = place + 1 \/ k > place + 1
    BY <1>11
  <2>3. \A i \in DOMAIN desktops : desktops[i] \in DOMAIN made /\ ~made[desktops[i]].deleted
    BY <1>2 DEF DeskObjects
  <2>4. \A k \in DOMAIN desktops' :
          desktops'[k] \in DOMAIN made' /\ ~made'[desktops'[k]].deleted
    <3> TAKE k \in DOMAIN desktops'
    <3>1. CASE k = place + 1
      BY <1>9, <1>11, <3>1
    <3>2. CASE k <= place
      BY <1>9, <1>11, <2>3, <3>2
    <3>3. CASE k > place + 1
      BY <1>9, <1>11, <2>3, <3>3
    <3> QED
      BY <2>2, <3>1, <3>2, <3>3
  <2> QED
    BY <2>1, <2>4 DEF DeskObjects
<1>19. Apart(IdsNow)'
  <2>1. IdsNow \in Seq(Desktops) /\ place \in 0 .. Len(IdsNow)
    BY <1>5, <1>6 DEF DeskLists
  <2>2. Apart(list)
    BY <1>2, <1>6, <2>1, InsertedHas
  <2> QED
    BY <1>13, <2>2 DEF Apart
<1>20. DeskList'
  <2>1. desktopAnnounced \in DeskLists
    BY <1>2 DEF DeskType
  <2>2. Leads(DeskLists, DeskMoves, desktopAnnounced, more, desktopAnnounced)
    BY <1>14, <2>1, ListSame
  <2>3. Leads(DeskLists, DeskMoves, list, rest \o more, desktopAnnounced)
    BY <1>3, <1>4, <1>14, <2>2, LeadsThrough
  <2> QED
    BY <1>1, <1>3, <1>8, <1>13, <2>3 DEF DeskList
<1>21. ASSUME NEW o \in Nat, Has(desktops, o) PROVE SaysActive(o)'
  <2>1. o \in DOMAIN made /\ o # new /\ made'[o] = made[o] /\ SaysActive(o)
    BY <1>2, <1>9, <1>21 DEF Has, DeskObjects, DeskInv
  <2> SUFFICES ASSUME ~Going(made[o].id)'
               PROVE  Leads(BOOLEAN, ActiveMoves(o), made[o].active, rest \o more,
                            made[o].id \in desktopActive)
    BY <1>1, <1>8, <2>1 DEF SaysActive
  <2>2. ~Going(made[o].id)
    <3> SUFFICES ASSUME NEW k \in DOMAIN desktopEvents, desktopEvents[k].kind = "removed",
                        desktopEvents[k].of = made[o].id
                 PROVE  FALSE
      BY DEF Going
    <3>1. k # 1
      BY <1>1, <1>3
    <3>2. /\ k - 1 \in DOMAIN desktopEvents' /\ desktopEvents'[k - 1].kind = "removed"
          /\ desktopEvents'[k - 1].of = made[o].id
      BY <1>3, <1>15, <3>1
    <3> QED
      BY <2>1, <3>2 DEF Going
  <2>y. PICK y : y = (made[o].id \in desktopActive)
    OBVIOUS
  <2>3. y \in BOOLEAN /\ Leads(BOOLEAN, ActiveMoves(o), made[o].active, desktopEvents, y)
    BY <2>y, <2>1, <2>2 DEF SaysActive
  <2>4. ~Tells(e, o) /\ desktopEvents \in Seq(DeskEvents)
    BY <1>1, <1>2 DEF Tells, ObjectKinds, DeskType
  <2>5. Leads(BOOLEAN, ActiveMoves(o), made[o].active, rest, y)
    BY <1>a, <1>t, <1>1, <2>3, <2>4, ActiveTaken
  <2>6. Leads(BOOLEAN, ActiveMoves(o), y, more, y)
    BY <1>14, <2>1, <2>3, ActiveSame DEF Tells
  <2> DEFINE moves == ActiveMoves(o)
             states == BOOLEAN
  <2>7. Leads(states, moves, made[o].active, rest, y) /\ Leads(states, moves, y, more, y)
    BY <2>5, <2>6
  <2> HIDE DEF moves, states
  <2>8. Leads(states, moves, made[o].active, rest \o more, y)
    BY <1>3, <1>14, <2>7, LeadsThrough
  <2> QED
    BY <2>y, <2>8 DEF moves, states
<1>22. SaysActive(new)'
  <2> SUFFICES ASSUME ~Going(id)'
               PROVE  Leads(BOOLEAN, ActiveMoves(new), FALSE, rest \o more,
                            id \in desktopActive)
    BY <1>1, <1>8, <1>9 DEF SaysActive
  <2>1. \A k \in DOMAIN rest : ~(rest[k].kind = "removed" /\ rest[k].of = id)
    BY <1>15 DEF Going
  <2>2. Has(list, id)
    <3>1. IdsNow \in Seq(Desktops) /\ place \in 0 .. Len(IdsNow)
      BY <1>5, <1>6 DEF DeskLists
    <3> QED
      BY <1>6, <3>1, InsertedHas
  <2>3. Has(desktopAnnounced, id)
    BY <1>3, <1>4, <2>1, <2>2, DeskStays
  <2>y. PICK y : y = (id \in desktopActive)
    OBVIOUS
  <2>4. y \in BOOLEAN
    BY <2>y
  <2>5. \A k \in DOMAIN rest : ~Tells(rest[k], new)
    BY <1>9, <1>17 DEF Tells
  <2>6. Leads(BOOLEAN, ActiveMoves(new), FALSE, rest, FALSE)
    BY <1>3, <2>5, ActiveSame
  <2>7. /\ \A k \in DOMAIN more : Tells(more[k], new) => (more[k].kind = "activated") = y
        /\ \E k \in DOMAIN more : Tells(more[k], new)
    BY <1>14, <2>3, <2>y DEF Tells
  <2>8. Leads(BOOLEAN, ActiveMoves(new), FALSE, more, y)
    BY <1>14, <2>4, <2>7, ActiveTold
  <2> DEFINE moves == ActiveMoves(new)
             states == BOOLEAN
             none == FALSE
  <2>9. Leads(states, moves, none, rest, none) /\ Leads(states, moves, none, more, y)
    BY <2>6, <2>8
  <2> HIDE DEF moves, states, none
  <2>10. Leads(states, moves, none, rest \o more, y)
    BY <1>3, <1>14, <2>9, LeadsThrough
  <2> QED
    BY <2>y, <2>10 DEF moves, states, none
<1>23. ASSUME NEW o \in Nat, Has(desktops, o)' PROVE SaysActive(o)'
  <2>1. PICK k \in DOMAIN desktops' : desktops'[k] = o
    BY <1>23 DEF Has
  <2>2. k <= place \/ k = place + 1 \/ k > place + 1
    BY <1>11
  <2>3. o = new \/ Has(desktops, o)
    BY <1>11, <2>1, <2>2 DEF Has
  <2> QED
    BY <1>21, <1>22, <2>3
<1> QED
  BY <1>16, <1>18, <1>19, <1>20, <1>23 DEF DeskInv

\* removedCallback: the object of the list is deleted, nothing is told to it any more.
LEMMA DeskDropped ==
  ASSUME DeskInv, V!removedCallback
  PROVE  DeskInv'
<1>a. PICK e : e = Head(desktopEvents)
  OBVIOUS
<1>b. PICK id : id = e.of
  OBVIOUS
<1>c. PICK gone : gone = V!Find(id)
  OBVIOUS
<1>t. PICK rest : rest = Tail(desktopEvents)
  OBVIOUS
<1>p. PICK places : places = {k \in DOMAIN rest : rest[k].kind \in ListKinds \/ rest[k].of # gone}
  OBVIOUS
<1>q. PICK kept : kept = Kept(rest, places)
  OBVIOUS
<1>1. /\ desktopEvents # <<>> /\ e.kind = "removed"
      /\ UNCHANGED <<desktopAnnounced, desktopActive, bound>>
      /\ desktops' = Less(desktops, gone)
      /\ made' = [made EXCEPT ![gone].deleted = TRUE]
      /\ desktopEvents' = kept
  BY <1>a, <1>b, <1>c, <1>t, <1>p, <1>q, DesktopOperators
  DEF V!removedCallback, V!Takes, Less, ListKinds
<1>2. DeskType /\ DeskObjects /\ Apart(IdsNow)
  BY DEF DeskInv
<1>3. /\ e \in DeskEvents /\ bound /\ rest \in Seq(DeskEvents)
      /\ \A k \in DOMAIN rest : k + 1 \in DOMAIN desktopEvents /\ rest[k] = desktopEvents[k + 1]
      /\ \A k \in DOMAIN desktopEvents : k # 1 =>
           k - 1 \in DOMAIN rest /\ rest[k - 1] = desktopEvents[k]
      /\ 1 \in DOMAIN desktopEvents /\ e = desktopEvents[1]
  <2>1. e.kind \in ListKinds
    BY <1>1 DEF ListKinds
  <2> QED
    BY <1>a, <1>t, <1>1, <2>1, DeskNext
<1>4. PICK list \in DeskLists :
        /\ DeskMove(IdsNow, e, list)
        /\ Leads(DeskLists, DeskMoves, list, rest, desktopAnnounced)
  BY <1>a, <1>t, <1>1, <1>3, DeskNext
<1>5. /\ IdsNow \in DeskLists /\ DOMAIN IdsNow = DOMAIN desktops
      /\ DOMAIN desktops = 1 .. Len(desktops) /\ Len(desktops) \in Nat
      /\ \A i \in DOMAIN desktops : desktops[i] \in DOMAIN made /\ IdsNow[i] = made[desktops[i]].id
  BY <1>2, IdsFacts
<1>6. Has(IdsNow, id) /\ list = Less(IdsNow, id)
  BY <1>b, <1>1, <1>4 DEF DeskMove
<1>7. PICK at \in DOMAIN desktops : IdsNow[at] = id /\ gone = desktops[at]
  <2>p. PICK found : found = {k \in DOMAIN desktops : made[desktops[k]].id = id}
    OBVIOUS
  <2>1. found # {} /\ found \in SUBSET (1 .. Len(desktops))
    BY <1>5, <1>6, <2>p DEF Has
  <2>2. First(found) \in found
    BY <1>5, <2>1, FirstFacts
  <2>3. First(found) # 0
    BY <1>5, <2>1, <2>2
  <2>4. V!Find(id) = desktops[First(found)]
    BY <2>p, <2>3, DesktopOperators DEF V!Find
  <2> QED
    BY <1>c, <1>5, <2>p, <2>2, <2>4
<1>8. gone \in DOMAIN made /\ made[gone].id = id
  BY <1>5, <1>7
<1>9. /\ made' \in Seq(DeskRows) /\ DOMAIN made' = DOMAIN made
      /\ \A o \in DOMAIN made : made'[o].id = made[o].id
      /\ \A o \in DOMAIN made : o # gone => made'[o] = made[o]
  <2>1. made \in Seq(DeskRows) /\ made[gone] \in DeskRows
    <3>1. made \in Seq(DeskRows)
      BY <1>2 DEF DeskType
    <3> QED
      BY <1>8, <3>1
  <2>r. PICK row : row = [made[gone] EXCEPT !.deleted = TRUE]
    OBVIOUS
  <2>2. row \in DeskRows /\ row.id = made[gone].id
    BY <2>1, <2>r DEF DeskRows
  <2>3. made' = [made EXCEPT ![gone] = row]
    BY <1>1, <2>r
  <2>4. made' \in Seq(DeskRows) /\ DOMAIN made' = DOMAIN made
    BY <1>8, <2>1, <2>2, <2>3
  <2>5. \A o \in DOMAIN made : made'[o] = IF o = gone THEN row ELSE made[o]
    BY <2>3
  <2> QED
    BY <2>2, <2>4, <2>5
<1>10. \A k \in DOMAIN desktops : desktops[k] # gone <=> IdsNow[k] # id
  BY <1>2, <1>5, <1>7 DEF Apart
<1>11. /\ desktops' \in Seq(Nat)
       /\ \A o : Has(desktops', o) <=> o # gone /\ Has(desktops, o)
  <2>1. desktops \in Seq(Nat)
    BY <1>2 DEF DeskType
  <2>2. Less(desktops, gone) \in Seq(Nat)
    BY <2>1, LessFacts
  <2>3. \A o : Has(Less(desktops, gone), o) <=> o # gone /\ Has(desktops, o)
    BY <2>1, LessFacts
  <2> QED
    BY <1>1, <2>2, <2>3
<1>12. \A k \in DOMAIN desktops' :
         desktops'[k] \in DOMAIN made /\ ~made[desktops'[k]].deleted /\ desktops'[k] # gone
  <2> TAKE k \in DOMAIN desktops'
  <2>1. Has(desktops', desktops'[k])
    BY DEF Has
  <2>2. desktops'[k] # gone /\ Has(desktops, desktops'[k])
    BY <1>11, <2>1
  <2> QED
    BY <1>2, <2>2 DEF Has, DeskObjects
<1>13. IdsNow' = list
  <2>p. PICK left : left = {k \in DOMAIN desktops : desktops[k] # gone}
    OBVIOUS
  <2>1. left = {k \in DOMAIN IdsNow : IdsNow[k] # id}
    BY <1>5, <1>10, <2>p
  <2>2. desktops' = Kept(desktops, left) /\ list = Kept(IdsNow, left)
    BY <1>1, <1>6, <2>p, <2>1 DEF Less
  <2>3. left \in SUBSET DOMAIN desktops /\ desktops \in Seq(Nat)
    BY <1>2, <2>p DEF DeskType
  <2>4. Alike(desktops', desktops, list, IdsNow)
    BY <2>2, <2>3, KeptAlike
  <2>5. /\ DOMAIN desktops' = DOMAIN list
        /\ \A m \in DOMAIN list :
             \E k \in DOMAIN desktops : desktops'[m] = desktops[k] /\ list[m] = IdsNow[k]
    BY <2>4 DEF Alike
  <2>6. \A m \in DOMAIN list : made'[desktops'[m]].id = list[m]
    BY <1>5, <1>9, <2>5
  <2>7. list = [m \in DOMAIN list |-> list[m]]
    BY DEF DeskLists
  <2> QED
    BY <2>5, <2>6, <2>7 DEF IdsNow
<1>14. places \in SUBSET DOMAIN rest
  BY <1>p
<1>15. kept \in Seq(DeskEvents) /\ Within(kept, rest)
  BY <1>q, <1>3, <1>14, KeptWithin
<1>16. DeskType'
  BY <1>1, <1>2, <1>9, <1>11, <1>15 DEF DeskType
<1>17. DeskObjects'
  <2>1. \A k \in DOMAIN rest : rest[k].kind \in ObjectKinds => rest[k].of \in DOMAIN made
    BY <1>2, <1>3 DEF DeskObjects
  <2>2. \A k \in DOMAIN kept : kept[k].kind \in ObjectKinds => kept[k].of \in DOMAIN made
    BY <1>15, <2>1 DEF Within
  <2>3. \A k \in DOMAIN desktops' : ~made'[desktops'[k]].deleted
    BY <1>9, <1>12
  <2> QED
    BY <1>1, <1>9, <1>12, <2>2, <2>3 DEF DeskObjects
<1>18. Apart(IdsNow)'
  <2>1. IdsNow \in Seq(Desktops)
    BY <1>5 DEF DeskLists
  <2>2. Apart(list)
    BY <1>2, <1>6, <2>1, LessFacts
  <2> QED
    BY <1>13, <2>2 DEF Apart
<1>19. DeskList'
  <2>1. \A k \in DOMAIN rest : k \notin places =>
          \A x, y \in DeskLists : <<x, rest[k], y>> \in DeskMoves => x = y
    <3> TAKE k \in DOMAIN rest
    <3> HAVE k \notin places
    <3>1. rest[k].kind \in ObjectKinds
      <4>1. rest[k] \in DeskEvents /\ rest[k].kind \notin ListKinds
        BY <1>p, <1>3
      <4> QED
        BY <4>1 DEF DeskEvents
    <3> TAKE x, y \in DeskLists
    <3> HAVE <<x, rest[k], y>> \in DeskMoves
    <3>2. DeskMove(x, rest[k], y)
      BY DeskMoveIs
    <3> QED
      BY <3>1, <3>2 DEF DeskMove
  <2>2. Leads(DeskLists, DeskMoves, list, kept, desktopAnnounced)
    BY <1>q, <1>3, <1>4, <1>14, <2>1, LeadsKept
  <2> QED
    BY <1>1, <1>3, <1>13, <2>2 DEF DeskList
<1>20. ASSUME NEW o \in Nat, Has(desktops, o), o # gone PROVE SaysActive(o)'
  <2>1. o \in DOMAIN made /\ made'[o] = made[o] /\ SaysActive(o)
    BY <1>2, <1>9, <1>20 DEF Has, DeskObjects, DeskInv
  <2> SUFFICES ASSUME ~Going(made[o].id)'
               PROVE  Leads(BOOLEAN, ActiveMoves(o), made[o].active, kept,
                            made[o].id \in desktopActive)
    BY <1>1, <2>1 DEF SaysActive
  <2>2. made[o].id # id
    <3>1. PICK k \in DOMAIN desktops : desktops[k] = o
      BY <1>20 DEF Has
    <3> QED
      BY <1>5, <1>10, <1>20, <3>1
  <2>3. ~Going(made[o].id)
    <3> SUFFICES ASSUME NEW k \in DOMAIN desktopEvents, desktopEvents[k].kind = "removed",
                        desktopEvents[k].of = made[o].id
                 PROVE  FALSE
      BY DEF Going
    <3>1. k # 1
      BY <1>b, <1>3, <2>2
    <3>2. k - 1 \in DOMAIN rest /\ rest[k - 1] = desktopEvents[k]
      BY <1>3, <3>1
    <3>3. k - 1 \in places
      BY <1>p, <3>2 DEF ListKinds
    <3>4. \E m \in DOMAIN kept : kept[m] = rest[k - 1]
      BY <1>q, <1>3, <1>14, <3>3, KeptCovers
    <3> QED
      BY <1>1, <2>1, <3>2, <3>4 DEF Going
  <2>y. PICK y : y = (made[o].id \in desktopActive)
    OBVIOUS
  <2>4. y \in BOOLEAN /\ Leads(BOOLEAN, ActiveMoves(o), made[o].active, desktopEvents, y)
    BY <2>y, <2>1, <2>3 DEF SaysActive
  <2>5. ~Tells(e, o) /\ desktopEvents \in Seq(DeskEvents)
    BY <1>1, <1>2 DEF Tells, ObjectKinds, DeskType
  <2>6. Leads(BOOLEAN, ActiveMoves(o), made[o].active, rest, y)
    BY <1>a, <1>t, <1>1, <2>4, <2>5, ActiveTaken
  <2>7. \A k \in DOMAIN rest : k \notin places =>
          \A x, z \in BOOLEAN : <<x, rest[k], z>> \in ActiveMoves(o) => x = z
    <3> TAKE k \in DOMAIN rest
    <3> HAVE k \notin places
    <3>1. ~Tells(rest[k], o)
      BY <1>p, <1>20 DEF Tells
    <3> TAKE x, z \in BOOLEAN
    <3> HAVE <<x, rest[k], z>> \in ActiveMoves(o)
    <3>2. ActiveMove(o, x, rest[k], z)
      BY ActiveMoveIs
    <3> QED
      BY <3>1, <3>2 DEF ActiveMove
  <2> DEFINE moves == ActiveMoves(o)
             states == BOOLEAN
  <2>8. /\ Leads(states, moves, made[o].active, rest, y)
        /\ \A k \in DOMAIN rest : k \notin places =>
             \A x, z \in states : <<x, rest[k], z>> \in moves => x = z
    BY <2>6, <2>7
  <2> HIDE DEF moves, states
  <2>9. Leads(states, moves, made[o].active, kept, y)
    BY <1>q, <1>3, <1>14, <2>8, LeadsKept
  <2> QED
    BY <2>y, <2>9 DEF moves, states
<1>21. \A o \in Nat : Has(desktops, o)' => SaysActive(o)'
  <2> SUFFICES ASSUME NEW o \in Nat, Has(desktops, o)' PROVE SaysActive(o)'
    OBVIOUS
  <2>1. Has(desktops', o)
    BY DEF Has
  <2> QED
    BY <1>11, <1>20, <2>1
<1> QED
  BY <1>16, <1>17, <1>18, <1>19, <1>21 DEF DeskInv

\* activatedCallback and deactivatedCallback.
LEMMA DeskHeard ==
  ASSUME DeskInv, V!activeCallback
  PROVE  DeskInv'
<1>a. PICK e : e = Head(desktopEvents)
  OBVIOUS
<1>b. PICK o : o = e.of
  OBVIOUS
<1>c. PICK says : says = (e.kind = "activated")
  OBVIOUS
<1>t. PICK rest : rest = Tail(desktopEvents)
  OBVIOUS
<1>1. /\ desktopEvents # <<>> /\ e.kind \in ObjectKinds
      /\ UNCHANGED <<desktopAnnounced, desktopActive, bound, desktops>>
      /\ made' = [made EXCEPT ![o].active = says]
      /\ desktopEvents' = rest
  BY <1>a, <1>b, <1>c, <1>t DEF V!activeCallback, V!Takes, ObjectKinds
<1>2. DeskType /\ DeskObjects /\ Apart(IdsNow)
  BY DEF DeskInv
<1>3. /\ e \in DeskEvents /\ rest \in Seq(DeskEvents)
      /\ \A k \in DOMAIN rest : k + 1 \in DOMAIN desktopEvents /\ rest[k] = desktopEvents[k + 1]
      /\ \A k \in DOMAIN desktopEvents : k # 1 =>
           k - 1 \in DOMAIN rest /\ rest[k - 1] = desktopEvents[k]
      /\ 1 \in DOMAIN desktopEvents /\ e = desktopEvents[1]
  BY <1>a, <1>t, <1>1, DeskNext
<1>4. o \in DOMAIN made /\ says \in BOOLEAN
  BY <1>b, <1>c, <1>1, <1>2, <1>3 DEF DeskObjects
<1>5. /\ made' \in Seq(DeskRows) /\ DOMAIN made' = DOMAIN made
      /\ \A p \in DOMAIN made :
           /\ made'[p].id = made[p].id /\ made'[p].deleted = made[p].deleted
           /\ made'[p].active = IF p = o THEN says ELSE made[p].active
  <2>1. made \in Seq(DeskRows) /\ made[o] \in DeskRows
    <3>1. made \in Seq(DeskRows)
      BY <1>2 DEF DeskType
    <3> QED
      BY <1>4, <3>1
  <2>r. PICK row : row = [made[o] EXCEPT !.active = says]
    OBVIOUS
  <2>2. /\ row \in DeskRows /\ row.id = made[o].id /\ row.deleted = made[o].deleted
        /\ row.active = says
    BY <1>4, <2>1, <2>r DEF DeskRows
  <2>3. made' = [made EXCEPT ![o] = row]
    BY <1>1, <2>r
  <2>4. made' \in Seq(DeskRows) /\ DOMAIN made' = DOMAIN made
    BY <1>4, <2>1, <2>2, <2>3
  <2>5. \A p \in DOMAIN made : made'[p] = IF p = o THEN row ELSE made[p]
    BY <2>3
  <2> QED
    BY <2>2, <2>4, <2>5
<1>6. \A i \in DOMAIN desktops : desktops[i] \in DOMAIN made /\ ~made[desktops[i]].deleted
  BY <1>2 DEF DeskObjects
<1>7. IdsNow' = IdsNow
  BY <1>1, <1>5, <1>6 DEF IdsNow
<1>8. DeskType'
  BY <1>1, <1>2, <1>3, <1>5 DEF DeskType
<1>9. DeskObjects'
  BY <1>1, <1>2, <1>3, <1>5, <1>6 DEF DeskObjects
<1>10. Apart(IdsNow)'
  BY <1>2, <1>7 DEF Apart
<1>11. DeskList'
  <2>1. CASE bound
    <3>1. PICK r \in DeskLists : /\ DeskMove(IdsNow, e, r)
                                /\ Leads(DeskLists, DeskMoves, r, rest, desktopAnnounced)
      BY <1>a, <1>t, <1>1, <2>1, DeskNext
    <3>2. r = IdsNow
      BY <1>1, <3>1 DEF DeskMove
    <3> QED
      BY <1>1, <1>7, <2>1, <3>1, <3>2 DEF DeskList
  <2>2. CASE ~bound
    <3>1. desktops = <<>> /\ NoneOf(desktopEvents, ListKinds)
      BY <2>2 DEF DeskInv, DeskList
    <3>2. NoneOf(rest, ListKinds)
      BY <1>3, <3>1 DEF NoneOf
    <3> QED
      BY <1>1, <2>2, <3>1, <3>2 DEF DeskList
  <2> QED
    BY <2>1, <2>2
<1>12. ASSUME NEW p \in Nat, Has(desktops, p) PROVE SaysActive(p)'
  <2>1. p \in DOMAIN made /\ SaysActive(p)
    BY <1>6, <1>12 DEF Has, DeskInv
  <2>x. PICK x : x = IF p = o THEN says ELSE made[p].active
    OBVIOUS
  <2>2. made'[p].id = made[p].id /\ made'[p].active = x
    BY <1>5, <2>x, <2>1
  <2> SUFFICES ASSUME ~Going(made[p].id)'
               PROVE  Leads(BOOLEAN, ActiveMoves(p), x, rest, made[p].id \in desktopActive)
    BY <1>1, <2>2 DEF SaysActive
  <2>3. ~Going(made[p].id)
    <3> SUFFICES ASSUME NEW k \in DOMAIN desktopEvents, desktopEvents[k].kind = "removed",
                        desktopEvents[k].of = made[p].id
                 PROVE  FALSE
      BY DEF Going
    <3>1. k # 1
      BY <1>1, <1>3 DEF ObjectKinds
    <3>2. k - 1 \in DOMAIN rest /\ rest[k - 1] = desktopEvents[k]
      BY <1>3, <3>1
    <3> QED
      BY <1>1, <2>2, <3>2 DEF Going
  <2>y. PICK y : y = (made[p].id \in desktopActive)
    OBVIOUS
  <2>4. Leads(BOOLEAN, ActiveMoves(p), made[p].active, desktopEvents, y)
    BY <2>y, <2>1, <2>3 DEF SaysActive
  <2>5. desktopEvents \in Seq(DeskEvents)
    BY <1>2 DEF DeskType
  <2>6. Leads(BOOLEAN, ActiveMoves(p), x, rest, y)
    <3>1. CASE p = o
      <4>1. Tells(e, p)
        BY <1>b, <1>1, <3>1 DEF Tells
      <4>2. Leads(BOOLEAN, ActiveMoves(p), e.kind = "activated", rest, y)
        BY <1>a, <1>t, <1>1, <2>4, <2>5, <4>1, ActiveTaken
      <4>3. x = (e.kind = "activated")
        BY <1>c, <2>x, <3>1
      <4> QED
        BY <4>2, <4>3
    <3>2. CASE p # o
      <4>1. ~Tells(e, p)
        BY <1>b, <3>2 DEF Tells
      <4>2. Leads(BOOLEAN, ActiveMoves(p), made[p].active, rest, y)
        BY <1>a, <1>t, <1>1, <2>4, <2>5, <4>1, ActiveTaken
      <4> QED
        BY <2>x, <3>2, <4>2
    <3> QED
      BY <3>1, <3>2
  <2> QED
    BY <2>y, <2>6
<1>13. \A p \in Nat : Has(desktops, p)' => SaysActive(p)'
  BY <1>1, <1>12 DEF Has
<1> QED
  BY <1>8, <1>9, <1>10, <1>11, <1>13 DEF DeskInv

LEMMA DeskStep ==
  ASSUME DeskInv, V!Next
  PROVE  DeskInv'
BY DeskAdded, DeskRemoved, DeskActivated, DeskSetUp, DeskObtained, DeskCreated, DeskDropped,
   DeskHeard DEF V!Next

LEMMA DeskQuiet ==
  ASSUME DeskInv, UNCHANGED desktopVars
  PROVE  DeskInv'
<1>1. UNCHANGED <<desktopAnnounced, desktopActive, bound, desktopEvents, desktops, made>>
  BY DEF desktopVars
<1>2. IdsNow' = IdsNow /\ \A id : Going(id)' <=> Going(id)
  BY <1>1 DEF IdsNow, Going
<1>3. \A o : SaysActive(o)' <=> SaysActive(o)
  BY <1>1, <1>2 DEF SaysActive
<1>4. DeskType' /\ DeskObjects' /\ Apart(IdsNow)' /\ DeskList'
  BY <1>1, <1>2 DEF DeskInv, DeskType, DeskObjects, Apart, DeskList
<1>5. \A o : Has(desktops, o)' <=> Has(desktops, o)
  BY <1>1 DEF Has
<1> QED
  BY <1>3, <1>4, <1>5 DEF DeskInv

LEMMA DeskFits == DeskInv => V!ListEventsFit /\ V!ListFollows /\ V!ListIsLive
<1> SUFFICES ASSUME DeskInv PROVE V!ListEventsFit /\ V!ListFollows /\ V!ListIsLive
  OBVIOUS
<1>1. DeskType /\ DeskObjects /\ Apart(IdsNow)
  BY DEF DeskInv
<1>2. /\ IdsNow \in DeskLists /\ DOMAIN IdsNow = DOMAIN desktops
      /\ DOMAIN desktops = 1 .. Len(desktops) /\ Len(desktops) \in Nat
      /\ Len(IdsNow) = Len(desktops)
      /\ \A i \in DOMAIN desktops : desktops[i] \in DOMAIN made /\ IdsNow[i] = made[desktops[i]].id
  BY <1>1, IdsFacts
<1>3. V!ListIsLive
  <2>1. \A i, j \in DOMAIN desktops : desktops[i] = desktops[j] => i = j
    BY <1>1, <1>2 DEF Apart
  <2> QED
    BY <1>1, <2>1 DEF V!ListIsLive, V!IsInjective, DeskObjects
<1>4. V!ListEventsFit
  <2> SUFFICES ASSUME desktopEvents # <<>>
               PROVE  /\ Head(desktopEvents).kind = "created" =>
                           Head(desktopEvents).position <= Len(desktops)
                      /\ Head(desktopEvents).kind = "removed" =>
                           V!Find(Head(desktopEvents).of) # 0
    BY DEF V!ListEventsFit
  <2>e. PICK e : e = Head(desktopEvents)
    OBVIOUS
  <2>1. e \in DeskEvents /\ (e.kind \in ListKinds => \E r : DeskMove(IdsNow, e, r))
    BY <2>e, DeskNext
  <2>2. ASSUME e.kind = "created" PROVE e.position <= Len(desktops)
    <3>1. e.position \in 0 .. Len(IdsNow)
      BY <2>1, <2>2 DEF ListKinds, DeskMove
    <3> QED
      BY <1>2, <3>1
  <2>3. ASSUME e.kind = "removed" PROVE V!Find(e.of) # 0
    <3>1. Has(IdsNow, e.of)
      BY <2>1, <2>3 DEF ListKinds, DeskMove
    <3>p. PICK found : found = {k \in DOMAIN desktops : made[desktops[k]].id = e.of}
      OBVIOUS
    <3>2. found # {} /\ found \in SUBSET (1 .. Len(desktops))
      BY <1>2, <3>p, <3>1 DEF Has
    <3>3. First(found) \in found
      BY <1>2, <3>2, FirstFacts
    <3>4. First(found) # 0 /\ First(found) \in DOMAIN desktops
      BY <1>2, <3>2, <3>3
    <3>5. V!Find(e.of) = desktops[First(found)]
      BY <3>p, <3>4, DesktopOperators DEF V!Find
    <3>6. DOMAIN made = 1 .. Len(made) /\ Len(made) \in Nat
      BY <1>1 DEF DeskType
    <3> QED
      BY <1>2, <3>4, <3>5, <3>6
  <2> QED
    BY <2>e, <2>2, <2>3
<1>5. V!ListFollows
  <2> SUFFICES ASSUME bound, desktopEvents = <<>>
               PROVE  /\ IdsNow = desktopAnnounced
                      /\ \A i \in DOMAIN desktops :
                           made[desktops[i]].active = (desktopAnnounced[i] \in desktopActive)
    BY DEF V!ListFollows, V!Ids, IdsNow
  <2>1. IdsNow = desktopAnnounced
    <3>1. Leads(DeskLists, DeskMoves, IdsNow, <<>>, desktopAnnounced)
      BY DEF DeskInv, DeskList
    <3> QED
      BY <1>2, <3>1, LeadsNowhere
  <2>2. ASSUME NEW i \in DOMAIN desktops
        PROVE  made[desktops[i]].active = (desktopAnnounced[i] \in desktopActive)
    <3>o. PICK o : o = desktops[i]
      OBVIOUS
    <3>1. made \in Seq(DeskRows) /\ o \in DOMAIN made /\ o \in Nat
      BY <1>1, <1>2, <3>o DEF DeskType
    <3>2. made[o].active \in BOOLEAN
      <4>1. made[o] \in DeskRows
        BY <3>1
      <4> QED
        BY <4>1 DEF DeskRows
    <3>3. SaysActive(o) /\ ~Going(made[o].id)
      <4>1. Has(desktops, o)
        BY <3>o DEF Has
      <4>2. DOMAIN desktopEvents = {}
        OBVIOUS
      <4> QED
        BY <3>1, <4>1, <4>2 DEF DeskInv, Going
    <3>4. Leads(BOOLEAN, ActiveMoves(o), made[o].active, <<>>, made[o].id \in desktopActive)
      BY <3>3 DEF SaysActive
    <3>5. made[o].active = (made[o].id \in desktopActive)
      BY <3>2, <3>4, LeadsNowhere
    <3> QED
      BY <1>2, <2>1, <3>o, <3>5
  <2> QED
    BY <2>1, <2>2
<1> QED
  BY <1>3, <1>4, <1>5

-----------------------------------------------------------------------------
ListsLooked ==
  /\ component = "VirtualDesktops" => DeskInv
  /\ component = "StackingOrder" => StackInv
  /\ component = "PlasmaShell" => PlasmaInv
  /\ component = "WindowAttributes" => WindowInv

LEMMA ListsStart == ViewsInit => ListsLooked
BY DeskStarts, StackStarts, PlasmaStarts, WindowStarts DEF ViewsInit, ListsLooked

LEMMA ListsGoOn == ListsLooked /\ [ViewsNext]_<<component, viewVars>> => ListsLooked'
<1> SUFFICES ASSUME ListsLooked, [ViewsNext]_<<component, viewVars>> PROVE ListsLooked'
  OBVIOUS
<1>1. ASSUME component' = "VirtualDesktops" PROVE DeskInv'
  <2>1. component = "VirtualDesktops" /\ (V!Next \/ UNCHANGED desktopVars)
    BY <1>1 DEF ViewsNext, viewVars
  <2>2. DeskInv
    BY <2>1 DEF ListsLooked
  <2> QED
    BY <2>1, <2>2, DeskStep, DeskQuiet
<1>2. ASSUME component' = "StackingOrder" PROVE StackInv'
  <2>1. component = "StackingOrder" /\ (O!Next \/ UNCHANGED stackVars)
    BY <1>2 DEF ViewsNext, viewVars
  <2>2. StackInv
    BY <2>1 DEF ListsLooked
  <2> QED
    BY <2>1, <2>2, StackStep, StackQuiet
<1>3. ASSUME component' = "PlasmaShell" PROVE PlasmaInv'
  <2>1. component = "PlasmaShell" /\ (S!Next \/ UNCHANGED plasmaVars)
    BY <1>3 DEF ViewsNext, viewVars
  <2>2. PlasmaInv
    BY <2>1 DEF ListsLooked
  <2> QED
    BY <2>1, <2>2, PlasmaStep, PlasmaQuiet
<1>4. ASSUME component' = "WindowAttributes" PROVE WindowInv'
  <2>1. component = "WindowAttributes" /\ (A!Next \/ UNCHANGED windowVars)
    BY <1>4 DEF ViewsNext, viewVars
  <2>2. WindowInv
    BY <2>1 DEF ListsLooked
  <2>3. CASE A!Next
    <3>1. WindowType'
      BY <2>2, <2>3, WindowTyped DEF WindowInv
    <3> QED
      BY <2>2, <2>3, <3>1, WindowStep
  <2>4. CASE UNCHANGED windowVars
    BY <2>2, <2>4, WindowQuiet
  <2> QED
    BY <2>1, <2>3, <2>4
<1> QED
  BY <1>1, <1>2, <1>3, <1>4 DEF ListsLooked

\* The list of desktops and what its objects say, the order of the windows, the objects
\* of the shell and the attributes of a window are the compositor's once everything has
\* arrived, whatever is asked for meanwhile; on the way there no event of the desktops
\* misses its place (createdCallback, removedCallback, stackingOrderDone,
\* PlasmaShell::createSurface, PlasmaWindow's callbacks).
THEOREM ListsAlwaysFollow == ViewsSpec => []ListsFollow
<1>1. ListsLooked => ListsFollow
  BY DeskFits, StackFits, PlasmaFits, WindowFits DEF ListsLooked, ListsFollow
<1> QED
  BY <1>1, ListsStart, ListsGoOn, PTL DEF ViewsSpec

-----------------------------------------------------------------------------
(* The types of the states.  The invariants above say what there is; what  *)
(* is left are the bounds of the instance and values no other part is      *)
(* related to.                                                             *)

\* The rest of the shell's objects.
PlasmaRest ==
  /\ shell \in {"unset", "valid", "ended"} /\ created \in BOOLEAN
  /\ Len(plasmaSurfaces) <= MaxSurfaces /\ Len(shellSurfaces) <= MaxShellSurfaces
  /\ given \in [surface : 0 .. MaxSurfaces, object : 0 .. MaxShellSurfaces]

LEMMA PlasmaRestStarts == S!Init => PlasmaRest
<1> SUFFICES ASSUME S!Init PROVE PlasmaRest
  OBVIOUS
<1>1. MaxSurfaces \in Nat /\ MaxShellSurfaces \in Nat
  BY ViewsAssumption
<1>2. plasmaSurfaces = <<>> /\ shellSurfaces = <<>> /\ shell = "unset" /\ created = FALSE
      /\ given = [surface |-> 0, object |-> 0]
  BY DEF S!Init, S!None
<1>3. Len(plasmaSurfaces) = 0 /\ Len(shellSurfaces) = 0
  BY <1>2
<1>4. given \in [surface : 0 .. MaxSurfaces, object : 0 .. MaxShellSurfaces]
  BY <1>1, <1>2
<1>5. Len(plasmaSurfaces) <= MaxSurfaces /\ Len(shellSurfaces) <= MaxShellSurfaces
  BY <1>1, <1>3
<1> QED
  BY <1>2, <1>4, <1>5 DEF PlasmaRest

LEMMA PlasmaTypes == ASSUME PlasmaInv, PlasmaRest PROVE S!TypeOK
<1>1. /\ MaxSurfaces \in Nat /\ MaxShellSurfaces \in Nat
      /\ DOMAIN plasmaSurfaces = 1 .. Len(plasmaSurfaces) /\ Len(plasmaSurfaces) \in Nat
      /\ shellSurfaces \in Seq(ShellRows)
  BY ViewsAssumption DEF PlasmaInv
<1>2. ASSUME NEW o \in DOMAIN shellSurfaces PROVE shellSurfaces[o] \in S!ShellSurfaces
  <2> DEFINE row == shellSurfaces[o]
  <2>1. row \in ShellRows /\ PointsBack(row)
    BY <1>1 DEF PlasmaInv
  <2> HIDE DEF row
  <2>2. row.madeFor = 0 \/ row.madeFor \in 1 .. Len(plasmaSurfaces)
    BY <1>1, <2>1 DEF PointsBack
  <2>3. row.parentSurface = 0 \/ row.parentSurface = row.madeFor
    BY <2>1 DEF PointsBack
  <2>4. row.madeFor \in 0 .. MaxSurfaces /\ row.parentSurface \in 0 .. MaxSurfaces
    BY <1>1, <2>2, <2>3 DEF PlasmaRest
  <2>5. row \in S!ShellSurfaces
    BY <2>1, <2>4 DEF ShellRows, S!ShellSurfaces
  <2> QED
    BY <2>5 DEF row
<1>3. shellSurfaces \in Seq(S!ShellSurfaces)
  BY <1>1, <1>2
<1> QED
  BY <1>3 DEF PlasmaInv, PlasmaRest, S!TypeOK

LEMMA PlasmaRestStep == ASSUME PlasmaInv, PlasmaRest, S!Next PROVE PlasmaRest'
<1>1. /\ MaxSurfaces \in Nat /\ MaxShellSurfaces \in Nat
      /\ plasmaSurfaces \in Seq([address : Addresses, exists : BOOLEAN])
      /\ shellSurfaces \in Seq(ShellRows)
      /\ Len(plasmaSurfaces) \in Nat /\ Len(shellSurfaces) \in Nat
  BY ViewsAssumption DEF PlasmaInv
<1>2. CASE S!CreateSurface
  <2>1. PICK row : plasmaSurfaces' = Append(plasmaSurfaces, row)
    BY <1>2 DEF S!CreateSurface
  <2>2. Len(plasmaSurfaces') = Len(plasmaSurfaces) + 1
    BY <1>1, <2>1
  <2> QED
    BY <1>1, <1>2, <2>2 DEF S!CreateSurface, PlasmaRest
<1>3. CASE S!DeleteSurface
  <2>1. PICK s : /\ plasmaSurfaces' = [plasmaSurfaces EXCEPT ![s].exists = FALSE]
                 /\ shellSurfaces' = S!CleanedOf(s)
    BY <1>3 DEF S!DeleteSurface
  <2>2. Len(plasmaSurfaces') = Len(plasmaSurfaces)
    BY <1>1, <2>1
  <2>3. DOMAIN shellSurfaces' = 1 .. Len(shellSurfaces)
    BY <1>1, <2>1 DEF S!CleanedOf
  <2>4. Len(shellSurfaces') = Len(shellSurfaces)
    BY <1>1, <2>3
  <2> QED
    BY <1>3, <2>2, <2>4 DEF S!DeleteSurface, PlasmaRest
<1>4. CASE S!EndShell
  <2>1. DOMAIN shellSurfaces' = 1 .. Len(shellSurfaces)
    BY <1>1, <1>4 DEF S!EndShell
  <2>2. Len(shellSurfaces') = Len(shellSurfaces)
    BY <1>1, <2>1
  <2> QED
    BY <1>4, <2>2 DEF S!EndShell, PlasmaRest
<1>5. CASE S!createSurface
  <2>1. PICK s \in {0} \cup {t \in DOMAIN plasmaSurfaces : plasmaSurfaces[t].exists} :
          \/ /\ given' = [surface |-> s, object |-> S!Found(s)] /\ S!Found(s) # 0
             /\ created' = FALSE /\ UNCHANGED shellSurfaces
          \/ /\ Len(shellSurfaces) < MaxShellSurfaces
             /\ \E row : shellSurfaces' = Append(shellSurfaces, row)
             /\ given' = [surface |-> s, object |-> Len(shellSurfaces) + 1]
             /\ created' = TRUE
    BY <1>5 DEF S!createSurface, S!None
  <2>2. s \in 0 .. MaxSurfaces
    BY <1>1 DEF PlasmaRest
  <2>3. S!Found(s) # 0 => S!Found(s) \in 0 .. MaxShellSurfaces
    BY <1>1, FoundIs DEF PlasmaRest
  <2>4. \A row : Len(Append(shellSurfaces, row)) = Len(shellSurfaces) + 1
    BY <1>1
  <2>5. given' \in [surface : 0 .. MaxSurfaces, object : 0 .. MaxShellSurfaces]
    BY <1>1, <2>1, <2>2, <2>3
  <2>6. Len(shellSurfaces') <= MaxShellSurfaces
    <3>1. CASE shellSurfaces' = shellSurfaces
      BY <3>1 DEF PlasmaRest
    <3>2. CASE Len(shellSurfaces) < MaxShellSurfaces
               /\ \E row : shellSurfaces' = Append(shellSurfaces, row)
      BY <1>1, <2>4, <3>2
    <3> QED
      BY <2>1, <3>1, <3>2
  <2>8. created' \in BOOLEAN
    BY <2>1
  <2>7. UNCHANGED <<plasmaSurfaces, shell>>
    BY <1>5 DEF S!createSurface
  <2> QED
    BY <2>5, <2>6, <2>7, <2>8 DEF PlasmaRest
<1>6. CASE S!ReleaseShellSurface \/ S!DeleteShellSurface
  <2>1. /\ \E o, row : shellSurfaces' = [shellSurfaces EXCEPT ![o] = row]
        /\ given' \in {given, [surface |-> 0, object |-> 0]}
        /\ UNCHANGED <<plasmaSurfaces, shell, created>>
    <3>1. CASE S!ReleaseShellSurface
      BY <3>1 DEF S!ReleaseShellSurface
    <3>2. CASE S!DeleteShellSurface
      <4>1. PICK o : shellSurfaces' = [shellSurfaces EXCEPT ![o].exists = FALSE,
                                                            ![o].valid = FALSE]
        BY <3>2 DEF S!DeleteShellSurface
      <4>2. PICK row : shellSurfaces' = [shellSurfaces EXCEPT ![o] = row]
        BY <4>1
      <4>3. given' \in {given, [surface |-> 0, object |-> 0]}
        BY <3>2 DEF S!DeleteShellSurface, S!None
      <4>4. UNCHANGED <<plasmaSurfaces, shell, created>>
        BY <3>2 DEF S!DeleteShellSurface
      <4> QED
        BY <4>2, <4>3, <4>4
    <3> QED
      BY <1>6, <3>1, <3>2
  <2>2. Len(shellSurfaces') = Len(shellSurfaces)
    BY <1>1, <2>1
  <2>3. given' \in [surface : 0 .. MaxSurfaces, object : 0 .. MaxShellSurfaces]
    BY <1>1, <2>1 DEF PlasmaRest
  <2> QED
    BY <2>1, <2>2, <2>3 DEF PlasmaRest
<1>7. CASE S!Setup
  BY <1>7 DEF S!Setup, PlasmaRest
<1> QED
  BY <1>2, <1>3, <1>4, <1>5, <1>6, <1>7 DEF S!Next

\* The rest of the desktops: an active one was announced.
DeskRest ==
  /\ \A d \in desktopActive : Has(desktopAnnounced, d)
  /\ bound \in BOOLEAN
  /\ Len(made) <= MaxDesktops

LEMMA DeskRestStarts == V!Init => DeskRest
<1> SUFFICES ASSUME V!Init PROVE DeskRest
  OBVIOUS
<1>1. MaxDesktops \in Nat
  BY ViewsAssumption
<1>2. desktopActive = {} /\ made = <<>> /\ bound = FALSE
  BY DEF V!Init
<1>3. Len(made) = 0
  BY <1>2
<1>4. Len(made) <= MaxDesktops
  BY <1>1, <1>2, <1>3
<1> QED
  BY <1>2, <1>4 DEF DeskRest

LEMMA DeskTypes == ASSUME DeskInv, DeskRest PROVE V!TypeOK
<1>1. /\ MaxDesktops \in Nat /\ Len(made) \in Nat /\ DOMAIN made = 1 .. Len(made)
      /\ desktops \in Seq(Nat) /\ desktopEvents \in Seq(DeskEvents)
      /\ desktopAnnounced \in Seq(Desktops)
  BY ViewsAssumption DEF DeskInv, DeskType, DeskLists
<1>2. DOMAIN made \subseteq V!Objects
  BY <1>1 DEF DeskRest, V!Objects
<1>3. desktops \in Seq(V!Objects)
  <2>1. \A i \in DOMAIN desktops : desktops[i] \in V!Objects
    BY <1>2 DEF DeskInv, DeskObjects
  <2> HIDE DEF V!Objects
  <2> QED
    BY <1>1, <2>1
<1>4. ASSUME NEW i \in DOMAIN desktopEvents
      PROVE  desktopEvents[i] \in
               [kind : {"created", "removed"}, of : Desktops, position : Nat]
                 \cup [kind : {"activated", "deactivated"}, of : V!Objects, position : {0}]
  <2> DEFINE e == desktopEvents[i]
  <2>1. e \in DeskEvents
    BY <1>1
  <2>2. e.kind \in ObjectKinds => e.of \in V!Objects
    BY <1>2 DEF DeskInv, DeskObjects
  <2> HIDE DEF e
  <2>3. CASE e \in [kind : ListKinds, of : Desktops, position : Nat]
    BY <2>3 DEF ListKinds, e
  <2>4. CASE e \in [kind : ObjectKinds, of : Nat, position : {0}]
    <3>1. e \in [kind : {"activated", "deactivated"}, of : V!Objects, position : {0}]
      BY <2>2, <2>4 DEF ObjectKinds
    <3> QED
      BY <3>1 DEF e
  <2> QED
    BY <2>1, <2>3, <2>4 DEF DeskEvents
<1>5. V!IsInjective(desktopAnnounced)
  BY DEF DeskInv, DeskType, Apart, V!IsInjective
<1>6. desktopActive \in SUBSET V!Range(desktopAnnounced)
  BY DEF DeskRest, Has, V!Range
<1>7. V!Cardinality(desktopActive) <= 1
  <2>1. V!Cardinality(desktopActive) = Cardinality(desktopActive)
    BY DEF V!Cardinality, Cardinality
  <2>2. desktopActive = {} \/ \E d : desktopActive = {d}
    <3>1. \A c, d \in desktopActive : c = d
      BY DEF DeskInv, DeskType
    <3> QED
      BY <3>1
  <2>3. Cardinality({}) = 0 /\ \A d : Cardinality({d}) = 1
    BY FS_EmptySet, FS_Singleton
  <2>4. CASE desktopActive = {}
    BY <2>1, <2>3, <2>4
  <2>5. CASE \E d : desktopActive = {d}
    <3>1. Cardinality(desktopActive) = 1
      BY <2>3, <2>5
    <3> QED
      BY <2>1, <3>1
  <2> QED
    BY <2>2, <2>4, <2>5
<1> QED
  BY <1>1, <1>3, <1>4, <1>5, <1>6, <1>7 DEF DeskInv, DeskType, DeskRest, DeskRows, V!TypeOK

\* The object that is found in the list is one of those made.
LEMMA FoundMade ==
  ASSUME DeskInv, NEW id, V!Find(id) # 0
  PROVE  V!Find(id) \in DOMAIN made
<1> DEFINE places == {k \in DOMAIN desktops : made[desktops[k]].id = id}
<1>1. Len(desktops) \in Nat /\ DOMAIN desktops = 1 .. Len(desktops)
  BY DEF DeskInv, DeskType
<1>2. First(places) # 0 /\ V!Find(id) = desktops[First(places)]
  BY DesktopOperators DEF V!Find
<1>3. First(places) \in places
  <2> HIDE DEF places
  <2>1. places \in SUBSET (1 .. Len(desktops))
    BY <1>1 DEF places
  <2> QED
    BY <1>1, <1>2, <2>1, FirstFacts
<1> QED
  BY <1>2, <1>3 DEF DeskInv, DeskObjects

\* A new object is the last one made, and there is room for it.
LEMMA ObtainedRoom ==
  ASSUME DeskInv, DeskRest, NEW id, V!CanObtain(id)
  PROVE  /\ Len(V!ObjectsWith(id)) \in Nat /\ Len(made) \in Nat
         /\ Len(V!ObjectsWith(id)) <= MaxDesktops
         /\ Len(made) <= Len(V!ObjectsWith(id))
         /\ V!Obtained(id) \in 0 .. Len(V!ObjectsWith(id))
<1>1. /\ made \in Seq(DeskRows) /\ Len(made) \in Nat /\ DOMAIN made = 1 .. Len(made)
      /\ MaxDesktops \in Nat
  BY ViewsAssumption DEF DeskInv, DeskType
<1>2. CASE V!Find(id) # 0
  <2>1. V!ObjectsWith(id) = made /\ V!Obtained(id) = V!Find(id)
    BY <1>2 DEF V!ObjectsWith, V!Obtained
  <2> QED
    BY <1>1, <1>2, <2>1, FoundMade DEF DeskRest
<1>3. CASE V!Find(id) = 0
  <2>1. PICK row : V!ObjectsWith(id) = Append(made, row)
    BY <1>3 DEF V!ObjectsWith
  <2>2. Len(V!ObjectsWith(id)) = Len(made) + 1 /\ V!Obtained(id) = Len(made) + 1
    BY <1>1, <1>3, <2>1 DEF V!Obtained
  <2>3. Len(made) < MaxDesktops
    BY <1>3 DEF V!CanObtain
  <2> QED
    BY <1>1, <2>2, <2>3
<1> QED
  BY <1>2, <1>3

LEMMA DeskRestStep == ASSUME DeskInv, DeskRest, V!Next PROVE DeskRest'
<1>1. /\ desktopAnnounced \in Seq(Desktops) /\ Apart(desktopAnnounced)
      /\ made \in Seq(DeskRows) /\ Len(made) \in Nat /\ MaxDesktops \in Nat
  BY ViewsAssumption DEF DeskInv, DeskType, DeskLists
<1>2. CASE V!AddDesktop
  <2>1. PICK id \in Desktops, i \in 0 .. Len(desktopAnnounced) :
          desktopAnnounced' = Inserted(desktopAnnounced, i, id)
    BY <1>2, DesktopOperators DEF V!AddDesktop
  <2>2. \A d : Has(desktopAnnounced, d) => Has(desktopAnnounced', d)
    BY <1>1, <2>1, InsertedHas
  <2> QED
    BY <1>2, <2>2 DEF V!AddDesktop, DeskRest
<1>3. CASE V!RemoveDesktop
  <2>1. PICK i \in DOMAIN desktopAnnounced :
          /\ desktopAnnounced' = Kept(desktopAnnounced, DOMAIN desktopAnnounced \ {i})
          /\ desktopActive' = desktopActive \ {desktopAnnounced[i]}
    BY <1>3, DesktopOperators DEF V!RemoveDesktop
  <2>2. ASSUME NEW d \in desktopActive' PROVE Has(desktopAnnounced', d)
    <3>1. d \in desktopActive /\ d # desktopAnnounced[i]
      BY <2>1
    <3>2. PICK j \in DOMAIN desktopAnnounced : desktopAnnounced[j] = d
      BY <3>1 DEF DeskRest, Has
    <3>3. j \in DOMAIN desktopAnnounced \ {i}
      BY <3>1, <3>2
    <3> QED
      BY <1>1, <2>1, <3>2, <3>3, KeptCovers DEF Has
  <2> QED
    BY <1>3, <2>2 DEF V!RemoveDesktop, DeskRest
<1>4. CASE V!Activate
  <2>1. PICK id \in V!Range(desktopAnnounced) : desktopActive' = {id}
    BY <1>4 DEF V!Activate
  <2>2. Has(desktopAnnounced, id)
    BY DEF V!Range, Has
  <2> QED
    BY <1>4, <2>1, <2>2 DEF V!Activate, DeskRest, Has
<1>5. CASE V!getVirtualDesktop
  <2>1. PICK id : /\ V!CanObtain(id) /\ made' = V!ObjectsWith(id)
    BY <1>5 DEF V!getVirtualDesktop
  <2>2. UNCHANGED <<desktopAnnounced, desktopActive, bound>>
    BY <1>5 DEF V!getVirtualDesktop
  <2> QED
    BY <2>1, <2>2, ObtainedRoom DEF DeskRest, Has
<1>6. CASE V!createdCallback
  <2>1. PICK id : V!CanObtain(id) /\ made' = V!ObjectsWith(id)
    BY <1>6 DEF V!createdCallback
  <2>2. UNCHANGED <<desktopAnnounced, desktopActive, bound>>
    BY <1>6 DEF V!createdCallback, V!Takes
  <2> QED
    BY <2>1, <2>2, ObtainedRoom DEF DeskRest, Has
<1>7. CASE V!removedCallback \/ V!activeCallback
  <2>1. \E o, row : made' = [made EXCEPT ![o] = row]
    BY <1>7 DEF V!removedCallback, V!activeCallback
  <2>2. Len(made') = Len(made)
    BY <1>1, <2>1
  <2>3. UNCHANGED <<desktopAnnounced, desktopActive, bound>>
    BY <1>7 DEF V!removedCallback, V!activeCallback, V!Takes
  <2> QED
    BY <2>2, <2>3 DEF DeskRest, Has
<1>8. CASE V!Setup
  BY <1>8 DEF V!Setup, DeskRest, Has
<1> QED
  BY <1>2, <1>3, <1>4, <1>5, <1>6, <1>7, <1>8 DEF V!Next

\* The rest of the stacking order.
StackRest ==
  /\ history \in Seq(O!Orders)
  /\ wm \in {"unset", "valid", "released", "deleted"}
  /\ stackAnnounced \in Nat

LEMMA StackRestStarts == O!Init => StackRest
<1> SUFFICES ASSUME O!Init PROVE StackRest
  OBVIOUS
<1>1. <<>> \in O!Orders
  <2>1. O!Cardinality(Windows) = Cardinality(Windows)
    BY DEF O!Cardinality, Cardinality
  <2>2. Cardinality(Windows) \in Nat
    BY ViewsAssumption, FS_CardinalityType
  <2>3. 0 \in 0 .. O!Cardinality(Windows)
    BY <2>1, <2>2
  <2>4. <<>> \in [1 .. 0 -> Windows]
    OBVIOUS
  <2>5. <<>> \in O!Injection(1 .. 0, Windows)
    BY <2>4 DEF O!Injection, O!IsInjective
  <2> QED
    BY <2>3, <2>5 DEF O!Orders
<1>2. history = <<<<>>>> /\ wm = "unset" /\ stackAnnounced = 0
  BY DEF O!Init
<1> HIDE DEF O!Orders
<1>3. history \in Seq(O!Orders)
  BY <1>1, <1>2
<1> QED
  BY <1>2, <1>3 DEF StackRest

LEMMA StackTypes == ASSUME StackInv, StackRest PROVE O!TypeOK
<1>1. stackRequests \in Seq(DOMAIN lists)
  BY DEF StackInv, StackType, OwnRequests
<1>2. order \in O!Orders
  <2>1. PICK i \in DOMAIN history : order = history[i]
    BY DEF StackInv
  <2> HIDE DEF O!Orders
  <2> QED
    BY <2>1 DEF StackRest
<1>3. \A i \in DOMAIN lists : lists[i] \in Seq(Windows)
  BY DEF StackInv, StackType, Lists
<1> QED
  BY <1>1, <1>2, <1>3 DEF StackInv, StackType, StackRest, O!TypeOK

LEMMA StackRestStep == ASSUME StackRest, O!Next PROVE StackRest'
<1>1. CASE O!Restack
  <2>1. PICK s \in O!Orders : history' = Append(history, s)
    BY <1>1 DEF O!Restack
  <2>2. UNCHANGED <<wm, stackAnnounced>>
    BY <1>1 DEF O!Restack
  <2> HIDE DEF O!Orders
  <2>3. history' \in Seq(O!Orders)
    BY <2>1 DEF StackRest
  <2> QED
    BY <2>2, <2>3 DEF StackRest
<1>2. CASE O!Setup \/ O!Release \/ O!Delete
  BY <1>2 DEF O!Setup, O!Release, O!Delete, StackRest
<1>3. CASE O!stackingOrderDone
  <2>1. stackAnnounced' = stackAnnounced \/ stackAnnounced' = stackAnnounced + 1
    BY <1>3 DEF O!stackingOrderDone
  <2>2. UNCHANGED <<history, wm>>
    BY <1>3 DEF O!stackingOrderDone
  <2> QED
    BY <2>1, <2>2 DEF StackRest
<1>4. CASE O!ServeGetStackingOrder \/ O!stackingOrder2Callback \/ O!stackingOrderWindow
  BY <1>4 DEF O!ServeGetStackingOrder, O!stackingOrder2Callback, O!stackingOrderWindow,
              StackRest
<1> QED
  BY <1>1, <1>2, <1>3, <1>4 DEF O!Next

\* The rest of a touch sequence.
Signals ==
  [name : {"none", "sequenceStarted", "pointAdded", "pointMoved", "pointRemoved",
           "sequenceEnded", "sequenceCanceled"},
   point : 0 .. MaxPoints]

TouchRest == serial <= MaxPoints /\ signal \in Signals

LEMMA TouchRestStarts == T!Init => TouchRest
<1>1. MaxPoints \in Nat
  BY ViewsAssumption
<1> QED
  BY <1>1 DEF T!Init, T!Silence, TouchRest, Signals

LEMMA TouchSerials ==
  ASSUME TouchInv, TouchRest
  PROVE  /\ \A i \in DOMAIN sequence : sequence[i].serial \in 1 .. MaxPoints
         /\ \A k \in DOMAIN touchEvents : touchEvents[k].kind = "down" =>
              touchEvents[k].serial \in 1 .. MaxPoints
         /\ deleted \subseteq 1 .. MaxPoints
<1>1. MaxPoints \in Nat /\ serial \in Nat /\ serial <= MaxPoints
  BY ViewsAssumption DEF TouchInv, TouchRest
<1>2. ASSUME NEW i \in DOMAIN sequence PROVE sequence[i].serial \in 1 .. MaxPoints
  <2> DEFINE n == sequence[i].serial
  <2>1. sequence[i] \in TouchPoints
    BY DEF TouchInv
  <2>2. n \in Nat /\ n # 0 /\ n < serial + 1
    BY <2>1 DEF TouchInv, SerialsInv, IsNew, Used, TouchPoints
  <2> HIDE DEF n
  <2>3. n \in 1 .. MaxPoints
    BY <1>1, <2>2
  <2> QED
    BY <2>3 DEF n
<1>3. ASSUME NEW k \in DOMAIN touchEvents, touchEvents[k].kind = "down"
      PROVE  touchEvents[k].serial \in 1 .. MaxPoints
  <2> DEFINE e == touchEvents[k]
             n == e.serial
  <2>1. e \in TouchEvents /\ e.kind = "down"
    BY <1>3 DEF TouchInv
  <2>2. n \in Nat
    <3> HIDE DEF e
    <3> QED
      BY <2>1 DEF TouchEvents
  <2>3. n <= serial /\ n # 0
    BY <1>3 DEF TouchInv, SerialsInv
  <2> HIDE DEF n
  <2>4. n \in 1 .. MaxPoints
    BY <1>1, <2>2, <2>3
  <2> QED
    BY <2>4 DEF n
<1>4. ASSUME NEW n \in deleted PROVE n \in 1 .. MaxPoints
  <2>1. n \in Nat \ {0}
    BY DEF TouchInv
  <2>2. n < serial + 1
    BY DEF TouchInv, SerialsInv, IsNew, Used
  <2> QED
    BY <1>1, <2>1, <2>2
<1> QED
  BY <1>2, <1>3, <1>4

LEMMA TouchTypes == ASSUME TouchInv, TouchRest PROVE T!TypeOK
<1>1. sequence \in Seq(T!Points)
  <2>1. ASSUME NEW i \in DOMAIN sequence PROVE sequence[i] \in T!Points
    <3>1. sequence[i] \in TouchPoints /\ sequence[i].serial \in 1 .. MaxPoints
      BY TouchSerials DEF TouchInv
    <3> QED
      BY <3>1 DEF TouchPoints, T!Points
  <2> HIDE DEF T!Points
  <2> QED
    BY <2>1 DEF TouchInv
<1>2. \A i \in DOMAIN touchEvents :
        touchEvents[i].kind \in {"down", "up", "motion", "cancel", "frame"}
  <2> TAKE i \in DOMAIN touchEvents
  <2>1. touchEvents[i] \in TouchEvents
    BY DEF TouchInv
  <2> QED
    BY <2>1 DEF TouchEvents
<1>3. serial \in 0 .. MaxPoints
  BY ViewsAssumption DEF TouchInv, TouchRest
<1> QED
  BY <1>1, <1>2, <1>3, TouchSerials DEF TouchInv, TouchRest, Signals, T!TypeOK

LEMMA TouchRestStep == ASSUME TouchInv, TouchRest, T!Next PROVE TouchRest'
<1>1. MaxPoints \in Nat /\ serial \in Nat
  BY ViewsAssumption DEF TouchInv
<1>2. CASE T!Press \/ T!Lift \/ T!Move \/ T!Cancel
  <2>1. signal' = [name |-> "none", point |-> 0]
    BY <1>2 DEF T!Press, T!Lift, T!Move, T!Cancel, T!Send, T!Silence
  <2>2. serial' <= MaxPoints
    <3>1. serial' = serial \/ (serial < MaxPoints /\ serial' = serial + 1)
      BY <1>2 DEF T!Press, T!Lift, T!Move, T!Cancel
    <3> QED
      BY <1>1, <3>1 DEF TouchRest
  <2> QED
    BY <1>1, <2>1, <2>2 DEF TouchRest, Signals
<1>3. CASE T!downCallback
  <2>1. /\ touchEvents # <<>> /\ Head(touchEvents).kind = "down" /\ UNCHANGED serial
        /\ \E name \in {"pointAdded", "sequenceStarted"} :
             signal' = [name |-> name, point |-> Head(touchEvents).serial]
    BY <1>3 DEF T!downCallback, T!Takes
  <2>2. 1 \in DOMAIN touchEvents /\ Head(touchEvents) = touchEvents[1]
    BY <2>1, TailIndices DEF TouchInv
  <2>3. Head(touchEvents).serial \in 0 .. MaxPoints
    BY <1>1, <2>1, <2>2, TouchSerials
  <2> QED
    BY <2>1, <2>3 DEF TouchRest, Signals
<1>4. ASSUME NEW id, T!getActivePoint(id) # 0
      PROVE  sequence[T!getActivePoint(id)].serial \in 0 .. MaxPoints
  <2> DEFINE places == {i \in DOMAIN sequence : sequence[i].id = id /\ sequence[i].down}
  <2>1. Len(sequence) \in Nat /\ DOMAIN sequence = 1 .. Len(sequence)
    BY DEF TouchInv
  <2>2. T!getActivePoint(id) = First(places)
    BY DEF T!getActivePoint, T!First, First
  <2>3. First(places) \in places
    <3>1. places \in SUBSET (1 .. Len(sequence)) /\ First(places) # 0
      BY <1>4, <2>1, <2>2
    <3> HIDE DEF places
    <3> QED
      BY <2>1, <3>1, FirstFacts
  <2> QED
    BY <1>1, <2>2, <2>3, TouchSerials
<1>5. CASE T!upCallback \/ T!motionCallback
  <2>1. PICK id : \/ signal' = [name |-> "none", point |-> 0]
                  \/ /\ T!getActivePoint(id) # 0
                     /\ \E name \in {"pointMoved", "pointRemoved", "sequenceEnded"} :
                          signal' = [name |-> name,
                                     point |-> sequence[T!getActivePoint(id)].serial]
    BY <1>5 DEF T!upCallback, T!motionCallback, T!Silence
  <2>2. UNCHANGED serial
    BY <1>5 DEF T!upCallback, T!motionCallback, T!Takes
  <2> QED
    BY <1>1, <1>4, <2>1, <2>2 DEF TouchRest, Signals
<1>6. CASE T!cancelCallback
  BY <1>1, <1>6 DEF T!cancelCallback, T!Takes, TouchRest, Signals
<1> QED
  BY <1>2, <1>3, <1>5, <1>6 DEF T!Next

\* The rest of a window: an icon that is fetched or on its way was set.
WindowIcons == 0 .. MaxIcons
Bounded == {e \in WindowEvents : e.kind = "icon" => e.icon \in WindowIcons}

WindowRest ==
  /\ windowServer.icon \in WindowIcons /\ window.icon \in WindowIcons
  /\ windowEvents \in Seq(Bounded)
  /\ windowRequests \in Seq([flag : Flags \cap A!Toggles, set : BOOLEAN])
  /\ fetches \in Seq(WindowIcons)
  /\ DOMAIN view = A!Roles

LEMMA WindowRestStarts == A!Init => WindowRest
<1> SUFFICES ASSUME A!Init PROVE WindowRest
  OBVIOUS
<1>1. 0 \in WindowIcons
  BY ViewsAssumption DEF WindowIcons
<1>2. windowServer.icon = 0 /\ window.icon = 0
  BY DEF A!Init, A!Fallback
<1>3. windowEvents = <<>> /\ windowRequests = <<>> /\ fetches = <<>>
  BY DEF A!Init
<1>4. DOMAIN view = A!Roles
  BY DEF A!Init, A!data
<1> QED
  BY <1>1, <1>2, <1>3, <1>4 DEF WindowRest

LEMMA WindowTypes == ASSUME WindowInv, WindowRest PROVE A!TypeOK
<1>1. AllTitles = Titles
  BY ViewsAssumption DEF AllTitles
<1>2. /\ windowServer.desktops \in SUBSET Desktops
      /\ windowServer.attributes \in [Fields -> Titles]
  BY <1>1 DEF WindowInv, ServedWindow, WindowState, WindowStates
<1>3. window.flags \subseteq Flags /\ window.attributes \in [Fields -> Titles]
  BY <1>1 DEF WindowInv, ShownWindow, WindowState, WindowStates
<1>4. DOMAIN view = A!Roles
  BY DEF WindowRest
<1>5. \A i \in DOMAIN windowRequests :
        windowRequests[i] \in [flag : Flags \cap A!Toggles, set : BOOLEAN]
  <2> DEFINE Requests == [flag : Flags \cap A!Toggles, set : BOOLEAN]
  <2>1. windowRequests \in Seq(Requests)
    BY DEF WindowRest
  <2> HIDE DEF Requests
  <2>2. \A i \in DOMAIN windowRequests : windowRequests[i] \in Requests
    BY <2>1
  <2> QED
    BY <2>2 DEF Requests
<1>6. \A i \in DOMAIN fetches : fetches[i] \in WindowIcons
  <2> HIDE DEF WindowIcons
  <2> QED
    BY DEF WindowRest
<1> QED
  BY <1>2, <1>3, <1>4, <1>5, <1>6
     DEF WindowInv, WindowType, WindowRest, WindowIcons, A!Icons, A!TypeOK

LEMMA WindowRestStep == ASSUME WindowInv, WindowRest, A!Next PROVE WindowRest'
<1> DEFINE Requests == [flag : Flags \cap A!Toggles, set : BOOLEAN]
<1>1. /\ windowEvents \in Seq(Bounded) /\ windowRequests \in Seq(Requests)
      /\ fetches \in Seq(WindowIcons) /\ WindowType /\ MaxIcons \in Nat
  BY ViewsAssumption DEF WindowInv, WindowRest
<1>2. windowEvents # <<>> => Tail(windowEvents) \in Seq(Bounded) /\ Head(windowEvents) \in Bounded
  <2> HIDE DEF Bounded
  <2> QED
    BY <1>1
<1>3. ASSUME NEW e, e \in Bounded PROVE Append(windowEvents, e) \in Seq(Bounded)
  <2> HIDE DEF Bounded
  <2> QED
    BY <1>1, <1>3
<1>4. DOMAIN view = A!Roles /\ \A w, roles : DOMAIN A!Refreshed(w, roles) = A!Roles
  BY DEF WindowRest, A!Refreshed
<1>5. ASSUME NEW e, A!Send(e), e \in Bounded,
             windowServer'.icon \in WindowIcons,
             windowRequests' \in Seq(Requests)
      PROVE  WindowRest'
  <2>1. windowEvents' \in Seq(Bounded) /\ UNCHANGED <<window, fetches, view>>
    BY <1>3, <1>5 DEF A!Send
  <2> QED
    BY <1>5, <2>1 DEF WindowRest
<1>6. windowServer.icon \in WindowIcons /\ windowRequests \in Seq(Requests)
  BY DEF WindowRest
<1>7. CASE A!ChangeFlags
  <2>1. PICK flags \in SUBSET Flags :
          /\ windowServer' = [windowServer EXCEPT !.flags = flags]
          /\ A!Send([kind |-> "state", flags |-> flags]) /\ UNCHANGED windowRequests
    BY <1>7 DEF A!ChangeFlags, A!StateEvent
  <2>2. [kind |-> "state", flags |-> flags] \in Bounded
    BY DEF Bounded, WindowEvents
  <2>3. windowServer'.icon = windowServer.icon
    BY <1>1, <2>1 DEF WindowType
  <2> QED
    BY <1>5, <1>6, <2>1, <2>2, <2>3
<1>8. CASE A!ServeSetState
  <2>1. PICK flags : /\ windowServer' = [windowServer EXCEPT !.flags = flags]
                     /\ A!Send([kind |-> "state", flags |-> flags])
                     /\ flags \in {windowServer.flags \cup {Head(windowRequests).flag},
                                   windowServer.flags \ {Head(windowRequests).flag}}
                     /\ windowRequests' = Tail(windowRequests) /\ windowRequests # <<>>
    BY <1>8 DEF A!ServeSetState, A!StateEvent
  <2>2. Head(windowRequests) \in Requests /\ windowRequests' \in Seq(Requests)
    <3> HIDE DEF Requests
    <3> QED
      BY <1>1, <2>1
  <2>3. flags \in SUBSET Flags
    BY <1>1, <2>1, <2>2 DEF WindowType
  <2>4. [kind |-> "state", flags |-> flags] \in Bounded
    BY <2>3 DEF Bounded, WindowEvents
  <2>5. windowServer'.icon = windowServer.icon
    BY <1>1, <2>1 DEF WindowType
  <2> QED
    BY <1>5, <1>6, <2>1, <2>2, <2>4, <2>5
<1>9. CASE A!ChangeDesktops
  <2>1. PICK d \in Desktops, what \in {"entered", "left"} :
          /\ \E ds : windowServer' = [windowServer EXCEPT !.desktops = ds]
          /\ A!Send([kind |-> what, desktop |-> d]) /\ UNCHANGED windowRequests
    BY <1>9 DEF A!ChangeDesktops
  <2>2. [kind |-> what, desktop |-> d] \in Bounded
    BY DEF Bounded, WindowEvents
  <2>3. windowServer'.icon = windowServer.icon
    BY <1>1, <2>1 DEF WindowType
  <2> QED
    BY <1>5, <1>6, <2>1, <2>2, <2>3
<1>10. CASE A!ChangeAttribute
  <2>1. PICK a \in Fields, t \in Titles :
          /\ \E all : windowServer' = [windowServer EXCEPT !.attributes = all]
          /\ A!Send([kind |-> "attribute", attribute |-> a, value |-> t])
          /\ UNCHANGED windowRequests
    BY <1>10 DEF A!ChangeAttribute
  <2>2. [kind |-> "attribute", attribute |-> a, value |-> t] \in Bounded
    BY DEF Bounded, WindowEvents
  <2>3. windowServer'.icon = windowServer.icon
    BY <1>1, <2>1 DEF WindowType
  <2> QED
    BY <1>5, <1>6, <2>1, <2>2, <2>3
<1>11. CASE A!ChangeIcon
  <2>1. /\ windowServer' = [windowServer EXCEPT !.icon = windowServer.icon + 1]
        /\ A!Send([kind |-> "icon", icon |-> windowServer.icon + 1])
        /\ windowServer.icon < MaxIcons /\ UNCHANGED windowRequests
    BY <1>11 DEF A!ChangeIcon
  <2>2. windowServer.icon + 1 \in WindowIcons /\ windowServer.icon + 1 \in Nat
    BY <1>1, <1>6, <2>1 DEF WindowIcons
  <2>3. windowServer'.icon = windowServer.icon + 1
    BY <1>1, <2>1 DEF WindowType
  <2>4. [kind |-> "icon", icon |-> windowServer.icon + 1] \in Bounded
    BY <2>2 DEF Bounded, WindowEvents
  <2> QED
    BY <1>5, <1>6, <2>1, <2>2, <2>3, <2>4
<1>12. CASE A!Toggle
  <2>1. PICK f \in Flags \cap A!Toggles :
          /\ windowRequests' = Append(windowRequests,
                                      [flag |-> f, set |-> f \notin window.flags])
          /\ UNCHANGED <<windowServer, windowEvents, window, fetches, view>>
    BY <1>12 DEF A!Toggle
  <2>2. [flag |-> f, set |-> f \notin window.flags] \in Requests
    OBVIOUS
  <2> HIDE DEF Requests
  <2>3. windowRequests' \in Seq(Requests)
    BY <1>1, <2>1, <2>2
  <2> QED
    BY <2>1, <2>3 DEF WindowRest, Requests
<1>13. ASSUME windowEvents # <<>>, windowEvents' = Tail(windowEvents),
              UNCHANGED <<windowServer, windowRequests>>,
              window'.icon \in WindowIcons, fetches' \in Seq(WindowIcons),
              DOMAIN view' = DOMAIN view
       PROVE  WindowRest'
  BY <1>2, <1>13 DEF WindowRest
<1>14. CASE \/ A!stateChangedCallback \/ A!virtualDesktopEnteredCallback
            \/ A!virtualDesktopLeftCallback \/ A!attributeCallback
            \/ A!pidChangedCallback
  <2>1. windowEvents # <<>> /\ windowEvents' = Tail(windowEvents)
        /\ UNCHANGED <<windowServer, windowRequests, fetches>>
    BY <1>14 DEF A!stateChangedCallback, A!virtualDesktopEnteredCallback,
                 A!virtualDesktopLeftCallback, A!attributeCallback,
                       A!pidChangedCallback, A!Takes
  <2>2. \/ window' = window
        \/ \E x : \/ window' = [window EXCEPT !.flags = x]
                  \/ window' = [window EXCEPT !.desktops = x]
                  \/ window' = [window EXCEPT !.attributes = x]
    <3>1. CASE A!stateChangedCallback
      BY <3>1 DEF A!stateChangedCallback
    <3>2. CASE A!virtualDesktopEnteredCallback
      BY <3>2 DEF A!virtualDesktopEnteredCallback
    <3>3. CASE A!virtualDesktopLeftCallback
      BY <3>3 DEF A!virtualDesktopLeftCallback
    <3>4. CASE A!attributeCallback
      BY <3>4 DEF A!attributeCallback
    <3>5. CASE A!pidChangedCallback
      BY <3>5 DEF A!pidChangedCallback
    <3> QED
      BY <1>14, <3>1, <3>2, <3>3, <3>4, <3>5
  <2>3. window'.icon = window.icon
    BY <1>1, <2>2 DEF WindowType
  <2>4. DOMAIN view' = DOMAIN view
    BY <1>4, <1>14 DEF A!stateChangedCallback, A!virtualDesktopEnteredCallback,
                       A!virtualDesktopLeftCallback, A!attributeCallback,
                       A!pidChangedCallback
  <2> QED
    BY <1>13, <2>1, <2>3, <2>4 DEF WindowRest
<1>15. CASE A!themedIconNameChangedCallback
  <2>1. /\ windowEvents # <<>> /\ windowEvents' = Tail(windowEvents)
        /\ UNCHANGED <<windowServer, windowRequests, fetches>>
        /\ Head(windowEvents).kind = "icon"
        /\ window' = [window EXCEPT !.icon = Head(windowEvents).icon]
    BY <1>15 DEF A!themedIconNameChangedCallback, A!Takes
  <2>2. window'.icon \in WindowIcons
    BY <1>1, <1>2, <2>1 DEF WindowType, Bounded
  <2>3. DOMAIN view' = DOMAIN view
    BY <1>4, <1>15 DEF A!themedIconNameChangedCallback
  <2> QED
    BY <1>13, <2>1, <2>2, <2>3 DEF WindowRest
<1>16. CASE A!iconChangedCallback
  <2>1. /\ windowEvents # <<>> /\ windowEvents' = Tail(windowEvents)
        /\ UNCHANGED <<windowServer, windowRequests, window, view>>
        /\ Head(windowEvents).kind = "icon"
        /\ \E icon \in Head(windowEvents).icon .. windowServer.icon :
             fetches' = Append(fetches, icon)
    BY <1>16 DEF A!iconChangedCallback, A!Takes
  <2>2. PICK icon \in Head(windowEvents).icon .. windowServer.icon :
          fetches' = Append(fetches, icon)
    BY <2>1
  <2>3. Head(windowEvents).icon \in WindowIcons
    BY <1>2, <2>1 DEF Bounded
  <2>4. icon \in WindowIcons
    BY <1>1, <1>6, <2>2, <2>3 DEF WindowIcons
  <2>5. fetches' \in Seq(WindowIcons)
    <3> HIDE DEF WindowIcons
    <3> QED
      BY <1>1, <2>2, <2>4
  <2> QED
    BY <1>13, <2>1, <2>5 DEF WindowRest
<1>17. CASE A!IconFetched
  <2>1. PICK i \in DOMAIN fetches :
          /\ fetches' = Kept(fetches, DOMAIN fetches \ {i})
          /\ \E icon \in {fetches[i], 0} : window' = [window EXCEPT !.icon = icon]
          /\ UNCHANGED <<windowServer, windowRequests, windowEvents>>
          /\ DOMAIN view' = DOMAIN view
    BY <1>4, <1>17, WindowKeptIs DEF A!IconFetched, A!Fallback
  <2>2. fetches' \in Seq(WindowIcons)
    BY <1>1, <2>1, KeptFacts
  <2>3. fetches[i] \in WindowIcons /\ 0 \in WindowIcons
    <3>1. 0 \in WindowIcons
      BY <1>1 DEF WindowIcons
    <3> HIDE DEF WindowIcons
    <3> QED
      BY <1>1, <3>1
  <2>4. window'.icon \in WindowIcons
    BY <1>1, <2>1, <2>3 DEF WindowType
  <2> QED
    BY <2>1, <2>2, <2>4 DEF WindowRest
<1> QED
  BY <1>7, <1>8, <1>9, <1>10, <1>11, <1>12, <1>14, <1>15, <1>16, <1>17 DEF A!Next

\* The rest of a device: its serials are the compositor's.
InputSerials == 0 .. MaxInputSerial
InputRest ==
  /\ Len(inputSurfaces) <= MaxInputSurfaces
  /\ inputServer.serial \in InputSerials /\ inputServer.entered \in InputSerials
  /\ inputDevice.serial \in InputSerials
  /\ \A k \in DOMAIN inputEvents :
       inputEvents[k].kind \in Crossings => inputEvents[k].serial \in InputSerials

LEMMA InputRestStarts == I!Init => InputRest
<1> SUFFICES ASSUME I!Init PROVE InputRest
  OBVIOUS
<1>1. inputSurfaces = <<>> /\ Len(inputSurfaces) = 0 /\ inputEvents = <<>>
      /\ DOMAIN inputEvents = {}
  BY DEF I!Init
<1>2. MaxInputSurfaces \in Nat /\ 0 \in InputSerials
  BY ViewsAssumption DEF InputSerials
<1>3. inputServer.serial = 0 /\ inputServer.entered = 0 /\ inputDevice.serial = 0
  BY DEF I!Init
<1>4. Len(inputSurfaces) <= MaxInputSurfaces
  BY <1>1, <1>2
<1> QED
  BY <1>1, <1>2, <1>3, <1>4 DEF InputRest

LEMMA InputTyped == ASSUME InputInv, InputRest PROVE I!TypeOK
<1>1. /\ MaxInputSurfaces \in Nat /\ Len(inputSurfaces) \in Nat
      /\ Len(inputSurfaces) <= MaxInputSurfaces
      /\ DOMAIN inputSurfaces = 1 .. Len(inputSurfaces)
  BY ViewsAssumption DEF InputInv, InputTypes, InputRest
<1>2. /\ DOMAIN inputSurfaces \subseteq 1 .. MaxInputSurfaces
      /\ {0} \cup DOMAIN inputSurfaces = 0 .. Len(inputSurfaces)
      /\ {0} \cup DOMAIN inputSurfaces \subseteq 0 .. MaxInputSurfaces
  BY <1>1
<1>3. inputServer \in [capabilities : SUBSET I!Capabilities,
                       known : SUBSET (1 .. MaxInputSurfaces),
                       focus : 0 .. MaxInputSurfaces, resource : BOOLEAN,
                       serial : 0 .. MaxInputSerial, entered : 0 .. MaxInputSerial]
  BY <1>2 DEF InputInv, InputTypes, InputRest, InputSerials
<1>4. inputDevice \in [state : {"none", "valid", "ended"},
                       enteredSurface : 0 .. Len(inputSurfaces), serial : 0 .. MaxInputSerial]
  BY <1>2 DEF InputInv, InputTypes, InputRest, InputSerials
<1>5. \A i \in DOMAIN inputEvents : inputEvents[i].kind \in {"capabilities", "enter", "leave"}
  <2> TAKE i \in DOMAIN inputEvents
  <2>1. inputEvents[i] \in InputEvents
    <3> HIDE DEF InputEvents
    <3> QED
      BY DEF InputInv, InputTypes
  <2> QED
    BY <2>1 DEF InputEvents
<1> QED
  BY <1>3, <1>4, <1>5 DEF InputInv, InputTypes, I!TypeOK

\* The events that are there afterwards were there before, but for one that is new.
LEMMA InputMore ==
  ASSUME InputInv, InputRest, NEW e, inputEvents' = Append(inputEvents, e),
         e.kind \in Crossings => e.serial \in InputSerials
  PROVE  \A k \in DOMAIN inputEvents' :
           inputEvents'[k].kind \in Crossings => inputEvents'[k].serial \in InputSerials
<1>1. Len(inputEvents) \in Nat /\ DOMAIN inputEvents = 1 .. Len(inputEvents)
  BY DEF InputInv, InputTypes
<1>2. \A k \in DOMAIN inputEvents' :
        \/ k \in DOMAIN inputEvents /\ inputEvents'[k] = inputEvents[k]
        \/ inputEvents'[k] = e
  BY <1>1
<1> QED
  BY <1>2 DEF InputRest

LEMMA InputFewer ==
  ASSUME InputInv, InputRest, inputEvents' = <<>> \/ Within(inputEvents', inputEvents)
  PROVE  \A k \in DOMAIN inputEvents' :
           inputEvents'[k].kind \in Crossings => inputEvents'[k].serial \in InputSerials
<1>1. CASE inputEvents' = <<>>
  BY <1>1
<1>2. CASE Within(inputEvents', inputEvents)
  BY <1>2 DEF Within, InputRest
<1> QED
  BY <1>1, <1>2

LEMMA InputKeptWithin ==
  ASSUME InputInv, NEW places \in SUBSET DOMAIN inputEvents
  PROVE  Within(I!Kept(inputEvents, places), inputEvents)
<1>1. inputEvents \in Seq(InputEvents)
  BY DEF InputInv, InputTypes
<1> HIDE DEF InputEvents
<1> QED
  BY <1>1, InputKeptIs, KeptWithin

LEMMA InputRestStep == ASSUME InputInv, InputRest, I!Next PROVE InputRest'
<1>1. /\ InputTypes /\ MaxInputSurfaces \in Nat /\ MaxInputSerial \in Nat
      /\ inputEvents \in Seq(InputEvents) /\ Len(inputSurfaces) \in Nat
      /\ DOMAIN inputServer = {"capabilities", "known", "focus", "resource", "serial",
                               "entered"}
      /\ DOMAIN inputDevice = {"state", "enteredSurface", "serial"}
  BY ViewsAssumption DEF InputInv, InputTypes
<1>2. ASSUME inputEvents # <<>>
      PROVE  /\ Within(Tail(inputEvents), inputEvents)
             /\ Head(inputEvents).kind \in Crossings => Head(inputEvents).serial \in InputSerials
  <2> PICK set : inputEvents \in Seq(set)
    BY <1>1
  <2> PICK t : t = Tail(inputEvents)
    OBVIOUS
  <2>1. /\ 1 \in DOMAIN inputEvents /\ Head(inputEvents) = inputEvents[1]
        /\ \A k \in DOMAIN t : k + 1 \in DOMAIN inputEvents /\ t[k] = inputEvents[k + 1]
    BY <1>2, TailIndices
  <2> QED
    BY <2>1 DEF Within, InputRest
<1>3. CASE I!ChangeCapabilities
  <2>1. PICK c :
          /\ \E r, f : inputServer' = [inputServer EXCEPT !.capabilities = c, !.resource = r,
                                                          !.focus = f]
          /\ \/ inputEvents' = Append(inputEvents, [kind |-> "capabilities", capabilities |-> c])
             \/ inputEvents' = inputEvents
          /\ UNCHANGED <<inputDevice, inputSurfaces>>
    BY <1>3 DEF I!ChangeCapabilities, I!Send
  <2>2. inputServer'.serial = inputServer.serial /\ inputServer'.entered = inputServer.entered
    BY <1>1, <2>1
  <2>3. \A k \in DOMAIN inputEvents' :
          inputEvents'[k].kind \in Crossings => inputEvents'[k].serial \in InputSerials
    <3>1. CASE inputEvents' = inputEvents
      BY <3>1 DEF InputRest
    <3>2. CASE inputEvents' = Append(inputEvents, [kind |-> "capabilities", capabilities |-> c])
      BY <3>2, InputMore DEF Crossings
    <3> QED
      BY <2>1, <3>1, <3>2
  <2> QED
    BY <2>1, <2>2, <2>3 DEF InputRest
<1>4. CASE I!Enter \/ I!Leave
  <2> DEFINE n == inputServer.serial + 1
  <2>1. PICK e :
          /\ e.serial = n /\ inputEvents' = Append(inputEvents, e)
          /\ \/ \E s : inputServer' = [inputServer EXCEPT !.focus = s, !.serial = n, !.entered = n]
             \/ inputServer' = [inputServer EXCEPT !.focus = 0, !.serial = n]
          /\ inputServer.serial < MaxInputSerial
          /\ UNCHANGED <<inputDevice, inputSurfaces>>
    <3>1. CASE I!Enter
      <4>1. PICK s : /\ I!Send([kind |-> "enter", surface |-> s, serial |-> n])
                     /\ inputServer' = [inputServer EXCEPT !.focus = s, !.serial = n,
                                                           !.entered = n]
                     /\ inputServer.serial < MaxInputSerial
        BY <3>1 DEF I!Enter
      <4> QED
        BY <4>1 DEF I!Send
    <3>2. CASE I!Leave
      BY <3>2 DEF I!Leave, I!Send, I!None
    <3> QED
      BY <1>4, <3>1, <3>2
  <2>2. n \in InputSerials
    <3>1. inputServer.serial \in Nat
      BY <1>1 DEF InputTypes
    <3>2. inputServer.serial < MaxInputSerial
      BY <2>1
    <3> QED
      BY <1>1, <3>1, <3>2 DEF InputSerials
  <2> HIDE DEF n
  <2>3. inputServer'.serial = n /\ inputServer'.entered \in {n, inputServer.entered}
    BY <1>1, <2>1
  <2>4. \A k \in DOMAIN inputEvents' :
          inputEvents'[k].kind \in Crossings => inputEvents'[k].serial \in InputSerials
    BY <2>1, <2>2, InputMore
  <2> QED
    BY <2>1, <2>2, <2>3, <2>4 DEF InputRest
<1>5. CASE I!ServeDestroySurface
  <2>1. /\ \E k, f : inputServer' = [inputServer EXCEPT !.known = k, !.focus = f]
        /\ UNCHANGED <<inputEvents, inputDevice, inputSurfaces>>
    BY <1>5 DEF I!ServeDestroySurface
  <2>2. inputServer'.serial = inputServer.serial /\ inputServer'.entered = inputServer.entered
    BY <1>1, <2>1
  <2> QED
    BY <2>1, <2>2 DEF InputRest
<1>6. CASE I!capabilitiesCallback \/ I!enterCallback \/ I!leaveCallback
  <2>1. /\ inputEvents # <<>> /\ inputEvents' = Tail(inputEvents)
        /\ UNCHANGED <<inputServer, inputSurfaces>>
    BY <1>6 DEF I!capabilitiesCallback, I!enterCallback, I!leaveCallback, I!Takes
  <2>2. \/ inputDevice' = inputDevice
        \/ /\ Head(inputEvents).kind \in Crossings
           /\ \E x, y : /\ inputDevice' = [inputDevice EXCEPT !.enteredSurface = x, !.serial = y]
                        /\ y \in {inputDevice.serial, Head(inputEvents).serial}
    BY <1>6 DEF I!capabilitiesCallback, I!enterCallback, I!leaveCallback, I!Takes, Crossings
  <2>3. inputDevice'.serial \in InputSerials
    BY <1>1, <1>2, <2>1, <2>2 DEF InputRest
  <2>4. Within(inputEvents', inputEvents)
    BY <1>2, <2>1
  <2> QED
    BY <2>1, <2>3, <2>4, InputFewer DEF InputRest
<1>7. CASE I!SetupSeat
  <2>1. /\ inputEvents' = Append(inputEvents, [kind |-> "capabilities",
                                               capabilities |-> inputServer.capabilities])
        /\ UNCHANGED <<inputServer, inputDevice, inputSurfaces>>
    BY <1>7 DEF I!SetupSeat
  <2>2. \A k \in DOMAIN inputEvents' :
          inputEvents'[k].kind \in Crossings => inputEvents'[k].serial \in InputSerials
    BY <2>1, InputMore DEF Crossings
  <2> QED
    BY <2>1, <2>2 DEF InputRest
<1>8. CASE I!CreateDevice
  <2>1. /\ inputDevice' = [inputDevice EXCEPT !.state = "valid"]
        /\ \E r : inputServer' = [inputServer EXCEPT !.resource = r]
        /\ UNCHANGED <<inputEvents, inputSurfaces>>
    BY <1>8 DEF I!CreateDevice
  <2>2. /\ inputServer'.serial = inputServer.serial /\ inputServer'.entered = inputServer.entered
        /\ inputDevice'.serial = inputDevice.serial
    BY <1>1, <2>1
  <2> QED
    BY <2>1, <2>2 DEF InputRest
<1>9. ASSUME I!DeviceEnds
      PROVE  /\ inputServer'.serial = inputServer.serial
             /\ inputServer'.entered = inputServer.entered
             /\ inputDevice'.serial = inputDevice.serial
  BY <1>1, <1>9 DEF I!DeviceEnds
<1>10. \A kinds : Within(I!Kept(inputEvents, I!Places(kinds)), inputEvents)
  <2> TAKE kinds
  <2>1. I!Places(kinds) \in SUBSET DOMAIN inputEvents
    BY DEF I!Places
  <2> QED
    BY <2>1, InputKeptWithin
<1>11. CASE I!ReleaseDevice
  <2>1. I!DeviceEnds /\ Within(inputEvents', inputEvents) /\ UNCHANGED inputSurfaces
    BY <1>10, <1>11 DEF I!ReleaseDevice
  <2> QED
    BY <1>9, <2>1, InputFewer DEF InputRest
<1>12. CASE I!EndSeat
  <2>1. /\ inputEvents' = <<>> \/ Within(inputEvents', inputEvents)
        /\ I!DeviceEnds \/ UNCHANGED <<inputServer, inputDevice>>
        /\ UNCHANGED inputSurfaces
    BY <1>10, <1>12 DEF I!EndSeat, I!SeatEnds
  <2> QED
    BY <1>9, <2>1, InputFewer DEF InputRest
<1>13. CASE I!CreateSurface
  <2>1. /\ inputSurfaces' = Append(inputSurfaces, "valid")
        /\ Len(inputSurfaces) < MaxInputSurfaces
        /\ \E k : inputServer' = [inputServer EXCEPT !.known = k]
        /\ UNCHANGED <<inputEvents, inputDevice>>
    BY <1>13 DEF I!CreateSurface
  <2>2. inputServer'.serial = inputServer.serial /\ inputServer'.entered = inputServer.entered
    BY <1>1, <2>1
  <2>3. Len(inputSurfaces') <= MaxInputSurfaces
    <3>1. inputSurfaces \in Seq({"valid", "released", "deleted"})
      BY <1>1 DEF InputTypes
    <3>2. Len(inputSurfaces') = Len(inputSurfaces) + 1
      BY <2>1, <3>1
    <3> QED
      BY <1>1, <2>1, <3>2
  <2> QED
    BY <2>1, <2>2, <2>3 DEF InputRest
<1>14. CASE I!ReleaseSurface \/ I!DeleteSurface
  <2>1. PICK s, x : inputSurfaces' = [inputSurfaces EXCEPT ![s] = x]
    BY <1>14 DEF I!ReleaseSurface, I!DeleteSurface
  <2>2. /\ \/ inputDevice' = inputDevice
           \/ \E y : inputDevice' = [inputDevice EXCEPT !.enteredSurface = y]
        /\ UNCHANGED <<inputServer, inputEvents>>
    BY <1>14 DEF I!ReleaseSurface, I!DeleteSurface
  <2>3. Len(inputSurfaces') = Len(inputSurfaces)
    <3>1. inputSurfaces \in Seq({"valid", "released", "deleted"})
      BY <1>1 DEF InputTypes
    <3> QED
      BY <2>1, <3>1
  <2>4. inputDevice'.serial = inputDevice.serial
    BY <1>1, <2>2
  <2> QED
    BY <2>2, <2>3, <2>4 DEF InputRest
<1> QED
  BY <1>3, <1>4, <1>5, <1>6, <1>7, <1>8, <1>11, <1>12, <1>13, <1>14 DEF I!Next

-----------------------------------------------------------------------------
RestLooked ==
  /\ component = "PlasmaShell" => PlasmaRest
  /\ component = "VirtualDesktops" => DeskRest
  /\ component = "StackingOrder" => StackRest
  /\ component = "WindowAttributes" => WindowRest
  /\ component = "Touch" => TouchRest
  /\ component = "InputDevices" => InputRest

LEMMA RestStarts == ViewsInit => RestLooked
BY PlasmaRestStarts, DeskRestStarts, StackRestStarts,
   WindowRestStarts, TouchRestStarts, InputRestStarts
   DEF ViewsInit, RestLooked

LEMMA RestGoesOn ==
  ASSUME ListsLooked, InputLooked, RestLooked, [ViewsNext]_<<component, viewVars>>
  PROVE  RestLooked'
<1>1. ASSUME component' = "PlasmaShell" PROVE PlasmaRest'
  <2>1. component = "PlasmaShell" /\ (S!Next \/ UNCHANGED plasmaVars)
    BY <1>1 DEF ViewsNext, viewVars
  <2>2. PlasmaInv /\ PlasmaRest
    BY <2>1 DEF ListsLooked, RestLooked
  <2>3. CASE UNCHANGED plasmaVars
    BY <2>2, <2>3 DEF plasmaVars, PlasmaRest
  <2> QED
    BY <2>1, <2>2, <2>3, PlasmaRestStep
<1>2. ASSUME component' = "VirtualDesktops" PROVE DeskRest'
  <2>1. component = "VirtualDesktops" /\ (V!Next \/ UNCHANGED desktopVars)
    BY <1>2 DEF ViewsNext, viewVars
  <2>2. DeskInv /\ DeskRest
    BY <2>1 DEF ListsLooked, RestLooked
  <2>3. CASE UNCHANGED desktopVars
    BY <2>2, <2>3 DEF desktopVars, DeskRest
  <2> QED
    BY <2>1, <2>2, <2>3, DeskRestStep
<1>3. ASSUME component' = "StackingOrder" PROVE StackRest'
  <2>1. component = "StackingOrder" /\ (O!Next \/ UNCHANGED stackVars)
    BY <1>3 DEF ViewsNext, viewVars
  <2>2. StackInv /\ StackRest
    BY <2>1 DEF ListsLooked, RestLooked
  <2>3. CASE UNCHANGED stackVars
    BY <2>2, <2>3 DEF stackVars, StackRest
  <2> QED
    BY <2>1, <2>2, <2>3, StackRestStep
<1>4. ASSUME component' = "WindowAttributes" PROVE WindowRest'
  <2>1. component = "WindowAttributes" /\ (A!Next \/ UNCHANGED windowVars)
    BY <1>4 DEF ViewsNext, viewVars
  <2>2. WindowInv /\ WindowRest
    BY <2>1 DEF ListsLooked, RestLooked
  <2>3. CASE UNCHANGED windowVars
    BY <2>2, <2>3 DEF windowVars, WindowRest
  <2> QED
    BY <2>1, <2>2, <2>3, WindowRestStep
<1>5. ASSUME component' = "Touch" PROVE TouchRest'
  <2>1. component = "Touch" /\ (T!Next \/ UNCHANGED touchVars)
    BY <1>5 DEF ViewsNext, viewVars
  <2>2. TouchInv /\ TouchRest
    BY <2>1 DEF InputLooked, RestLooked
  <2>3. CASE UNCHANGED touchVars
    BY <2>2, <2>3 DEF touchVars, TouchRest
  <2> QED
    BY <2>1, <2>2, <2>3, TouchRestStep
<1>6. ASSUME component' = "InputDevices" PROVE InputRest'
  <2>1. component = "InputDevices" /\ (I!Next \/ UNCHANGED inputVars)
    BY <1>6 DEF ViewsNext, viewVars
  <2>2. InputInv /\ InputRest
    BY <2>1 DEF InputLooked, RestLooked
  <2>3. CASE UNCHANGED inputVars
    BY <2>2, <2>3 DEF inputVars, InputRest
  <2> QED
    BY <2>1, <2>2, <2>3, InputRestStep
<1> QED
  BY <1>1, <1>2, <1>3, <1>4, <1>5, <1>6 DEF RestLooked

LEMMA ViewsAreTyped == ListsLooked /\ InputLooked /\ RestLooked => ViewsTypeOK
BY PlasmaTypes, DeskTypes, StackTypes, WindowTypes, TouchTypes, InputTyped
   DEF ListsLooked, InputLooked, RestLooked, ViewsTypeOK

\* Each interface that shows what the compositor has is in a state of its types: lists
\* name objects there are, the points of a touch sequence and the serials are the
\* compositor's, nothing exceeds what was sent (the members of PlasmaShellSurface,
\* PlasmaVirtualDesktop, PlasmaWindow, Touch, Seat).
THEOREM ViewsAlwaysTyped == ViewsSpec => []ViewsTypeOK
<1> DEFINE Whole == ListsLooked /\ InputLooked /\ RestLooked
<1>1. ViewsInit => Whole
  BY ListsStart, InputStart, RestStarts
<1>2. Whole /\ [ViewsNext]_<<component, viewVars>> => Whole'
  BY ListsGoOn, InputGoesOn, RestGoesOn
<1>3. Whole => ViewsTypeOK
  BY ViewsAreTyped
<1> HIDE DEF Whole
<1> QED
  BY <1>1, <1>2, <1>3, PTL DEF ViewsSpec

=============================================================================
