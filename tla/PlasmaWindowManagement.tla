----------------------- MODULE PlasmaWindowManagement -----------------------
(***************************************************************************)
(* The list of windows a Plasma shell keeps: PlasmaWindowManagement, the   *)
(* PlasmaWindow objects it creates and the PlasmaWindowModel on top.       *)
(*                                                                         *)
(* The compositor announces a window; the client does not ask for it in    *)
(* the handler but in a zero timer's queued slot; the compositor answers   *)
(* with the window's state, or with unmapped when it has gone meanwhile.   *)
(* Both directions of the connection are FIFO.  The compositor's part is   *)
(* modelled from the events the handlers are written for.                  *)
(*                                                                         *)
(* A PlasmaWindow object is known by its position in obj, 0 is a null      *)
(* pointer.  Signals are direct calls, so a handler with all the slots it  *)
(* reaches is one step; deleteLater() is a step of its own.                *)
(***************************************************************************)
EXTENDS Naturals, Sequences, SequencesExt, FiniteSets

CONSTANTS
  Windows,     \* the windows of the compositor
  NoWindow,    \* "no window is active"
  MaxSetups,   \* bound: setup() calls on the one PlasmaWindowManagement
  MaxChanges   \* bound: activations and parent changes

ASSUME WindowsAssumption ==
  /\ NoWindow \notin Windows /\ IsFiniteSet(Windows)
  /\ MaxSetups \in Nat /\ MaxChanges \in Nat

VARIABLES
  \* The compositor.
  unborn,        \* windows that were never mapped
  mapped,        \* windows that are mapped
  focus,         \* the active window
  bound,         \* objects the compositor has a resource for
  changes,       \* activations and parent changes so far
  \* The connection.
  events,        \* to the client
  requests,      \* to the compositor: get_window, get_window_by_uuid
  \* The client.
  wm,            \* the org_kde_plasma_window_management proxy: "unset", "bound"
  setups,        \* setup() calls so far
  timers,        \* windows whose zero timer has not fired, in order
  obj,           \* the PlasmaWindow objects ever created
  windows,       \* PlasmaWindowManagement::windows()
  activeWindow,  \* PlasmaWindowManagement::activeWindow()
  modelUp,       \* a PlasmaWindowModel exists
  model,         \* its rows
  crashed        \* a request was sent on a null proxy

serverVars == <<unborn, mapped, focus, bound, changes>>
clientVars == <<wm, setups, timers, obj, windows, activeWindow, modelUp, model, crashed>>
vars == <<serverVars, events, requests, clientVars>>

Ids == 1 .. Len(obj)

\* indexOf() and removeAt() of the model, and removeAll() of the window list:
\* neither lists a window twice.
Without(s, id) ==
  IF id \in ToSet(s) THEN RemoveAt(s, CHOOSE n \in DOMAIN s : s[n] = id) ELSE s

\* The events of the two interfaces, one record type for all.
Announce(w, n) == [type |-> "window", win |-> w, epoch |-> n]
StateEvent(id, set) == [type |-> "state", id |-> id, set |-> set]
Parent(id, p) == [type |-> "parent", id |-> id, parent |-> p]
Initial(id) == [type |-> "initial", id |-> id]
Unmapped(id) == [type |-> "unmapped", id |-> id]

Init ==
  /\ unborn = Windows /\ mapped = {} /\ focus = NoWindow /\ bound = {} /\ changes = 0
  /\ events = <<>> /\ requests = <<>>
  /\ wm = "unset" /\ setups = 0 /\ timers = <<>>
  /\ obj = <<>> /\ windows = <<>> /\ activeWindow = 0
  /\ modelUp = FALSE /\ model = <<>> /\ crashed = FALSE
-----------------------------------------------------------------------------
(* The compositor.                                                         *)

\* The objects the compositor has to tell about window w, in any order.
Watching(w) == {id \in bound : obj[id].win = w}

States(w, set) ==
  {[n \in DOMAIN ids |-> StateEvent(ids[n], set)] : ids \in SetToSeqs(Watching(w))}
Unmappings(w) == {[n \in DOMAIN ids |-> Unmapped(ids[n])] : ids \in SetToSeqs(Watching(w))}

MapWindow(w) ==
  /\ w \in unborn
  /\ unborn' = unborn \ {w}
  /\ mapped' = mapped \union {w}
  /\ events' = IF wm = "bound" THEN Append(events, Announce(w, setups)) ELSE events
  /\ UNCHANGED <<focus, bound, changes, requests, clientVars>>

\* Mutant: the compositor goes on saying that the window is active.
UnmapKeepingFocus(w) ==
  /\ w \in mapped
  /\ mapped' = mapped \ {w}
  /\ \E news \in Unmappings(w) : events' = events \o news
  /\ UNCHANGED <<unborn, focus, bound, changes, requests, clientVars>>

UnmapWindow(w) ==
  /\ w \in mapped
  /\ mapped' = mapped \ {w}
  /\ focus' = IF focus = w THEN NoWindow ELSE focus
  /\ \E news \in Unmappings(w) : events' = events \o news
  /\ UNCHANGED <<unborn, bound, changes, requests, clientVars>>

\* The two windows concerned hear of it in either order.
Activate(w) ==
  /\ changes < MaxChanges
  /\ w # focus
  /\ changes' = changes + 1
  /\ focus' = w
  /\ \E lost \in States(focus, FALSE), won \in States(w, TRUE) :
       events' = events \o lost \o won \/ events' = events \o won \o lost
  /\ UNCHANGED <<unborn, mapped, bound, requests, clientVars>>

\* A window's parent changes, to another window or to none.
Reparent(id, p) ==
  /\ changes < MaxChanges
  /\ id \in bound /\ obj[id].win \in mapped
  /\ p \in bound \union {0} /\ p # id
  /\ p # 0 => obj[p].win \in mapped
  /\ changes' = changes + 1
  /\ events' = Append(events, Parent(id, p))
  /\ UNCHANGED <<unborn, mapped, focus, bound, requests, clientVars>>

\* get_window or get_window_by_uuid is answered with all there is to know of
\* the window, or with unmapped.
ServeGetWindow ==
  /\ requests # <<>>
  /\ LET r == Head(requests)
     IN  /\ bound' = bound \union {r.id}
         /\ events' = events \o IF r.win \in mapped
                                  THEN <<StateEvent(r.id, r.win = focus), Initial(r.id)>>
                                  ELSE <<Unmapped(r.id)>>
  /\ requests' = Tail(requests)
  /\ UNCHANGED <<unborn, mapped, focus, changes, clientVars>>

CompositorNext ==
  \/ \E w \in Windows : MapWindow(w) \/ UnmapWindow(w)
  \/ \E w \in mapped \union {NoWindow} : Activate(w)
  \/ \E id \in Ids, p \in 0 .. Len(obj) : Reparent(id, p)
  \/ ServeGetWindow
-----------------------------------------------------------------------------
(* The client: the handlers of events.  libwayland drops the events of a   *)
(* proxy that is gone.                                                     *)

Alive(id) == obj[id].phase # "deleted"

\* Takes the next event of type t for an object that still exists.
Takes(t) == events # <<>> /\ Head(events).type = t /\ events' = Tail(events)
Dispatch(t) == Takes(t) /\ Alive(Head(events).id)

Dropped ==
  /\ events # <<>>
  /\ LET e == Head(events)
     IN  IF e.type = "window" THEN wm # "bound" \/ e.epoch # setups ELSE ~Alive(e.id)
  /\ events' = Tail(events)
  /\ UNCHANGED <<serverVars, requests, clientVars>>

\* Mutant: one timer for all windows, which remembers the last.
windowCallbackWithOneTimer ==
  /\ Takes("window")
  /\ wm = "bound" /\ Head(events).epoch = setups
  /\ timers' = <<Head(events).win>>
  /\ UNCHANGED <<serverVars, requests, wm, setups, obj, windows, activeWindow,
                 modelUp, model, crashed>>

\* windowCallback, windowWithUuidCallback: start a zero timer.
windowCallback ==
  /\ Takes("window")
  /\ wm = "bound" /\ Head(events).epoch = setups
  /\ timers' = Append(timers, Head(events).win)
  /\ UNCHANGED <<serverVars, requests, wm, setups, obj, windows, activeWindow,
                 modelUp, model, crashed>>

\* windowCreated: a PlasmaWindow for the proxy, appended to windows().
windowCreated(w) ==
  /\ obj' = Append(obj, [win |-> w, epoch |-> setups, phase |-> "mapped",
                         active |-> FALSE, parent |-> 0])
  /\ windows' = Append(windows, Len(obj) + 1)

\* The timer's slot asks for the window and creates its object.
TimerFires ==
  /\ timers # <<>>
  /\ wm = "bound"
  /\ timers' = Tail(timers)
  /\ requests' = Append(requests, [id |-> Len(obj) + 1, win |-> Head(timers)])
  /\ windowCreated(Head(timers))
  /\ UNCHANGED <<serverVars, events, wm, setups, activeWindow, modelUp, model, crashed>>

\* It does not look whether the proxy is still there.  What a client that
\* survives this would do is of no interest: it goes on without the window.
TimerFiresOnNullProxy ==
  /\ timers # <<>>
  /\ wm # "bound"
  /\ timers' = Tail(timers)
  /\ crashed' = TRUE
  /\ UNCHANGED <<serverVars, events, requests, wm, setups, obj, windows, activeWindow,
                 modelUp, model>>

\* Mutant: any window that is no longer active clears activeWindow().
ActiveAfterAnyLoss(id, set) == IF set THEN id ELSE 0

\* The slot connected to activeChanged.
ActiveAfter(id, set) ==
  IF obj[id].phase = "unmapped" THEN activeWindow
  ELSE IF set THEN id
  ELSE IF activeWindow = id THEN 0 ELSE activeWindow

\* stateChangedCallback: setActive() emits only when the flag changes.
stateChangedCallback ==
  /\ Dispatch("state")
  /\ LET e == Head(events)
     IN  /\ obj' = [obj EXCEPT ![e.id].active = e.set]
         /\ activeWindow' = IF obj[e.id].active = e.set THEN activeWindow
                                                        ELSE ActiveAfter(e.id, e.set)
  /\ UNCHANGED <<serverVars, requests, wm, setups, timers, windows, modelUp, model, crashed>>

\* parentWindowCallback: the parent is looked up in windows(), and refused
\* when it is unmapped.
parentWindowCallback ==
  /\ Dispatch("parent")
  /\ LET e == Head(events)
         known == e.parent \in ToSet(windows) /\ obj[e.parent].phase = "mapped"
     IN  obj' = [obj EXCEPT ![e.id].parent = IF known THEN e.parent ELSE 0]
  /\ UNCHANGED <<serverVars, requests, wm, setups, timers, windows, activeWindow,
                 modelUp, model, crashed>>

\* Mutant: addWindow() does not look for the window.
initialStateCallbackAddingTwice ==
  /\ Dispatch("initial")
  /\ model' = IF modelUp THEN Append(model, Head(events).id) ELSE model
  /\ UNCHANGED <<serverVars, requests, wm, setups, timers, obj, windows, activeWindow,
                 modelUp, crashed>>

\* initialStateCallback, and the model's slot on windowCreated: addWindow()
\* looks for the window first.
initialStateCallback ==
  /\ Dispatch("initial")
  /\ LET id == Head(events).id
     IN  model' = IF /\ modelUp
                     /\ obj[id].phase = "mapped"
                     /\ id \notin ToSet(model)
                    THEN Append(model, id)
                    ELSE model
  /\ UNCHANGED <<serverVars, requests, wm, setups, timers, obj, windows, activeWindow,
                 modelUp, crashed>>

\* The slot of the window list on a window's unmapped.
LeavesList(id) ==
  /\ windows' = Without(windows, id)
  /\ activeWindow' = IF activeWindow = id THEN 0 ELSE activeWindow

\* Mutant: nobody listens to the parent's unmapped.
ParentKept(n, id) == obj[n].parent

\* The slot of window n on its parent's unmapped.
ParentWithout(n, id) == IF obj[n].parent = id THEN 0 ELSE obj[n].parent

\* The slot of the model on a window's unmapped.
RowsWithout(id) == Without(model, id)

\* unmappedCallback, and the slots on unmapped: of the window list, of the
\* windows that have this one as their parent, and of the model.
unmappedCallback ==
  /\ Dispatch("unmapped")
  /\ LET id == Head(events).id
     IN  /\ obj' = [n \in Ids |-> IF n = id THEN [obj[n] EXCEPT !.phase = "unmapped"]
                                            ELSE [obj[n] EXCEPT !.parent = ParentWithout(n, id)]]
         /\ LeavesList(id)
         /\ model' = RowsWithout(id)
  /\ UNCHANGED <<serverVars, requests, wm, setups, timers, modelUp, crashed>>

\* The deferred deletion: the proxy and the slots of the object go.
DeleteLater(id) ==
  /\ obj[id].phase = "unmapped"
  /\ obj' = [obj EXCEPT ![id].phase = "deleted", ![id].parent = 0]
  /\ UNCHANGED <<serverVars, events, requests, wm, setups, timers, windows, activeWindow,
                 modelUp, model, crashed>>
-----------------------------------------------------------------------------
(* The client: calls of the user.                                          *)

\* setup() on a fresh proxy: the compositor announces what is mapped.
Setup ==
  /\ wm = "unset" /\ setups < MaxSetups
  /\ wm' = "bound"
  /\ setups' = setups + 1
  /\ \E order \in SetToSeqs(mapped) :
       events' = events \o [n \in DOMAIN order |-> Announce(order[n], setups + 1)]
  /\ UNCHANGED <<serverVars, requests, timers, obj, windows, activeWindow, modelUp,
                 model, crashed>>

\* createWindowModel(): starts with all the windows there are.
CreateModel ==
  /\ ~modelUp
  /\ modelUp' = TRUE
  /\ model' = windows
  /\ UNCHANGED <<serverVars, events, requests, wm, setups, timers, obj, windows,
                 activeWindow, crashed>>

\* release(): the model is reset, the proxy destroyed; the windows and their
\* proxies stay.
Release ==
  /\ wm = "bound"
  /\ wm' = "unset"
  /\ model' = <<>>
  /\ UNCHANGED <<serverVars, events, requests, setups, timers, obj, windows, activeWindow,
                 modelUp, crashed>>

\* destroy(), which follows the end of the connection: nothing arrives any
\* more, the proxy is freed; the model only listens to the other signal.
Destroy ==
  /\ wm = "bound"
  /\ wm' = "unset"
  /\ events' = <<>> /\ requests' = <<>> /\ bound' = {}
  /\ UNCHANGED <<unborn, mapped, focus, changes, setups, timers, obj, windows,
                 activeWindow, modelUp, model, crashed>>
-----------------------------------------------------------------------------
\* libwayland takes the events in order: one of these is enabled at a time.
DispatchEvent ==
  \/ Dropped
  \/ windowCallback
  \/ stateChangedCallback
  \/ parentWindowCallback
  \/ initialStateCallback
  \/ unmappedCallback

UserNext == Setup \/ CreateModel \/ Release \/ Destroy

Next ==
  \/ CompositorNext
  \/ DispatchEvent
  \/ TimerFires
  \/ TimerFiresOnNullProxy
  \/ \E id \in Ids : DeleteLater(id)
  \/ UserNext

\* The event loops of the client and of the compositor run; nobody has to
\* map a window or to call anything.
Fairness ==
  /\ WF_vars(DispatchEvent)
  /\ WF_vars(TimerFires)
  /\ WF_vars(ServeGetWindow)

Spec == Init /\ [][Next]_vars /\ Fairness
-----------------------------------------------------------------------------
Object == [win : Windows, epoch : 1 .. MaxSetups,
           phase : {"mapped", "unmapped", "deleted"},
           active : BOOLEAN, parent : Nat]

TypeOK ==
  /\ mapped \subseteq Windows \ unborn
  /\ focus \in mapped \union {NoWindow}
  /\ bound \subseteq Ids
  /\ wm \in {"unset", "bound"} /\ setups \in 0 .. MaxSetups
  /\ timers \in Seq(Windows)
  /\ obj \in Seq(Object)
  /\ \A id \in Ids : obj[id].parent \in 0 .. Len(obj)
  /\ windows \in Seq(Ids) /\ model \in Seq(Ids)
  /\ activeWindow \in 0 .. Len(obj)

\* windows() lists every object that was created and not unmapped, once:
\* a pointer in it never dangles (windowCreated, unmappedCallback).
WindowsAreMapped ==
  /\ ToSet(windows) = {id \in Ids : obj[id].phase = "mapped"}
  /\ IsInjective(windows)

\* activeWindow() is a listed window that says of itself that it is active,
\* whatever the order in which the state events of two windows and the
\* unmapped events arrive.
ActiveWindowIsActive ==
  activeWindow # 0 => activeWindow \in ToSet(windows) /\ obj[activeWindow].active

\* A window never keeps a parent that is unmapped, let alone deleted: the
\* slot on the parent's unmapped clears it (setParentWindow).
ParentIsMapped ==
  \A id \in Ids : obj[id].parent # 0 => obj[obj[id].parent].phase = "mapped"

\* The list, the active window and the parents are consistent at every moment,
\* whatever the order in which the events of two windows arrive: each pointer the
\* user can reach is to a window that is there (windowCreated, setParentWindow).
WindowsConsistent == WindowsAreMapped /\ ActiveWindowIsActive /\ ParentIsMapped

\* The rows of the model are listed windows, each in one row, in the order
\* of windows(): no row outlives its window, whether the model was created
\* before or after the window and its initial state.
ModelFollowsWindows ==
  /\ ToSet(model) \subseteq ToSet(windows) /\ IsInjective(model)
  /\ \A i, j \in DOMAIN model, m, n \in DOMAIN windows :
       model[i] = windows[m] /\ model[j] = windows[n] /\ i < j => m < n

\* With nothing on its way the client sees what the compositor sees: the
\* mapped windows, the active one, and all of them in the model.
Quiet == wm = "bound" /\ events = <<>> /\ requests = <<>> /\ timers = <<>>

QuietViewMatches ==
  Quiet => /\ {obj[id].win : id \in ToSet(windows)} = mapped
           /\ IF activeWindow = 0 THEN focus = NoWindow
                                  ELSE focus = obj[activeWindow].win
           /\ modelUp => model = windows

\* A mapped window comes into view, in the model if there is one, unless it
\* is unmapped or the interface released first (windowCallback, TimerFires).
Shown(w) == \E id \in ToSet(IF modelUp THEN model ELSE windows) : obj[id].win = w

MappedComesIntoView ==
  \A w \in Windows : wm = "bound" /\ w \in mapped ~> Shown(w) \/ w \notin mapped \/ wm # "bound"

\* An unmapped one leaves it, also when it was unmapped before the client asked.
UnmappedLeavesView ==
  \A w \in Windows : Shown(w) /\ w \notin mapped ~> ~Shown(w) \/ wm # "bound"

\* What the user sees moves with what the compositor shows (windowCreated,
\* PlasmaWindowModel::addWindow and their slots on unmapped).
ViewMoves == MappedComesIntoView /\ UnmappedLeavesView

\* plasmawindowmanagement.h, of destroy(): "This method cleans up the data,
\* so that the instance can be deleted or set up to a new
\* org_kde_plasma_window_management interface once there is a new connection
\* available".  The zero timers and their captured pointer are left over.
NoRequestOnNullProxy == ~crashed
=============================================================================
