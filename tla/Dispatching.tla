----------------------------- MODULE Dispatching -----------------------------
(***************************************************************************)
(* The two threads of a connection, call by call into libwayland: the      *)
(* ConnectionThread, which reads events and dispatches the default queue,  *)
(* and the user's thread, which creates a Registry and objects on an       *)
(* EventQueue and dispatches that.  libwayland locks the display for each  *)
(* call, so the threads interleave between calls, and nowhere else.        *)
(*                                                                         *)
(* A new proxy is in the queue of the proxy it was requested with, that of *)
(* the display being the default queue.  An event is put into the queue    *)
(* its proxy is in when the event is read, and stays there; when it is     *)
(* dispatched and nobody listens to its proxy it is dropped.               *)
(*                                                                         *)
(* ConnectionThread has the loss of the connection, Registry what an       *)
(* announcement is about.                                                  *)
(***************************************************************************)
EXTENDS Naturals, FiniteSets, Sequences, SequencesExt, Subsequences

CONSTANTS
  Registry, Callback,  \* the wl_registry and the wl_callback of a Registry
  Globals,             \* what the server announces, each bound by the user
  Other,               \* a proxy of the connection's own thread
  MaxOther,            \* bound: events for it
  EarlyTraffic         \* they may come before the Registry is set up

ASSUME DispatchingAssumption ==
  /\ Registry # Callback /\ Registry # Other /\ Callback # Other
  /\ Globals \intersect {Registry, Callback, Other} = {} /\ IsFiniteSet(Globals)
  /\ MaxOther \in Nat /\ EarlyTraffic \in BOOLEAN

VARIABLES
  \* The server.
  inbox,     \* requests it has not served
  wire,      \* events in the socket
  others,    \* events sent to Other
  sent,      \* events sent to the user's proxies
  \* libwayland: requests not flushed, proxies and queues.
  out,
  queueOf,   \* the queue of a proxy: "none" (no proxy), "default", "user"
  listened,  \* proxies with a listener
  queue,     \* the events in each queue
  \* The threads.
  at,        \* where dispatchEvents() is in the connection's thread
  signals,   \* eventsRead() queued to the user's thread
  todo,      \* calls the user's thread is about to make
  created,   \* it has created the Registry
  handled,   \* events it has handled
  astray     \* events of its proxies dispatched in the other thread or dropped

serverVars == <<inbox, wire, others, sent>>
proxyVars == <<queueOf, listened>>
userVars == <<signals, todo, created, handled>>
vars == <<serverVars, out, proxyVars, queue, at, userVars, astray>>

Proxies == {Registry, Callback, Other} \union Globals

Init ==
  /\ inbox = <<>> /\ wire = <<>> /\ others = 0 /\ sent = <<>> /\ out = <<>>
  /\ queueOf = [p \in Proxies |-> IF p = Other THEN "default" ELSE "none"]
  /\ listened = {Other}
  /\ queue = [q \in {"default", "user"} |-> <<>>]
  /\ at = "idle" /\ signals = 0 /\ todo = <<>> /\ created = FALSE
  /\ handled = <<>> /\ astray = {}
-----------------------------------------------------------------------------
(* The server.                                                             *)

Event(p, x) == [to |-> p, about |-> x]

\* The answers to a request for p.
Answers(p) ==
  IF p = Registry THEN {[k \in DOMAIN gs |-> Event(Registry, gs[k])] : gs \in SetToSeqs(Globals)}
                  ELSE {<<Event(p, p)>>}

Serve ==
  /\ inbox # <<>>
  /\ inbox' = Tail(inbox)
  /\ \E es \in Answers(Head(inbox)) : wire' = wire \o es /\ sent' = sent \o es
  /\ UNCHANGED <<others, out, proxyVars, queue, at, userVars, astray>>

SendOther ==
  /\ others < MaxOther
  /\ EarlyTraffic \/ Callback \in listened
  /\ others' = others + 1
  /\ wire' = Append(wire, Event(Other, Other))
  /\ UNCHANGED <<inbox, sent, out, proxyVars, queue, at, userVars, astray>>

Flush == inbox' = inbox \o out /\ out' = <<>>
-----------------------------------------------------------------------------
(* The connection's thread: dispatchEvents().                              *)

\* The socket notifier.
Notified ==
  /\ at = "idle" /\ wire # <<>>
  /\ at' = "prepare"
  /\ UNCHANGED <<serverVars, out, proxyVars, queue, userVars, astray>>

\* The next event of the default queue, before or after reading.
DispatchDefault ==
  /\ at \in {"prepare", "dispatch"}
  /\ queue["default"] # <<>>
  /\ LET e == Head(queue["default"])
     IN  astray' = IF e.to = Other THEN astray ELSE astray \union {e}
  /\ queue' = [queue EXCEPT !["default"] = Tail(@)]
  /\ UNCHANGED <<serverVars, out, proxyVars, at, userVars>>

\* wl_display_prepare_read succeeds on an empty queue; the flush is next.
PrepareRead ==
  /\ at = "prepare" /\ queue["default"] = <<>>
  /\ at' = "read"
  /\ Flush
  /\ UNCHANGED <<wire, others, sent, proxyVars, queue, userVars, astray>>

\* The events of proxies in queue q, in their order.
EventsFor(q) == Kept(wire, {k \in DOMAIN wire : queueOf[wire[k].to] = q})

ReadEvents ==
  /\ at = "read"
  /\ at' = "dispatch"
  /\ queue' = [q \in DOMAIN queue |-> queue[q] \o EventsFor(q)]
  /\ wire' = <<>>
  /\ UNCHANGED <<inbox, others, sent, out, proxyVars, userVars, astray>>

EmitEventsRead ==
  /\ at = "dispatch" /\ queue["default"] = <<>>
  /\ at' = "idle"
  /\ signals' = signals + 1
  /\ UNCHANGED <<serverVars, out, proxyVars, queue, todo, created, handled, astray>>
-----------------------------------------------------------------------------
(* The user's thread.                                                      *)

Call(op, p) == [op |-> op, proxy |-> p]

\* Mutant: listeners are added before the proxies are there.
CreationListeningFirst ==
  <<Call("listen", Registry), Call("listen", Callback),
    Call("request", Registry), Call("request", Callback),
    Call("addProxy", Registry), Call("addProxy", Callback)>>

\* Registry::create(), setEventQueue() and setup(); create() and
\* setEventQueue() in the other order make the same calls.
Creation ==
  <<Call("request", Registry), Call("request", Callback),
    Call("addProxy", Registry), Call("addProxy", Callback),
    Call("listen", Registry), Call("listen", Callback)>>

\* Registry::bind() and the setup() of the object.
Binding(g) == <<Call("request", g), Call("addProxy", g), Call("listen", g)>>

CreateRegistry ==
  /\ ~created /\ todo = <<>>
  /\ created' = TRUE
  /\ todo' = Creation
  /\ UNCHANGED <<serverVars, out, proxyVars, queue, at, signals, handled, astray>>

\* Mutant: every proxy starts in the default queue.
InheritedQueueDefault(p) == "default"

InheritedQueue(p) == IF p \in Globals THEN queueOf[Registry] ELSE "default"

\* The next call.
Doing(op) == todo # <<>> /\ Head(todo).op = op

RequestProxy ==
  /\ Doing("request")
  /\ LET p == Head(todo).proxy
     IN  /\ queueOf' = [queueOf EXCEPT ![p] = InheritedQueue(p)]
         /\ out' = Append(out, p)
  /\ todo' = Tail(todo)
  /\ UNCHANGED <<serverVars, listened, queue, at, signals, created, handled, astray>>

addProxy ==
  /\ Doing("addProxy")
  /\ queueOf' = [queueOf EXCEPT ![Head(todo).proxy] = "user"]
  /\ todo' = Tail(todo)
  /\ UNCHANGED <<serverVars, out, listened, queue, at, signals, created, handled, astray>>

AddListener ==
  /\ Doing("listen")
  /\ listened' = listened \union {Head(todo).proxy}
  /\ todo' = Tail(todo)
  /\ UNCHANGED <<serverVars, out, queueOf, queue, at, signals, created, handled, astray>>

\* eventsRead() is delivered: EventQueue::dispatch().
DeliverEventsRead ==
  /\ todo = <<>> /\ signals > 0
  /\ signals' = signals - 1
  /\ todo' = <<Call("dispatch", Other)>>
  /\ UNCHANGED <<serverVars, out, proxyVars, queue, at, created, handled, astray>>

\* Mutant: only one event is dispatched.
DispatchOne ==
  /\ Doing("dispatch")
  /\ queue["user"] # <<>>
  /\ LET e == Head(queue["user"])
         handler == IF e.to = Registry THEN Binding(e.about) ELSE <<>>
     IN  IF e.to \in listened
           THEN handled' = Append(handled, e) /\ todo' = handler /\ UNCHANGED astray
           ELSE astray' = astray \union {e} /\ UNCHANGED <<handled, todo>>
  /\ queue' = [queue EXCEPT !["user"] = Tail(@)]
  /\ UNCHANGED <<serverVars, out, proxyVars, at, signals, created>>

\* The next event of the EventQueue is dispatched; an announcement makes the
\* user create an object.
DispatchNext ==
  /\ Doing("dispatch")
  /\ queue["user"] # <<>>
  /\ LET e == Head(queue["user"])
         handler == IF e.to = Registry THEN Binding(e.about) ELSE <<>>
     IN  IF e.to \in listened
           THEN handled' = Append(handled, e) /\ todo' = handler \o todo /\ UNCHANGED astray
           ELSE astray' = astray \union {e} /\ UNCHANGED <<handled, todo>>
  /\ queue' = [queue EXCEPT !["user"] = Tail(@)]
  /\ UNCHANGED <<serverVars, out, proxyVars, at, signals, created>>

\* dispatch() flushes and returns.
EndDispatch ==
  /\ Doing("dispatch")
  /\ queue["user"] = <<>>
  /\ todo' = Tail(todo)
  /\ Flush
  /\ UNCHANGED <<wire, others, sent, proxyVars, queue, at, signals, created, handled, astray>>

\* Mutant: only a wake up flushes.
flushAwake ==
  /\ todo = <<>> /\ signals > 0 /\ out # <<>>
  /\ Flush
  /\ UNCHANGED <<wire, others, sent, proxyVars, queue, at, userVars, astray>>

\* aboutToBlock and awake of the event loop in the thread that constructed
\* the ConnectionThread, which is the user's.
flushFromEventLoop ==
  /\ todo = <<>> /\ out # <<>>
  /\ Flush
  /\ UNCHANGED <<wire, others, sent, proxyVars, queue, at, userVars, astray>>
-----------------------------------------------------------------------------
Server == Serve \/ SendOther

ConnectionLoop ==
  Notified \/ DispatchDefault \/ PrepareRead \/ ReadEvents \/ EmitEventsRead

UserLoop ==
  \/ RequestProxy \/ addProxy \/ AddListener
  \/ DeliverEventsRead \/ DispatchNext \/ EndDispatch
  \/ flushFromEventLoop

Next == Server \/ ConnectionLoop \/ CreateRegistry \/ UserLoop

\* Both threads run their event loops, and the server serves requests.
Fairness == WF_vars(Serve) /\ WF_vars(ConnectionLoop) /\ WF_vars(UserLoop)

Spec == Init /\ [][Next]_vars /\ Fairness
-----------------------------------------------------------------------------
Events == [to : Proxies, about : Proxies]
Calls == [op : {"request", "addProxy", "listen", "dispatch"}, proxy : Proxies]

TypeOK ==
  /\ inbox \in Seq(Proxies) /\ out \in Seq(Proxies)
  /\ wire \in Seq(Events) /\ sent \in Seq(Events) /\ handled \in Seq(Events)
  /\ others \in 0 .. MaxOther /\ signals \in Nat
  /\ queueOf \in [Proxies -> {"none", "default", "user"}]
  /\ \A p \in listened : queueOf[p] # "none"
  /\ queue["default"] \in Seq(Events) /\ queue["user"] \in Seq(Events)
  /\ at \in {"idle", "prepare", "read", "dispatch"}
  /\ todo \in Seq(Calls) /\ created \in BOOLEAN
  /\ astray \subseteq Events

\* No handler of the user's objects runs in the connection's thread, and no
\* event is dispatched before somebody listens to it: the queue is inherited
\* and an object is set up before its thread dispatches again.
NothingAstray == astray = {}

\* What an EventQueue promises: the events are handled once, in order and
\* eventually, while the other thread reads and dispatches (dispatchEvents).
Delivery == INSTANCE EventDelivery
DeliversEvents == Delivery!Spec

\* A Registry that is created hears all there is: its requests are flushed,
\* the answers read and dispatched, though no thread waits for another.
EverythingIsHeard ==
  created ~> {handled[k] : k \in DOMAIN handled} =
               {Event(Registry, g) : g \in Globals}
                 \union {Event(p, p) : p \in {Callback} \union Globals}
=============================================================================
