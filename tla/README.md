# KWayland's client library, specified in TLA+

KWayland (`src/src/client/`) wraps the client side of the Wayland protocol in
Qt classes. An application talks to a compositor over a socket: it sends
requests, the compositor sends events, each direction in order, and neither
side waits for the other. The library keeps on the client's side a picture of
what the compositor has (globals, windows, outputs, desktops, offers), shares
memory with it (buffers), and has to keep both right while events are on their
way, while the application calls release or delete at any moment, and while
the compositor exits, crashes and comes back.

This directory holds TLA+ modules that describe those parts of the library,
TLC configurations that check them on small instances, and proofs for TLAPS
that hold for every instance. `PROJECT.json` is the machine-readable index: which
definition stands for which lines, which run checks what, and which hazard of
the code each property is for.

## The system's parts

| part (files in `src/src/client/`) | state it keeps | operations | what is hard | correct when |
|---|---|---|---|---|
| **ShmPool, Buffer** (`shm_pool`, `buffer`) | fd, size, offset, mapping, list of buffers; per buffer released, used, address | setup, getBuffer (reuse, append, grow), setReleased, setUsed, release, destroy; the event `wl_buffer.release` | memory shared with another process; growth remaps and can fail half way; teardown and a new set up | buffers never overlap nor leave the pool; nobody's memory is given to somebody else |
| **PlasmaWindowManagement, PlasmaWindow, PlasmaWindowModel** | list of windows, active window, parent of each window, rows of the models, proxy | events window, state_changed, parent_window, initial_state, unmapped; zero timers; release, destroy, setup | one announcement needs timer, request and answer; two proxies of one window; windows go at any step; deletion in two steps | list, active window, parents and rows are consistent at every moment and agree with the compositor once things are quiet |
| **ConnectionThread, EventQueue** (`connection_thread`, `event_queue`) | display, socket notifier, file watcher, error, serverDied; the user's queue | initConnection, dispatchEvents, the notifications of the file watcher; EventQueue setup, dispatch, destroy | two threads, late file notifications, crash and restart of the compositor | one connection at a time, every end of a connection is told, every event read is dispatched |
| **Registry** (`registry`) | cache of globals, registry and callback proxies, wl_fixes; objects it created | create, setup, bind, create<Interface>, release, destroy; events global, global_remove, done | globals vanish while the user acts on their announcement; objects outlive the registry; reconnecting | signals and cache agree; only legal bind requests; no object survives its connection |
| **Output, Surface** (`output`, `surface`) | modes, current mode; outputs of a surface, frame callback | events mode, done, enter, leave; release | list edited while an iterator is kept; output deleted while a surface is on it | one current mode, no dangling output |
| **Xdg shell** (`xdgshell*`, `shell`) | pending and current size and states | create, requests, configure events of four protocols | double buffering, a window released and made again, edges as names in one protocol and bits in the other | the user is told each configure as it was sent |
| **XdgOutput, Dpms, TextInput** (`xdgoutput`, `dpms`, `textinput*`) | pending and current state | attribute events, then done or a string | attributes left out of a batch; indices of characters against indices of bytes | the current state is what the last batch says |
| **DataDevice, DataOffer, DataSource** (`datadevice`, `dataoffer`, `datasource`) | last offer, drag, selection | data_offer, enter, leave, drop, selection | an offer is announced before it is known what it is for | an offer is used for one purpose and freed once |
| **Seat, Keyboard, Pointer, Touch** (`seat`, `keyboard`, `pointer`, `touch`) | capabilities; focus; touch sequence and its points | capability and input events | cancel between events, capabilities that go, surfaces that are gone when an event names them | focus and touch points are the compositor's |
| **PlasmaVirtualDesktopManagement** (`plasmavirtualdesktop`) | list of desktops in order | created, removed, activated | an object may be asked for before it is announced | the list is the compositor's list |
| **PlasmaShell** (`plasmashell`) | the shell surfaces by surface | createSurface, release | the Surface an object was found by may have been deleted | one shell surface per Surface |
| **XdgForeign** (`xdgforeign*`) | exported and imported proxies | export, import, destroyed | two managers, children that end by themselves | a child is dead once destroyed came |
| **thin wrappers** (compositor, region, subsurface, blur, slide, shadow, ...) | a proxy each, a region also its value | one request per method, release, destroy | the connection dies or the manager goes before the child | nothing is sent on a proxy that is gone |
| **code generator, manual test clients** | none at run time | | | |

How they interact: the **ConnectionThread** runs in a thread of its own, reads
the socket and emits `eventsRead`, `connected`, `connectionDied`,
`errorOccurred`; Qt delivers these as queued calls to the application's thread.
There the **EventQueue** dispatches what was read to the listeners of the
proxies, and the **Registry** announces globals, from which the application
creates all other objects. `Registry::create(ConnectionThread*)` connects
`connectionDied` to `Registry::destroy`, which makes every object created
through the registry destroy its proxy. A **Buffer** of the **ShmPool** is
attached to a **Surface**; the compositor's release event gives it back.

## Modules

| module | models | composed with |
|---|---|---|
| `MemoryLender` | abstract: memory lent and given back, never lent twice at a time | implemented by `ShmPool` |
| `ShmPool` | `shm_pool.cpp`, `buffer.cpp`, user and compositor as environment | |
| `PlasmaWindowManagement` | `plasmawindowmanagement.cpp`, `plasmawindowmodel.cpp`, compositor as environment | |
| `PlasmaWindowManagementProofs` | theorems about `PlasmaWindowManagement` | |
| `StackingOrder` | the stacking order in `plasmawindowmanagement.cpp` | `interfaces` |
| `WindowAttributes` | attributes of a `PlasmaWindow`, roles of `plasmawindowmodel.cpp` | `interfaces` |
| `ConnectionThread` | `connection_thread.cpp`, `event_queue.cpp`, set up and end of the registry; servers and file system as environment | |
| `ConnectionAndPoolProofs` | theorems about `ShmPool` and `ConnectionThread` | |
| `EventDelivery` | abstract: events handled once, in order, eventually | implemented by `Dispatching` |
| `Dispatching` | `ConnectionThread` and `EventQueue` call by call into libwayland (`dispatchEvents`, `EventQueue::dispatch`, `addProxy`), `Registry::create`, `setEventQueue`, `setup`, `bind`; libwayland's queues and the server as environment | the finer grain of what `ConnectionThread` takes as one step |
| `DispatchingProofs` | theorems about `Dispatching` | |
| `Registry` | `registry.cpp`; server and user as environment | its `ConnectionDies` is the signal of `ConnectionThread` |
| `RegistryProofs` | theorems about `Registry` | |
| `Outputs` | `output.cpp`, `surface.cpp` | its `outputRemoved` is `removed()` of `Registry` |
| `OutputsProofs` | theorems about `Outputs` | |
| `Wrappers` | set up, use, release and destruction of every wrapper class | `interfaces`; its `ConnectionDies` is that of `Registry` |
| `XdgShell` | `xdgshell.cpp`, `xdgshell_stable.cpp`, `_v6`, `_v5`, `shell.cpp` | `interfaces` |
| `OutputExtensions` | `xdgoutput.cpp`, `dpms.cpp` | `interfaces` |
| `TextInput` | `textinput_v0.cpp`, `textinput_v2.cpp` | `interfaces` |
| `DataDevice` | `datadevice.cpp`, `dataoffer.cpp` | `interfaces` |
| `InputDevices` | focus and capabilities: `seat.cpp`, `keyboard.cpp`, `pointer.cpp`, `textinput*.cpp`, `Surface::get` | `interfaces` |
| `Touch` | `touch.cpp` | `interfaces` |
| `VirtualDesktops` | `plasmavirtualdesktop.cpp` | `interfaces` |
| `PlasmaShell` | `PlasmaShell::createSurface` in `plasmashell.cpp` | `interfaces` |
| `CompositorViews` | the six interfaces that show what the compositor has (`StackingOrder`, `WindowAttributes`, `VirtualDesktops`, `PlasmaShell`, `InputDevices`, `Touch`) in one specification: each behaviour is about one component, the others keep their initial state. They share no state in the code either. | `Interfaces` |
| `CompositorViewsProofs` | theorems about `CompositorViews` | |
| `Interfaces` | `CompositorViews` with the other five modules that say `interfaces` | |
| `InterfacesProofs` | theorems about `Interfaces` | |
| `Subsequences` | what is left of a sequence, which of some places is the first, a sequence with one more, a set in a row, short sequences joined: by counting and without recursion, so that the provers can follow | the modules that filter, search, list or join |
| `Replay` | lemmas on queues and sequences that the proofs share | |
| `MC*` | values for the constants | |

An action stands for one handler, slot or call, with the signals it emits
directly; events on the wire and queued signals are sequences. Proxies are
small numbers or flags, 0 or FALSE being the null pointer. A definition whose
comment starts with "Mutant:" is not part of the specification: it is a copy of
another definition with a plausible mistake, used to see that a property
notices it.

### ShmPool

State: the proxies `shm` and `pool`, the file `fd`, the `mapping` (`poolData`),
`size` and the `serverSize` the compositor was told, `valid`, `offset`, and
`buffers`, each with its kind, its place and the flags released and used. Who
has a buffer is in four sets: `drawing` (the user writes to it), `busy` (the
compositor reads it), `releasing` (its release event is on its way) and
`stale` (somebody shares its memory by an address of an earlier mapping). The
`int32_t` sums of `getBuffer` go through `Wrap` and `MaxInt`. A *kind* is what
decides whether a buffer can be used again: image size, stride and format.
`GetBuffer` is a disjunction over what the call can turn out to do: reuse, append
in place, grow and append, fail to truncate, fail to map. The user is the rest
of the application (`Commit`, `Redraw`, `SetUsed`, `ClearUsed`); the compositor
reads what was committed and releases it, and the release event arrives later.

Abstraction: `MemoryLender` says memory is a set of extents lent to someone and
taken back. `ShmPool` implements it with the bytes of all buffers that are held
(`LendsMemory`).

### PlasmaWindowManagement

The compositor (external) has windows with a parent, an active window, and one
resource per `PlasmaWindow` it was asked for. The client has the proxy of the
interface, the zero timers not yet fired, the `PlasmaWindow` objects (mapped,
unmapped or deleted), `windows`, `activeWindow` and the rows of a model. Every handler in `s_listener` that moves windows between these is
an action. `LeavesList`, `ParentWithout` and `RowsWithout` are the three slots that
run inside the signal `unmapped`.

### ConnectionThread

The thread has the display, the socket notifier, the file watcher with what it
watches, pending notifications and queued calls of `doInitConnection`. The
user's thread has a queue of signals, the display that EventQueue and Registry
are set up on, and the batches of events in the event queue. Handling
`fileChanged` is split in two steps (`FileGone`, `WatchDirectory`) because the
file system can change between the check of the file and the watch on its
directory. External are servers (start, bind, listen, stop, crash, protocol
error) and the file notifications.

### Dispatching

The thread of the connection runs `dispatchEvents` (`at` is where it is in it)
and the user's thread makes the calls in `todo`; libwayland locks the display
for each call, so the threads interleave between calls and nowhere else. The
server's answers go over `wire` into the `queue` that the proxy they are for is
in when they are read. A proxy starts in the queue of the proxy it was made from
(`InheritedQueue`), is moved by `addProxy` and has no listener until `setup`
added it; an announcement dispatched in `DispatchNext` puts the calls of
`Binding` before the rest of the dispatch. Requests wait in `out` until one of
three places flushes them: `dispatchEvents`, the end of `EventQueue::dispatch`
and the event loop's `aboutToBlock` and `awake`. `astray` collects events of the
user's objects that are dispatched in the other thread or while nobody
listens. `created` stands for a user who creates one registry and lets nothing
go: deletion is in `Registry`, loss of the connection in `ConnectionThread`.

Abstraction: `EventDelivery` knows two sequences, the events sent and those
handled, the second always a prefix of the first and in the end all of it.

### Registry

The server numbers its globals, announces them, answers the sync, adds and
removes. The client has the proxies, the cache, and the objects created from
it; `seen` is what a user who goes by the per-interface signals believes.
Events are tagged with the registry they were sent for: after `release()`
libwayland drops what is still on its way. The server announces in any order.
`release()` keeps the connections of signals; `Delete` is the destructor, after
which neither the Registry nor what was created from it is connected to anything
(`exists`, `connected`). `Create` stands for both overloads of `create()`: only the one
that takes a `ConnectionThread` connects `connectionDied` to `destroy()`. When the
connection dies and nobody is told, the objects keep a proxy that *dangles*, until the
user calls `Destroy` on the Registry or deletes them.

### Outputs

The compositor has outputs that are unplugged and switch modes, and one
surface, which it puts on outputs and answers frame callbacks for. The client
has an `Output` for each, with its list of `modes` and the `currentMode`; and a
`Surface` with its list `outputs` and the flag of the frame callback. A mode is
a number for a size and a refresh rate. `addMode` edits the list while it walks
it and keeps an iterator to the new entry: `WithMode` is what the walk does to
the list, `WalkLosesEnd` is when the iterator is no longer valid, and then
`undefined` ends the behaviour. The frame callback is a proxy nobody destroys, so
its event may come after the surface was deleted: `undefined` says so as well.

### Wrappers

Nearly every class of the library is a proxy, or two, in a `WaylandPointer`, made
by a manager. `Class` is a table with a row for each of them, taken from its
source: the proxies in the order they are freed, the requests and the proxy each
is made on, what `release()`, `destroy()` and `isValid()` are about, whether the
object ends with its manager, whether the application may own the proxy, what it
remembers. `Init` chooses a family, a manager and a kind of child; the actions
are the life of one of each: `Construct`, `CreateChild`, `Setup`, `FromApplication`,
`Request`, `Remember`, `Release`, `DeleteChild`, `DeleteManager`, `EndEvent` (the
compositor says that the object is over), and `Connect` and `ConnectionDies`.
`held` is the connection each proxy belongs to, `sent` the requests of the last
step in their order, `memo` and `told` what a region or sub-surface remembers and
what the compositor knows of it.

### XdgShell

One window or popup of one of four protocols, chosen in `Init`, which may be
released and made again; a popup is set up once, for its `release()` frees the role and
leaves the xdg surface with its listener (`ReleasePopup`), whose events go on being
announced while libwayland drops those of the role (`droppedConfigure`). The compositor
sends configures: in xdg-shell stable
and v6 events of the role (`SendRole`) and then one of the xdg surface
(`SendSurface`), in the others one event. `batches` is what was meant.
`configureCallback` fills `pendingSize` and `pendingState`,
`surfaceConfigureCallback` announces and applies them. The edges of a resize and
the positioner of a popup are translated as each protocol's code does, names
(`EdgeName`) or bits (`BitsV6`), and read back as the compositor would. The bits of the
constraints, one `if` for each, are taken as they are.

### VirtualDesktops, PlasmaShell, StackingOrder

*VirtualDesktops*: the compositor's list is edited anywhere and told in events with
positions; the user asks for objects of any identifier at any time
(`getVirtualDesktop`), before the desktop is announced and while its removal is on
its way. *PlasmaShell*: Surfaces come and go, and a new one may lie at the
address of a deleted one; `Found` is the search by `QPointer`.
*StackingOrder*: each `stacking_order_changed` starts a request with an object of
its own (`lists`); answers come window by window and several may be under way;
`release()` and the destructor come between.

### WindowAttributes

`data(w)` is what `PlasmaWindowModel::data` answers for each role; `view` is what
a view shows, which reads a role only when `dataChanged` names it. Each flag and each
attribute is a role of its own with a signal of its own, except for the process id, which
changes without one (`pidChangedCallback`). Flags come in one number, desktops and activities one at a time; `isOnAllDesktops` depends on
the flag below version 8 of the protocol and on the list from there on. The
user's `Toggle` is a request the compositor handles later. An icon is read in
another thread: `fetches` end in any order.

### OutputExtensions, TextInput

*OutputExtensions*: a batch is attributes and then `done`. `XdgOutput` swaps pending
and current, `Dpms` applies what has arrived and starts anew. *TextInput*:
preedit cursor, cursor position and deletion wait for the next string; the input
method's `said` is put together by the model as the protocol means it, the
client's by the handlers of V0 and V2. `setSurroundingText` turns an index into
UTF-16 units into one into bytes of UTF-8: characters of one, two and four bytes,
the last a pair of units.

### InputDevices, Touch, DataDevice

*InputDevices*: a seat with capabilities that come and go, one device made from it (or a
text input of V0 or V2 from its manager; V0 is sent no serials), and Surfaces that are released or deleted
while events that name them are on their way; `get` is `Surface::get`, which
compares proxies, null ones too. *Touch*: points with numbers that are used
again; a sequence ends with its last point or by `cancel`. *DataDevice*: offers
are announced, described and then used by `selection` or `enter`, which take
`lastOffer`; drags of the client itself come without an offer; the user takes
offers over and deletes them.

## Runs

| run | question | bounds |
|---|---|---|
| `shm_pool` | layout, reuse, growth and failures of a pool; refinement of the lender | 2 kinds of different size, initial size 2, file limit 5, MaxInt 7, 3 buffers |
| `window_management` | the client's view at every moment and when quiet | 2 windows, 1 set up, 2 changes by the compositor |
| `window_management_timer` | *violation*: is a request only sent on a proxy? | no changes |
| `connection` | loss, errors and reconnecting | 3 servers, 2 batches of events, 2 calls of initConnection |
| `connection_reconnect` | *violation*: is a socket that reappears tried? | 2 servers, no events, 1 call |
| `dispatching` | events between two threads; refinement of the delivery | 2 globals, 2 events of other objects, none of them before the registry is set up |
| `dispatching_early` | *violation*: does the queue of a registry hear all its events? | 1 other event, at any time |
| `registry` | globals that come and go, release, destroy, loss of the connection | 4 interfaces, one of them unknown to the library; 3 globals, 1 create, 1 object |
| `registry_reconnect` | *violation*: does bind find only existing names? | 2 globals, 2 creates |
| `outputs` | modes, enter and leave, outputs that go, frame callbacks | 2 outputs, 2 modes each, 3 changes by the compositor |
| `outputs_modes` | *violation*: are the modes of an output always defined? | 1 output, 3 modes, 3 changes |
| `interfaces` | the eleven interfaces that share no state, each on its own | two of whatever there can be many of, 2 to 4 events on their way; below |

Why the bounds are enough. *ShmPool*: three buffers of two sizes allow reuse
with a buffer before and behind the reused one, growth by one buffer and growth
by more than a doubling; the file limit makes growth fail, and `MaxInt` above
it leaves the sums without overflow, as `FileFitsInt` asks. The properties
relate at most two buffers; the proofs remove the bounds. *Windows*: each
property relates a window to at most one other (its parent, the one that had
the focus). Two changes let focus go and come back, or a parent change and go.
*Connection*: three servers give two restarts, so that a second restart can
overlap what the first left; two batches tell a missed dispatch from a late
one. *Registry*: with three globals there is `wl_fixes`, a global that is
removed and one that stays; objects do not look at each other, so one is as
good as many. One create, because a second one breaks the cache, which
`registry_reconnect` shows. *Dispatching*: two globals
let one be announced while the other is being bound; two events of other objects
let the connection's thread be between any two of its calls, twice. *Outputs*: an output that goes and one that stays;
with three changes the surface can enter an output, leave it or not, and the
output go. Two modes are as many as the list can hold without the undefined
walk, which `outputs_modes` shows with three.
*Interfaces* (the values are in `MCInterfaces`): two desktops, windows, points,
Surfaces, types and values, so that one can change beside another; three objects
where one is deleted, one takes its place and one is held (desktops, shell
surfaces); four touch points with two numbers, so that each number is used again;
two configures, each with or without an event of the role, over two lives of a window;
three batches, the third to tell a swap of pending and current from a copy; two
connections, so that a proxy of the first meets the second. `MCFamilies` has
every manager, and every child whose class can free all it holds. Queues are long
enough for a whole batch or announcement, and an act of the user between any two
of its events.

Sizes: `shm_pool` 22 000 states, `window_management` 67 000, `connection`
34 000, `dispatching` 17 000, `registry` 2.2 million, `outputs` 3.5 million (with
symmetry of the outputs), `interfaces` 1.3 million.

Deadlock is not checked where the environment's bounds let the system stop.

### What the passing runs show

* `shm_pool`: buffers never overlap (`BuffersDisjoint`) and lie in the pool
  (`BuffersInsidePool`) in any order of reuse, growth, failed growth, teardown
  and set up; `getBuffer` gives out only buffers nobody holds
  (`NoReuseWhileHeld`); an address that is in use outside the pool is never one
  of a mapping that is gone (`SharedAddressesFresh`); memory is lent to one
  holder at a time (`LendsMemory`).
* `window_management`: the list has every window object that was not unmapped,
  once, the active window is listed and active, a parent is not unmapped
  (`WindowsConsistent`); the rows of a model are listed windows in the list's order
  (`ModelFollowsWindows`); once nothing is under way all of it equals the
  compositor's state (`QuietViewMatches`); a mapped window comes into view and an
  unmapped one leaves it (`ViewMoves`).
* `connection`: the notifier watches the socket of the display in use; a
  connection is not replaced while it is in use and one reappearance of a socket
  leads to one attempt; a user that follows the signals never sets up a queue
  that is set up; a reconnected thread has no error left over, and a lost one is
  on its way to the next connection (`ConnectionIsWhole`); the user is told of the
  end of a connection by `connectionDied` or `errorOccurred` (`EndIsTold`); what is
  read is dispatched (`EventsAreDispatched`).
* `dispatching`: a handler of the user's objects runs in the user's thread only
  and after the object was set up (`NothingAstray`); the events are handled once,
  in order and all of them (`DeliversEvents`); a registry that is created hears
  every global, and every object bound from it is answered, though requests are
  buffered and neither thread waits for the other (`EverythingIsHeard`).
* `outputs`: no mode is listed twice and the flagged one is the current one and,
  once no mode event is on its way, the compositor's; a surface lists the
  outputs it is on, once each, and no output that went; a surface waiting
  for a frame is owed exactly one.
* `registry`: the signals of the interfaces and the cache agree and `removed()` comes
  once and with the global (`SignalsAreTrue`); a bind request
  names an existing global, its interface and a version both sides have; `interfacesAnnounced()` comes, and
  not before what it promises (`AnnouncementsEnd`: or the registry or the connection ends
  first); no object keeps a proxy after the connection died, even if the registry was
  released before, as long as it is connected to `connectionDied`
  (`NoProxyOutlivesConnection`).
* `interfaces`:
  - `WireIsLegal`, `InvalidHoldsNothing`, `CompositorIsTold` (Wrappers): nothing is sent on
    a proxy of a connection that is gone, a role is destroyed before its xdg
    surface and a child that follows its manager before it; an object that is
    not valid holds no proxy, so that it can be set up again; what a region or a
    sub-surface remembers is what the compositor was told.
  - `ConfigureIsFollowed`: each configure of a window or popup that is set up is announced
    as it was sent, and the window has the size of the last one that gave it a size.
  - `RequestsSayWhatIsMeant`: edges, anchors and gravities read back on the other
    side as the user gave them; the bytes before the cursor are those of the
    text before it.
  - `ListsFollow`: desktops, their active flags, the stacking order, the objects of
    the Plasma shell and the attributes of a window agree with the compositor
    once things are quiet, and an event for a list always finds its place in it.
  - `ViewIsFresh`: a view that reads roles only when told shows what they are, in every
    role but Pid.
  - `BatchesAreFollowed`: what came in several events is current as one batch, with
    nothing of another (XdgOutput, Dpms, composed and committed text).
  - `InputFollows`: capabilities, focus, serials and touch points are the compositor's.
  - `OffersFollow`: selection and drag have the offers they were given, each with
    one owner and all its known types, and none is lost or leaked while the
    device is valid.

### What the violation runs show

Five statements of the headers the code does not keep, each with the
shortest trace TLC finds: a zero timer that sends `get_window` on a null proxy; a
compositor that restarts faster than the file notification is handled and is
never reconnected to; names of an old connection that `bind` still finds; the
list of modes that is edited through an iterator its own `erase` has
invalidated; announcements that are read and dispatched by the connection's
thread between `Registry::create()` and the call that moves the registry to its
queue, and are lost or handled in the wrong thread. Details with quotes are under
`findings` in `PROJECT.json`.

### Known disagreements that no run is about

Met while modelling, each with a place in a module that states or shows it; the
properties of the passing runs are worded around them.

* After a failed remap `ShmPool::isValid()` stays true (`shm_pool.h:122`); the model
  has it as `valid` with no mapping.
* `XdgShellPopupStable` and `XdgShellPopupUnstableV6` leave their xdg surface in
  `release()` and `destroy()`; the text inputs and `PlasmaActivation` offer neither.
  Their rows are in `Wrappers!Class` and not in `MCFamilies`. A popup that was released
  therefore still emits `configureRequested`, with `QRect()` or with a rectangle of a part
  of the batch (`XdgShell!ReleasePopup`, left out of `AnnouncedIsSent`), and cannot be
  "setup with another xdg_popup interface" (`xdgshell.h:550`): `setup()` asserts that there
  is no xdg surface.
* The objects of a Registry that was deleted, and of one that was created from a
  `wl_display` (unless the user connects it), are not told when the connection dies:
  nothing calls their `destroy()`. `NoProxyOutlivesConnection` is about the other case.
* The role Pid of a window model is never announced as changed; `ViewIsFresh` leaves it
  out (`WindowAttributes!pidChangedCallback`).
* `getVirtualDesktop()` makes a new object with every call until `createdCallback` has put
  one on the list: the instance is not "guaranteed to be unique for each id"
  (`plasmavirtualdesktop.h:107`). `VirtualDesktops!ListIsLive` is about those on the list.
* `PlasmaShell::createSurface()` finds the existing object for a native `wl_surface`, as
  `plasmashell.h:106` promises, only if a `Surface` of the library wraps it; otherwise each call
  makes another one. `PlasmaShell!OneForEachSurface` is about those that are wrapped.
* A `SubSurface` that is set up again does not send its mode and position.
* A configure without an event of the role sets the size of a window to (-1, -1):
  `QSize()` is not null. `SizeIsLatest` leaves such batches out.
* Opposite edges of a positioner mean nothing in the stable protocol and are sent
  in v6.
* An attribute of an `XdgOutput` that a batch does not have goes back to its value
  before the last batch, the name for instance, whose header promises
  consistency (`OutputExtensions!NameIsConsistent`, `xdgoutput.h:198`).
* An `enter` for a destroyed surface finds any other Surface that was released
  (`InputDevices!EnteredWasNamed`).
* Two icons that are being read at a time may end in either order
  (`WindowAttributes!IconFollows`).
* V0's `deleteSurroundingText` computes the length after the cursor without sign: more
  before the cursor than the whole length wraps.
* `DataDevice::destroy()` keeps offers of the connection that died.
* The windows of an earlier connection stay in the list of a
  `PlasmaWindowManagement` that is set up again.

## Fairness

* `PlasmaWindowManagement`: weak fairness of `DispatchEvent` (the client's event
  loop runs), of each timer (a zero timer fires when the loop is idle) and of
  `ServeGetWindow` (the compositor reads requests). Nothing is assumed of
  windows or of the user.
* `ConnectionThread`: weak fairness of each event source of the two threads:
  the notifier, the watcher, queued calls and queued signals. Qt's loops
  deliver each of them eventually. Nothing is assumed of servers and files.
* `Registry`: weak fairness of `DispatchEvent` and `ServeGetRegistry`.
* `Dispatching`: weak fairness of each thread as a whole (`ConnectionLoop`,
  `UserLoop`), not of its single calls: a thread that can go on goes on. And of
  `Serve`: the server reads requests. That the user ever creates a registry is
  not assumed. The fairness of `EventDelivery` is what is shown, not assumed.
* `ShmPool`, `Outputs` and the modules of `interfaces` have safety properties only.

## Assumptions about the environment

* The application calls `setup()` directly after `create()` before it returns to
  the event loop; it calls `getBuffer` only on a valid pool.
* A compositor announces `wl_fixes` at most once and does not use a name
  again within a connection.
* In `dispatching`, nothing is sent to the connection's own objects between
  `create()` and `setup()` of the registry: an application that has none is that
  case. `dispatching_early` is the other.
* Events reach the client in order; libwayland drops events of a proxy that
  is gone.
* The window management's user deletes an unmapped window only through
  `deleteLater`, as the library does.
* A wrapper is used while it is valid and set up when it is not, and what is
  created for a connection is destroyed when it dies, as
  `Registry` and the headers ask. A proxy the application brings is of the one
  connection there is.
* A `DataDevice`, the desktop management and the Surface of `Outputs` are set up
  once. `DataDevice` is that of a release build, without assertions.
* The compositor sends the events of an interface as its protocol says: whole
  batches, a first batch with every attribute, positions within the list.
* A `dispatch()` that runs on a display the other thread frees is undefined in
  the code; the model counts it as one that finds no events, and the hazard is
  listed without a property.

## Proofs

`ConnectionAndPoolProofs` proves of the pool, for all kinds, sizes, limits and numbers of buffers,
under `ShmPoolAssumption` and `FileFitsInt` (a file of the greatest size and one
more buffer still fit an `int32_t`):

| theorem | states |
|---|---|
| `PoolInvariance` | `PoolSpec => []IInv` |
| `Containment`, `Disjointness` | every buffer inside the pool, no two share a byte |
| `ExclusiveUse` | a buffer in anybody's hands is not given out |
| `PoolTypeCorrect` | `PoolSpec => []PoolTypeOK` |
| `Freshness` | an address shared with the user is one of the present mapping |
| `Monotonicity` | a living pool never shrinks |
| `Refinement` | the pool implements `MemoryLender` |

`BuffersDisjoint` is not inductive: a new buffer starts at `offset`, and nothing
in the property says what lies there. `IInv` adds that each buffer ends at or
before `offset`, that a later buffer starts where an earlier one has ended,
and that `offset` never passes `size`; then appending keeps the buffers apart,
reuse does not move one, and growth does not move any. `IInv` also relates who
holds a buffer to the flags `getBuffer` looks at, which is what `ExclusiveUse`
and the refinement need. `IInv` is a conjunction of named parts; the proof of its
preservation has a step for every action.

`RegistryProofs` proves, for all interfaces, versions, numbers of globals and
objects, under `RegistryAssumption`:

| theorem | states |
|---|---|
| `TypeCorrect` | `Spec => []TypeOK` |
| `ProxiesEndWithConnection` | while `connectionDied()` is connected to `destroy()`, no object keeps a proxy of a connection that is gone |
| `BindsStayLegal` | a bind request names a global of this connection, its interface and a version both sides have; assumes `OneCreate` |

`TypeOK` needs `EventsInv`: a name that is taken from an event and put into the
cache is one the server gave out. `NoProxyOutlivesConnection` says nothing of
states with a connection, so `LifeInv` adds that an object has a living proxy only
while there is one. What the theorem rests on is that `release()` keeps the connection of
`connectionDied()`, that `destroy()` reaches every object also when the registry has no
proxy any more, and that a user who has to call it does so before the registry is created,
and connected, again. `BindsAreLegal` needs `CacheInv`: while
the registry is set up, every entry of its cache is about a global of this
connection, with the version the server has. `create()` does not clear the cache,
so `CacheInv` holds only for a registry that is created once, which is
`OneCreate`, a bound on `MaxCreates`; without it the run `registry_reconnect`
is the counterexample.

Two more theorems assume `OneCreate`, for the same reason:

| theorem | states |
|---|---|
| `SignalsStayTrue` | `SignalsAreTrue`: the last signal about an interface is right, an object's `removed()` comes once and with its global |
| `DoneMeansAll` | `DoneMeansAllAnnounced`: `interfacesAnnounced()` does not come early |

Both speak of what the user believes, and the cache follows the server only through
the events that are on their way. `FlowOf(n)` follows one global along them: it is
announced by an event or in the cache, and when the server has taken it away there
is an event that says so. `OrderInv` keeps these events apart: none comes twice,
announcements come before removals and, for what there was at the start, before the
answer to the sync, which is all that `DoneMeansAll` needs. `ObjectsInv` says of an
object that its global was announced and that `removed()` is either emitted or
still coming.

`PlasmaWindowManagementProofs` proves, for any number of windows, set ups and changes
by the compositor:

| theorem | states |
|---|---|
| `Invariance` | `Spec => []Inv` |
| `TypeCorrect` | every pointer of the client is to an object that was created |
| `Consistency` | `WindowsConsistent` |
| `RowsFollow` | `ModelFollowsWindows`: the rows of the model are the listed windows that have been described |
| `QuietView` | `QuietViewMatches`, if the interface is set up once (`OneSetup`) |

`WindowsConsistent` is inductive only together with what is on the wire. `WireInv` says
that events and requests are about objects there are, so that a handler that
takes an object from an event finds one; `ObjectsInv` that no object is its own parent
and an interface that is bound was set up. Each handler then keeps the three parts of the
consistency; unmapping is the step that touches all of them, and `Without` is
the only place where a window leaves the list: the proof that removing the only
occurrence of a window keeps the list injective is a lemma of its own.

The rows are in the order of the list because windows are asked for, answered and
described in the order in which their objects were created: `AskedInv` says so of
requests and events, `RowsInv` of the rows, and a row is then always added at the end.
`QuietView` is about two ends of a wire. `ViewInv` says that the events on it *replay*
the compositor's changes: handled one after another they lead from what the client
has to what the compositor has. `Leads` in `Replay` is this relation for any kind of
state and event; its lemmas say that a change that sends its event keeps it, and so does
taking the first event. When nothing is on its way the two ends are equal.

`ConnectionAndPoolProofs` proves of the thread, for any number of servers, crashes, batches and calls:

| theorem | states |
|---|---|
| `Invariance` | `Spec => []Inv` |
| `TypeCorrect` | `Spec => []TypeOK` |
| `OneWholeConnection` | `ConnectionIsWhole` |

The thread runs ahead of its user: whether `connected` meets a free queue is decided by
signals that still wait in `inbox`. `UserInv` therefore says of each position of
`inbox` what the user will have set up when it gets there: `OffBefore` are the
positions at which its registry is down, and every `connected` waits at one of
them; `AnsweredLast` and `DiedLast` say what the user believes in the end, which ties the inbox
to the state of the thread. Two lemmas say how an `Append` and a `Tail` of the inbox
move these positions; the rest is one step per action.

`OutputsProofs` proves, for any number of outputs, modes and changes:

| theorem | states |
|---|---|
| `Invariance` | `Spec => []OutputsInv` |
| `TypeCorrect` | `Spec => []TypeOK` |
| `ModesAreFollowed` | `ModesFollow`: no mode twice, the flagged one is the current one and in the end the output's |
| `SurfaceIsFollowed` | `SurfaceFollows`: in the end a surface lists the outputs it is on |
| `FramesAreOwed` | `FrameIsOwed`: a surface that waits for a frame is owed exactly one |

`FramesComing` is the set of positions of frame events; handling an
event shifts it by one, and `FrameInv` adds that only a valid surface waits. For the
modes, `ListInv` says what `WithMode` does to a list without duplicates, `NewInv` that
a mode announced without the flag is a new one, so that no entry loses the flag it
has to keep, and `CurrentInv` that the last event with the flag on its way names the mode the
output is in. `OnInv` lets enter, leave and removal replay, for each output by
itself, where the compositor has put the surface; `UnplugInv` says that an output goes once
and nothing about it comes after.

`DispatchingProofs` proves, for any set of globals and any number of events:

| theorem | states |
|---|---|
| `Invariance` | `Spec => []Inv` |
| `TypeCorrect` | `Spec => []TypeOK` |
| `NothingGoesAstray` | `NothingAstray`, without early traffic |
| `DeliversInOrder` | every step is one of `EventDelivery` or none, without early traffic |

`Inv` is about where the threads are: `todo` is the rest of one of two fixed lists of
calls, those of a creation and those of binding one global. `SetupInv` is the
argument why no event goes astray. Before the registry is created and while
it is made (`Making(n)`, for each call that has been made) there is nothing of the user's on the wire,
and afterwards (`Made`) every proxy of the user is in the user's queue before its
request can have been flushed; the new proxy of a bind inherits the queue of the
registry, which is the user's. `~EarlyTraffic` is the condition of the run `dispatching`;
`dispatching_early` shows that it is needed. `DeliveryInv` relates the two
sequences of `EventDelivery` to the code's: what was sent is what was handled, then what
the user's queue holds, then what of the wire is for the user. That reading
splits the wire by queues is `Kept`, the subsequence at some places, and the lemmas about it in `Replay`.

`InterfacesProofs` proves, for all the constants of the eleven interfaces:

| theorem | states |
|---|---|
| `WrappersInvariance` | the invariant of the wrappers |
| `WrappersAreLegal` | `WireIsLegal` |
| `InvalidIsEmpty` | `InvalidHoldsNothing` |
| `CompositorKnows` | `CompositorIsTold` |
| `ViewsAreFresh` | `ViewIsFresh` |
| `ConfiguresAreFollowed` | `ConfigureIsFollowed` |
| `BatchesStayTogether` | `BatchesAreFollowed` |
| `OffersAreFollowed` | `OffersFollow` |
| `InputIsFollowed` | `InputFollows` |
| `ListsAreFollowed` | `ListsFollow` |
| `RequestsAreMeant` | `RequestsSayWhatIsMeant` |
| `TypeCorrect` | `TypeOK` |

The first four are about every pair of a manager's class and a child's class of the table
in `Wrappers`, not only the pairs the library has. `Fits` says what the rows have in
common: a class frees all its proxies or none of them, `destroy()` reaches all of them,
`isValid()` looks at all, and a role stands before its surface. `FamiliesAssumption` leaves out
the classes of `HoldsOn`, which have a proxy that nothing the user calls frees
(`FreeingFits` is the proof that all the others fit). `AllOrNothing` is then inductive: an object
holds all of its proxies, all of the present connection, or nothing. `WireIsLegal` is about the
order of the last step's requests; `Destructors` are in the order of the row, and
of a child and its manager those of the child come first.

`ViewIsFresh` is inductive with the types: `DataOf` says on which attributes each role
depends, and each handler announces the roles of what it changes. `ConfigureIsFollowed`
needs `XdgNumbered`, that configures are numbered in the order in which they are sent and handled,
and `XdgSaid`: the configure with a number is the events of the role before the one of the
surface with this number, put together with what has already arrived. That is what the
code's `pendingSize` and `pendingState` are at each moment. `BatchesAreFollowed` is another use
of `Leads`: the events on their way, handled one by one, lead from `current`, `pending` and
`arrived` to a state that shows what the compositor has (`ExtensionInv`), and from the text input's
pending state to what the input method has said (`TextInv`). `LengthsAssumption`,
that lengths are less than `Modulus`, the number of values of a `uint32_t`, is what
makes the difference that version 0 takes from the sum on the wire the length again.

`OffersFollow` speaks of the offers the user can see at any moment, so `OffersInv` says
where the types of an offer are: each known one has arrived or is on its way
(`TypesArrive`), and what gives an offer its place comes after all its types (`TypesFirst`).
Which offers the device holds follows from the events that lead from what it was
given to what the compositor has; `Given` takes away what the user has taken. The
device picks `lastOffer`, whatever an event names, and the steps of `MayCome` show
that this is the offer named. `TypesAssumption`, that there are finitely many types,
is there because a compositor lists them one by one.

`RequestsAreMeant` needs no more of the state before a call than the version of the
protocol: what was asked and what was sent are those of one call, so it is a property of
the functions that write the requests. `OnlySays` and `Says` (every request of this name
has this value; there is one) carry over to lists that are joined and to requests that are only
sent under a condition, which is how `XdgShell` builds its lists. `EdgeNames` goes through the sixteen
sets of edges, `EdgeBits` says that the sum of the flags of `v6` has the bit of an edge just
if the edge is in the set. `PositionersAssumption` says that a positioner holds edges
of the four there are. Of a text, what is written at a unit of UTF-16 depends on its
neighbours only, and so what is written for a text's front is the front of what
is written for the text (`JoinedFront`, from `KeptFront`, one of the lemmas about `Kept`),
unless the index falls between the halves of a pair.

`ViewIsFresh`, `InputFollows` and `ListsFollow` are about `CompositorViews` and proved of
its specification in `CompositorViewsProofs`; `ViewsTakeTheirSteps` says that the steps of
`Interfaces` are steps of it. All three properties say what holds when nothing is on
its way, so their invariants say what the events on their way will come to:

* Seat and devices (`InputInv`): the *last* event of some kinds decides. `Decided(events,
  kinds, good, now)` says that the last event on its way of these kinds is in `good`, and,
  if there is none, that `now` holds. The capabilities, the surface with the focus, the
  serial of the last enter and that of the text input are four uses of it. A lemma about
  `Decided` each for a new event, for the first one handled and for events that are dropped
  are all its proof needs; what an enter names is compared as `Same`, since a surface that
  the user released is none for the device, at both ends.
* Touch points (`TouchInv`): the points that are down replay those the compositor has
  pressed, by `Leads`. `SerialsInv` says that a point's serial is new when it comes down, so
  that a number that is used again does not bring an old point back.
* Desktops (`DeskInv`): the events of the list lead from the desktops listed to those the
  compositor has (`DeskList`), and for each object in the list that is not about to be
  removed the events about it lead from its active flag to the compositor's (`SaysActive`).
  These are different events for the same desktop; `Going` keeps a desktop that was
  removed and created again apart from its former self.
* Stacking order (`StackInv`): each list that was asked for is one the compositor had, told
  element by element (`ListsComplete`). `OrderComes` says why the newest order wins: the last
  list to be done is the newest order, or its request or a "changed" is still on its way.
* Shell surfaces (`PlasmaInv`): a surface has one shell object at most, found by its address
  (`PointsBack`, `OneEach`), and no two living surfaces share an address.
* Attributes (`WindowInv`): flags, desktops and texts replay the compositor's.

`TypeOK` names, besides the types, the bounds of the instance. Most of each type
follows from the invariants above, which relate what the client has to what was sent; what is
left is small and has a definition of its own for each interface (`XdgRest`, `ExtensionRest`,
`TouchRest` and so on), inductive together with that invariant (`RestGoesOn` for
`CompositorViews`, where the theorem is `ViewsAlwaysTyped`, and `LeftGoesOn`). Some of it
is about the code: an attribute of an output never takes a mode that is not known or a
value of another attribute (`Keeping`), the length to delete after the cursor is a number
that a `uint32_t` holds, not the difference of a wrong pair (`TextFits`), the serials a device
and a point have are the compositor's (`InputSerials`, `TouchSerials`), an active desktop
is one that was announced. `ViewsAssumption` and `BoundsAssumption` say that bounds are numbers,
that there are finitely many windows, that a window may have a title and that flags,
attributes and the other roles have names of their own; `ValuesAssumption`,
that the value which stands for a mode of a later version is not one of an `XdgOutput`'s.

Checked by TLC only:

* Liveness (`ViewMoves`, `EndIsTold`, `EventsAreDispatched`, `AnnouncementsEnd`,
  `EverythingIsHeard`, and the fairness in `DeliversEvents`): fairness is about
  `ENABLED`, which the provers do not handle.

## Not modelled

* Conversion of images into a buffer's format and the copy; icons as images. No
  property of this library depends on their contents.
* Roundtrips: they block the thread that calls them until an answer is there.
* `setSocketFd` and the display of the platform plugin (no watcher, hence no
  reconnect), and the static list of connections.
* Events and requests that hand one value on: axis, keys and buttons, gestures,
  relative motion, geometry and scale of an output, actions of a drag and the
  data itself, content types and language of a text input, rows and names of
  desktops, handles of XdgForeign, showing the desktop. The requests a class
  sends are in its row of `Wrappers`, without their values.
* Aliases of mime types: an offer keeps the canonical name of what was announced.
* The protocol headers in `compat/`, the code generator (it runs at development
  time) and the manual test clients.
