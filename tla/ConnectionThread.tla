-------------------------- MODULE ConnectionThread --------------------------
(***************************************************************************)
(* The life of a connection: a ConnectionThread in its own thread, which   *)
(* connects through a named socket, reads events, notices errors and the   *)
(* loss of the socket and reconnects; and, in another thread, the          *)
(* EventQueue and the Registry of its user, reached by queued signals.     *)
(*                                                                         *)
(* External are the servers, one after the other at the same socket name,  *)
(* and the file system, whose notifications reach the thread late.  The    *)
(* servers are numbered; a display is known by the number of its server,   *)
(* 0 is a null pointer.  The set up of a connection from a file descriptor *)
(* (setSocketFd) and the one on a foreign display are left out: they have  *)
(* no watcher and, in the second case, no dispatching.                     *)
(***************************************************************************)
EXTENDS Naturals, Sequences

CONSTANTS
  MaxServers,  \* bound: servers that are started
  MaxEvents,   \* bound: batches of events the servers send
  MaxInits     \* bound: calls of initConnection() by the user

ASSUME ConnectionThreadAssumption ==
  MaxServers \in Nat /\ MaxEvents \in Nat /\ MaxInits \in Nat

VARIABLES
  \* The servers and the file system.
  server,      \* "down", "starting", "bound" (to the socket), "listening"
  started,     \* the number of the last server
  socket,      \* the socket file exists
  faulty,      \* the server has ended the connection for a protocol error
  wire,        \* batches of events in the socket, not read
  sent,        \* batches sent so far
  \* The ConnectionThread.
  display,     \* the wl_display
  notifier,    \* the display whose socket the QSocketNotifier watches
  watcher,     \* the QFileSystemWatcher: "none", "file", "directory"
  watching,    \* what it watches still exists
  noticed,     \* a notification for it is pending
  serverDied,
  error,       \* hasError()
  inits,       \* doInitConnection() calls that are queued
  userInits,   \* calls of initConnection() by the user so far
  dying,       \* inside the handler of fileChanged
  \* The user's thread.
  inbox,       \* queued signals
  registryOn,  \* the display EventQueue and Registry are set up on
  queued,      \* batches in the event queue, not dispatched
  told         \* the last signal that was about the connection

serverVars == <<server, started, socket, faulty, sent>>
threadVars == <<display, notifier, watcher, serverDied, error, inits, userInits, dying>>
userVars == <<registryOn, told>>
vars == <<serverVars, wire, threadVars, watching, noticed, inbox, userVars, queued>>

\* The peer of the display is gone.
Lost == display # 0 /\ (faulty \/ display # started \/ server = "down")

Init ==
  /\ server = "down" /\ started = 0 /\ socket = FALSE /\ faulty = FALSE
  /\ wire = 0 /\ sent = 0
  /\ display = 0 /\ notifier = 0 /\ watcher = "none" /\ watching = FALSE
  /\ noticed = FALSE /\ serverDied = FALSE /\ error = FALSE
  /\ inits = 0 /\ userInits = 0 /\ dying = FALSE
  /\ inbox = <<>> /\ registryOn = 0 /\ queued = 0 /\ told = "nothing"
-----------------------------------------------------------------------------
(* The servers and the file system.                                        *)

\* A file that is removed is no longer watched, even if a new one takes its
\* name; a directory is.
SocketFile(exists) ==
  /\ socket' = exists
  /\ noticed' = (noticed \/ /\ socket # exists
                            /\ watching
                            /\ watcher = "directory" \/ ~exists)
  /\ watching' = (watching /\ (watcher = "file" => exists))

\* A server that crashes leaves its socket behind.
StopServer(crash) ==
  /\ server # "down"
  /\ server' = "down"
  /\ SocketFile(socket /\ crash)
  /\ UNCHANGED <<started, faulty, wire, sent, threadVars, inbox, userVars, queued>>

\* The next server removes a socket that was left behind, ...
StartServer ==
  /\ server = "down" /\ started < MaxServers
  /\ server' = "starting"
  /\ started' = started + 1
  /\ SocketFile(FALSE)
  /\ UNCHANGED <<faulty, wire, sent, threadVars, inbox, userVars, queued>>

\* ... binds its own, ...
BindSocket ==
  /\ server = "starting"
  /\ server' = "bound"
  /\ SocketFile(TRUE)
  /\ UNCHANGED <<started, faulty, wire, sent, threadVars, inbox, userVars, queued>>

\* ... and accepts connections.
Listen ==
  /\ server = "bound"
  /\ server' = "listening"
  /\ UNCHANGED <<started, socket, faulty, sent, wire, threadVars, watching, noticed,
                 inbox, userVars, queued>>

\* Some other file of the runtime directory comes or goes.
OtherFile ==
  /\ watcher = "directory"
  /\ noticed' = TRUE
  /\ UNCHANGED <<serverVars, wire, threadVars, watching, inbox, userVars, queued>>

SendEvents ==
  /\ display # 0 /\ ~Lost /\ registryOn = display
  /\ sent < MaxEvents
  /\ sent' = sent + 1 /\ wire' = wire + 1
  /\ UNCHANGED <<server, started, socket, faulty, threadVars, watching, noticed,
                 inbox, userVars, queued>>

ProtocolError ==
  /\ display # 0 /\ ~Lost
  /\ faulty' = TRUE
  /\ UNCHANGED <<server, started, socket, sent, wire, threadVars, watching, noticed,
                 inbox, userVars, queued>>

Environment ==
  \/ \E crash \in BOOLEAN : StopServer(crash)
  \/ StartServer
  \/ BindSocket
  \/ Listen
  \/ OtherFile
  \/ SendEvents
  \/ ProtocolError
-----------------------------------------------------------------------------
(* The ConnectionThread.  It is between two steps when ~dying.             *)

Emit(signal) == inbox' = Append(inbox, signal)

\* initConnection(), for the first time or after failed().
initConnection ==
  /\ userInits < MaxInits
  /\ told \in {"nothing", "failed"} /\ inbox = <<>>
  /\ display = 0 /\ inits = 0 /\ ~serverDied
  /\ userInits' = userInits + 1
  /\ inits' = inits + 1
  /\ UNCHANGED <<serverVars, wire, display, notifier, watcher, serverDied, error, dying,
                 watching, noticed, inbox, userVars, queued>>

\* The queued doInitConnection(): connects, or emits failed().
Connects ==
  /\ inits > 0 /\ ~dying
  /\ server = "listening"
  /\ inits' = inits - 1
  /\ display' = started /\ notifier' = started
  /\ faulty' = FALSE /\ wire' = 0 /\ queued' = 0
  /\ watcher' = "file" /\ watching' = TRUE /\ noticed' = FALSE
  /\ Emit("connected")
  /\ UNCHANGED <<server, started, socket, sent, serverDied, error, userInits, dying, userVars>>

FailsToConnect ==
  /\ inits > 0 /\ ~dying
  /\ server # "listening"
  /\ inits' = inits - 1
  /\ display' = 0
  /\ Emit("failed")
  /\ UNCHANGED <<serverVars, wire, notifier, watcher, serverDied, error, userInits, dying,
                 watching, noticed, userVars, queued>>

\* Mutant: events are read again.
ReadEventsAgain ==
  /\ notifier # 0 /\ display # 0 /\ ~dying
  /\ wire > 0
  /\ queued' = queued + wire
  /\ Emit("eventsRead")
  /\ UNCHANGED <<serverVars, wire, threadVars, watching, noticed, userVars>>

\* Mutant: eventsRead() is not emitted.
ReadEventsQuietly ==
  /\ notifier # 0 /\ display # 0 /\ ~dying
  /\ wire > 0
  /\ wire' = 0
  /\ queued' = queued + wire
  /\ UNCHANGED <<serverVars, threadVars, watching, noticed, inbox, userVars>>

\* dispatchEvents() with events to read: they go to the event queue.
ReadEvents ==
  /\ notifier # 0 /\ display # 0 /\ ~dying
  /\ wire > 0
  /\ wire' = 0
  /\ queued' = queued + wire
  /\ Emit("eventsRead")
  /\ UNCHANGED <<serverVars, threadVars, watching, noticed, userVars>>

\* Mutant: the error is kept, nobody is told.
ReadErrorQuietly ==
  /\ notifier # 0 /\ display # 0 /\ ~dying
  /\ wire = 0 /\ Lost
  /\ error' = TRUE
  /\ display' = 0 /\ queued' = 0
  /\ UNCHANGED <<serverVars, wire, notifier, watcher, serverDied, inits, userInits, dying,
                 watching, noticed, inbox, userVars>>

\* dispatchEvents() on a connection that has ended: the display is freed, the
\* notifier and the watcher stay.
ReadError ==
  /\ notifier # 0 /\ display # 0 /\ ~dying
  /\ wire = 0 /\ Lost
  /\ error' = TRUE
  /\ display' = 0 /\ queued' = 0
  /\ Emit("errorOccurred")
  /\ UNCHANGED <<serverVars, wire, notifier, watcher, serverDied, inits, userInits, dying,
                 watching, noticed, userVars>>

\* fileChanged: nothing happens while the file exists (again).
FileThere ==
  /\ watcher = "file" /\ noticed /\ ~dying
  /\ socket \/ serverDied
  /\ noticed' = FALSE
  /\ UNCHANGED <<serverVars, wire, threadVars, watching, inbox, userVars, queued>>

\* It has gone: the display is freed ...
FileGone ==
  /\ watcher = "file" /\ noticed /\ ~dying
  /\ ~socket /\ ~serverDied
  /\ serverDied' = TRUE /\ dying' = TRUE
  /\ display' = 0 /\ notifier' = 0 /\ wire' = 0 /\ queued' = 0
  /\ noticed' = FALSE
  /\ UNCHANGED <<serverVars, watcher, error, inits, userInits, watching, inbox, userVars>>

\* Mutant: who was told of an error is not told again.
WatchDirectoryAfterError ==
  /\ dying
  /\ dying' = FALSE
  /\ watcher' = "directory" /\ watching' = TRUE /\ noticed' = FALSE
  /\ IF error THEN UNCHANGED inbox ELSE Emit("connectionDied")
  /\ UNCHANGED <<serverVars, wire, display, notifier, serverDied, error, inits, userInits,
                 userVars, queued>>

\* ... and the directory is watched; the socket may have come back before.
WatchDirectory ==
  /\ dying
  /\ dying' = FALSE
  /\ watcher' = "directory" /\ watching' = TRUE /\ noticed' = FALSE
  /\ Emit("connectionDied")
  /\ UNCHANGED <<serverVars, wire, display, notifier, serverDied, error, inits, userInits,
                 userVars, queued>>

\* directoryChanged: looks for the socket.
SocketMissing ==
  /\ watcher = "directory" /\ noticed /\ ~dying
  /\ ~socket
  /\ noticed' = FALSE
  /\ UNCHANGED <<serverVars, wire, threadVars, watching, inbox, userVars, queued>>

SocketReappeared ==
  /\ watcher = "directory" /\ noticed /\ ~dying
  /\ serverDied /\ socket
  /\ watcher' = "none" /\ watching' = FALSE /\ noticed' = FALSE
  /\ serverDied' = FALSE /\ error' = FALSE
  /\ inits' = inits + 1
  /\ UNCHANGED <<serverVars, wire, display, notifier, userInits, dying, inbox, userVars, queued>>
-----------------------------------------------------------------------------
(* The user's thread: the next queued signal is delivered.                 *)

Delivers(signal) ==
  /\ inbox # <<>> /\ Head(inbox) = signal
  /\ inbox' = Tail(inbox)
  /\ UNCHANGED <<serverVars, wire, threadVars, watching, noticed>>

\* The user sets up EventQueue and Registry on what display() returns, which
\* may be null again by now.
UserConnected ==
  /\ Delivers("connected")
  /\ registryOn' = display
  /\ told' = "connected"
  /\ UNCHANGED queued

UserFailed ==
  /\ Delivers("failed")
  /\ told' = "failed"
  /\ UNCHANGED <<registryOn, queued>>

\* EventQueue::dispatch
dispatch ==
  /\ Delivers("eventsRead")
  /\ queued' = IF registryOn = 0 THEN queued ELSE 0
  /\ UNCHANGED userVars

\* Registry::destroy, EventQueue::destroy
UserDied ==
  /\ Delivers("connectionDied")
  /\ registryOn' = 0
  /\ told' = "connectionDied"
  /\ UNCHANGED queued

\* Nothing in the library listens to errorOccurred().
UserError ==
  /\ Delivers("errorOccurred")
  /\ told' = "errorOccurred"
  /\ UNCHANGED <<registryOn, queued>>
-----------------------------------------------------------------------------
doInitConnection == Connects \/ FailsToConnect
dispatchEvents == ReadEvents \/ ReadError
fileChanged == FileThere \/ FileGone \/ WatchDirectory
directoryChanged == SocketMissing \/ SocketReappeared
UserThread == UserConnected \/ UserFailed \/ dispatch \/ UserDied \/ UserError

Next ==
  \/ Environment
  \/ initConnection
  \/ doInitConnection
  \/ dispatchEvents
  \/ fileChanged
  \/ directoryChanged
  \/ UserThread

\* The event loops of the two threads serve each of their sources.
Fairness ==
  /\ WF_vars(doInitConnection)
  /\ WF_vars(dispatchEvents)
  /\ WF_vars(fileChanged)
  /\ WF_vars(directoryChanged)
  /\ WF_vars(UserThread)

Spec == Init /\ [][Next]_vars /\ Fairness
-----------------------------------------------------------------------------
Signals == {"connected", "failed", "eventsRead", "connectionDied", "errorOccurred"}

TypeOK ==
  /\ server \in {"down", "starting", "bound", "listening"}
  /\ started \in 0 .. MaxServers /\ sent \in 0 .. MaxEvents
  /\ wire \in 0 .. sent /\ queued \in 0 .. sent
  /\ socket \in BOOLEAN /\ faulty \in BOOLEAN
  /\ display \in 0 .. started /\ notifier \in 0 .. started
  /\ watcher \in {"none", "file", "directory"}
  /\ watching \in BOOLEAN /\ noticed \in BOOLEAN
  /\ serverDied \in BOOLEAN /\ error \in BOOLEAN /\ dying \in BOOLEAN
  /\ inits \in Nat /\ userInits \in 0 .. MaxInits
  /\ inbox \in Seq(Signals) /\ told \in Signals \union {"nothing"}
  /\ registryOn \in 0 .. started

\* A display is read from and its socket watched: after a reconnect the
\* notifier is on the new socket, not on that of a freed display.
DisplayIsWatched == display # 0 => notifier = display /\ watcher = "file"

\* A connection is never replaced by a second one while it is in use: one
\* reappearance of the socket leads to one doInitConnection(), however many
\* directory changes are seen (setupSocketFileWatcher).
OneConnectionAtATime == inits > 0 => inits = 1 /\ display = 0

\* EventQueue::setup and Registry::create assert that they are not set up.
\* The user that follows the signals never runs into it: before every
\* second connected() there is a connectionDied(), also after an error.
SetUpOnFreshQueue == inbox # <<>> /\ Head(inbox) = "connected" => registryOn = 0

\* A reconnected thread has no left-over error, and one that lost its
\* display without having an error is on its way to a new one.
ErrorIsCurrent ==
  /\ display # 0 => ~error /\ ~serverDied
  /\ told = "connectionDied" /\ inbox = <<>> => serverDied \/ inits > 0

\* The handlers of errors, of the file and of the directory leave one whole
\* connection, in whatever order they run: what doInitConnection() replaces has
\* ended, and what it sets up is not undone by what is left of the last one.
ConnectionIsWhole ==
  DisplayIsWatched /\ OneConnectionAtATime /\ SetUpOnFreshQueue /\ ErrorIsCurrent

\* The user learns of the end of a connection it has set up a registry on,
\* from one signal or the other.
EndIsTold == registryOn # 0 /\ Lost ~> registryOn = 0 \/ told = "errorOccurred"

\* What the server sent is dispatched, unless the connection ends first: a
\* dispatch is queued after the last read (eventsRead, EventQueue::dispatch).
EventsAreDispatched == wire > 0 ~> wire + queued = 0 \/ Lost \/ display = 0

\* connection_thread.h, of connectionDied(): "If the socket reappears, it is
\* tried to reconnect".  A socket that is back before the file's change is
\* looked at, or before the directory is watched, is never tried.
ReappearedSocketIsTried ==
  display # 0 /\ display < started /\ server = "listening"
    ~> inits > 0 \/ display = started \/ server # "listening"
=============================================================================
