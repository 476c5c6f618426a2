SPECIFICATION Spec
CONSTANTS
  MaxServers = 3
  MaxEvents = 2
  MaxInits = 2
INVARIANTS
  TypeOK
  ConnectionIsWhole
PROPERTIES
  EndIsTold
  EventsAreDispatched
\* A program may stay connected, or give up connecting.
CHECK_DEADLOCK FALSE
