SPECIFICATION Spec
CONSTANTS
  MaxServers = 2
  MaxEvents = 0
  MaxInits = 1
PROPERTY ReappearedSocketIsTried
CHECK_DEADLOCK FALSE
