SPECIFICATION Spec
CONSTANTS
  g1 = g1
  g2 = g2
  Registry = registry
  Callback = callback
  Other = other
  Globals <- MCGlobals
  MaxOther = 2
  EarlyTraffic = FALSE
INVARIANTS
  TypeOK
  NothingAstray
PROPERTIES
  DeliversEvents
  EverythingIsHeard
CHECK_DEADLOCK FALSE
