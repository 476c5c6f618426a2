SPECIFICATION Spec
CONSTANTS
  g1 = g1
  g2 = g2
  Registry = registry
  Callback = callback
  Other = other
  Globals <- MCGlobals
  MaxOther = 1
  EarlyTraffic = TRUE
INVARIANT NothingAstray
CHECK_DEADLOCK FALSE
