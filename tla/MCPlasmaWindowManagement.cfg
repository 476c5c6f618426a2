SPECIFICATION Spec
CONSTANTS
  w1 = w1
  w2 = w2
  Windows <- MCWindows
  NoWindow = NoWindow
  MaxSetups = 1
  MaxChanges = 2
INVARIANTS
  TypeOK
  WindowsConsistent
  ModelFollowsWindows
  QuietViewMatches
PROPERTIES
  ViewMoves
\* Nothing happens once every window was mapped and unmapped.
CHECK_DEADLOCK FALSE
