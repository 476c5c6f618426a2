SPECIFICATION Spec
CONSTANTS
  left = left
  right = right
  OutputIds <- MCOutputIds
  ModeCount = 2
  MaxChanges = 3
SYMMETRY Alike
INVARIANTS
  TypeOK
  ModesFollow
  SurfaceFollows
  FrameIsOwed
\* The compositor stops changing, and undefined behaviour ends the run.
CHECK_DEADLOCK FALSE
