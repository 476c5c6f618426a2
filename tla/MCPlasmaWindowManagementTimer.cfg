SPECIFICATION Spec
CONSTANTS
  w1 = w1
  w2 = w2
  Windows <- MCWindows
  NoWindow = NoWindow
  MaxSetups = 1
  MaxChanges = 0
INVARIANT NoRequestOnNullProxy
CHECK_DEADLOCK FALSE
