SPECIFICATION Spec
CONSTANTS
  left = left
  right = right
  OutputIds <- OneOutput
  ModeCount = 3
  MaxChanges = 3
INVARIANT ModesAreDefined
CHECK_DEADLOCK FALSE
