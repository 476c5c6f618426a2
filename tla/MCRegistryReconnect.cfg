SPECIFICATION Spec
CONSTANTS
  output = output
  shell = shell
  other = other
  fix = fix
  Interfaces <- MCInterfaces
  ClientVersion <- MCClientVersion
  Fixes = fix
  ServerVersion <- MCServerVersion
  MaxGlobals = 2
  MaxCreates = 2
  MaxObjects = 1
INVARIANT BindFindsExistingNames
