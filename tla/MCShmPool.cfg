SPECIFICATION PoolSpec
CONSTANTS
  small = small
  large = large
  Kinds <- MCKinds
  Bytes <- MCBytes
  InitialSize = 2
  FileLimit = 5
  MaxInt = 7
  MaxBuffers = 3
INVARIANTS
  PoolTypeOK
  BuffersInsidePool
  BuffersDisjoint
  NoReuseWhileHeld
  SharedAddressesFresh
PROPERTIES
  LendsMemory
