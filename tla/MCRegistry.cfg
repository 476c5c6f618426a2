SPECIFICATION Spec
CONSTANTS
  output = output
  shell = shell
  other = other
  fix = fix
  Interfaces <- MCInterfaces
  ClientVersion <- MCClientVersion
  Fixes = fix
  ServerVersion <- MCServerVersion
  MaxGlobals = 3
  MaxCreates = 1
  MaxObjects = 1
INVARIANTS
  TypeOK
  SignalsAreTrue
  BindsAreLegal
  DoneMeansAllAnnounced
  NoProxyOutlivesConnection
PROPERTY AnnouncementsEnd
