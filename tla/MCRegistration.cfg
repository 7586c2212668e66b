SPECIFICATION Spec
CONSTANTS
  NoName = NoName
  NoFile = NoFile
  NotRunning = NotRunning
  Processes = {p1, p2}
  ClientIds = {i1, i2, i3}
  ForeignIds = {}
  UserNames = {n1, n2, NoName}
  PublicKeys = {k1, k2, k3}
  MessageTypes = {}
  ContentSizes = {}
  Database = {}
  SQLITE_MAX_LENGTH = 1000
  SQLITE_MAX_VARIABLE_NUMBER = 10
  MAX_PULLED_MESSAGES_DATA = 2000
  ServerInfos <- Infos
  MaxStarts = 2
  MaxFailures = 1
  MaxDiskFailures = 1
SYMMETRY Symmetry
CHECK_DEADLOCK FALSE
INVARIANTS
  TypeOK
  AccountMatches
  MyInfoReadable
  NoNameWasted
  IInv
PROPERTY MyInfoStable
