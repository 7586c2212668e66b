SPECIFICATION Spec
CONSTANTS
  p1 = p1
  p2 = p2
  p3 = p3
  i1 = i1
  i2 = i2
  i3 = i3
  i4 = i4
  n1 = n1
  n2 = n2
  n3 = n3
  k1 = k1
  NoInfo = NoInfo
  Listener = Listener
  Conns = {c1, c2}
  Processes = {p1, p2}
  ClientIds = {i1, i2}
  ForeignIds = {}
  UserNames = {n1, n2}
  PublicKeys = {k1}
  MessageTypes = {"SEND_TEXT_MESSAGE"}
  ContentSizes = {2096}
  Commands = {"SEND_MESSAGE", "PULL_MESSAGES"}
  Database <- TwoRows
  MyInfo <- TwoUsers
  OldContacts <- NoOldContacts
  SQLITE_MAX_LENGTH = 100000
  SQLITE_MAX_VARIABLE_NUMBER = 1000
  MAX_PULLED_MESSAGES_DATA = 1000000
  UINT32_MAX = 1000000
  ShortReads = {}
  MaxRestarts = 1
  MaxAborts <- TwoDeaths
  MaxMessages = 2
  MaxPulls = 10
SYMMETRY ConnSymmetry
INVARIANTS
  TypeOK
  LoopEndsOnlyByAbort
  OnlyAddressee
  NoLoss
  AckedWhole
  TruncatedOnlyByAbort
  AtMostOnce
  UnacknowledgedHasCause
  KeptInv
PROPERTIES
  DeleteOnlySent
  ImplementsMailbox
