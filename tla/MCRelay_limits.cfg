SPECIFICATION Spec
CONSTANTS
  p1 = p1
  p2 = p2
  p3 = p3
  i1 = i1
  i2 = i2
  i3 = i3
  i4 = i4
  n1 = n1
  n2 = n2
  n3 = n3
  k1 = k1
  NoInfo = NoInfo
  Listener = Listener
  Conns = {c1, c2}
  Processes = {p1, p2}
  ClientIds = {i1, i2}
  ForeignIds = {}
  UserNames = {n1, n2}
  PublicKeys = {k1}
  MessageTypes = {"SEND_TEXT_MESSAGE"}
  ContentSizes = {16, 896, 944}
  Commands = {"LIST_CLIENTS", "SEND_MESSAGE", "PULL_MESSAGES"}
  Database <- TwoRows
  MyInfo <- TwoUsers
  OldContacts <- NoOldContacts
  SQLITE_MAX_LENGTH = 935
  SQLITE_MAX_VARIABLE_NUMBER = 1
  MAX_PULLED_MESSAGES_DATA = 962
  UINT32_MAX = 2
  ShortReads = {}
  MaxRestarts = 0
  MaxAborts <- NoDeath
  MaxMessages = 3
  MaxPulls = 3
SYMMETRY ConnSymmetry
INVARIANTS
  NoLoss
  InOrder
  MailInv
  OrderInv
PROPERTY DeleteOnlySent
