SPECIFICATION Spec
CONSTANTS
  p1 = p1
  p2 = p2
  p3 = p3
  i1 = i1
  i2 = i2
  i3 = i3
  i4 = i4
  n1 = n1
  n2 = n2
  n3 = n3
  k1 = k1
  NoInfo = NoInfo
  Listener = Listener
  Conns = {c1, c2}
  Processes = {p1, p2, p3}
  ClientIds = {i1, i2, i3, i4}
  ForeignIds = {i3}
  UserNames = {n1, n2, n3}
  PublicKeys = {k1}
  MessageTypes = {"SEND_TEXT_MESSAGE"}
  ContentSizes = {0}
  Commands = {"REGISTER", "GET_PUBLIC_KEY", "SEND_MESSAGE"}
  Database <- OneRow
  MyInfo <- MixedUsers
  OldContacts <- MixedContacts
  SQLITE_MAX_LENGTH = 100000
  SQLITE_MAX_VARIABLE_NUMBER = 1000
  MAX_PULLED_MESSAGES_DATA = 1000000
  UINT32_MAX = 1000000
  ShortReads = {30}
  MaxRestarts = 1
  MaxAborts <- DeathOfNew
  MaxMessages = 1
  MaxPulls = 10
SYMMETRY RegistrationSymmetry
INVARIANTS
  OwnIdentity
  KnownParties
  IInv
  IdentityInv
PROPERTY ImplementsMailbox
