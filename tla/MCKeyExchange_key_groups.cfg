SPECIFICATION Spec
CONSTANTS
  NoKey = NoKey
  Unknown = Unknown
  Clients = {a, b, c}
  MailTypes = {"REQUEST_SYMMETRIC_KEY", "SEND_SYMMETRIC_KEY", "SEND_TEXT_MESSAGE", "SEND_FILE"}
  MaxMail = 2
  MaxKeys = 2
  MaxDeaths = 0
  MaxFailures = 0
SYMMETRY ClientSymmetry
INVARIANTS
  TypeOK
  KeysStayInPair
  ExchangeInv
