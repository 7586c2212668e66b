SPECIFICATION Spec
CONSTANTS
  NoKey = NoKey
  Unknown = Unknown
  Clients = {a, b}
  MailTypes = {"SEND_SYMMETRIC_KEY", "SEND_TEXT_MESSAGE"}
  MaxMail = 3
  MaxKeys = 2
  MaxDeaths = 1
  MaxFailures = 1
SYMMETRY ClientSymmetry
INVARIANTS
  NewestKeyWins
  UndecryptedHasCause
  CauseInv
