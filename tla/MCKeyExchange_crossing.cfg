SPECIFICATION Spec
CONSTANTS
  NoKey = NoKey
  Unknown = Unknown
  Clients = {a, b}
  MailTypes = {"SEND_SYMMETRIC_KEY", "SEND_TEXT_MESSAGE"}
  MaxMail = 2
  MaxKeys = 2
  MaxDeaths = 0
  MaxFailures = 0
SYMMETRY ClientSymmetry
INVARIANTS
  KeysAgree
