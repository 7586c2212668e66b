SPECIFICATION Spec
CONSTANTS
  ClientIds <- Ids
  UserNames <- UserNameSet
  PublicKeys <- Keys
  MessageTypes = {0, 3}
  ContentSizes <- Sizes
  Contents <- Texts
  MessageIds <- Numbers
  ClientLists <- Clients
  MessageLists <- Lots
CHECK_DEADLOCK FALSE
INVARIANTS
  TypeOK
  RequestIntact
  ResponseIntact
  PartitionsAgree
