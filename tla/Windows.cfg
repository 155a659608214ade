SPECIFICATION Spec
CONSTANTS
  Debug = Debug
  Status = Status
  Contacts = Contacts
  Handles = {Debug, Status, Contacts, w1, w2, w3}
  MaxSession = 2
  Kinds = {"gg", "irc"}
  Kind <- MCKind
  NoTalk = NoTalk
  MaxId = 4
  ReservedMin = 10
SYMMETRY Addresses
INVARIANTS
  CurrentIsThere
  Numbered
  SessionsAgree
