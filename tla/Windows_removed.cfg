SPECIFICATION Spec
CONSTANTS
  Debug = Debug
  Status = Status
  Contacts = Contacts
  Handles = {Debug, Status, Contacts}
  MaxSession = 2
  Kinds = {"gg", "irc"}
  Kind <- MCKind
  NoTalk = NoTalk
  MaxId = 2
  ReservedMin = 10
INVARIANTS
  NoFreedSession
