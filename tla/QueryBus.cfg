SPECIFICATION Spec
CONSTANTS
  Both = irc
  Scripting = perl
  Plugins = {irc, perl}
  Core = Core
  Names = {1, 2}
  Name = 1
  Handles <- MCHandles
  Default <- MCDefault
  MaxPrio = 2
  Limit = 2
  MaxActs = 2
CHECK_DEADLOCK FALSE
INVARIANTS
  InOrder
  ListedAreLoaded
  EachOnce
PROPERTIES
  EmissionsEnd
