SPECIFICATION StarterSpec
CONSTANTS
  MaxServers = 3
CHECK_DEADLOCK FALSE
INVARIANTS
  OneOutcome
  AllTried
PROPERTIES
  ToldEventually
