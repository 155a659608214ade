SPECIFICATION FairSpec
CONSTANTS
  MaxSaid = 5
  HangsUp = TRUE
INVARIANTS
  TypeOK
  NothingStranded
PROPERTIES
  AllGoesOut
  KeepsOrder
CHECK_DEADLOCK FALSE
