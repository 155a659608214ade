SPECIFICATION Spec
CONSTANTS
  MaxOut = 3
  MaxErr = 3
  MaxRead = 2
CHECK_DEADLOCK FALSE
INVARIANTS
  LinesInOrder
  HeldWhileWatched
PROPERTIES
  EndIsNoticed
