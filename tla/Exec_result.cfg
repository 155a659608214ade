SPECIFICATION Spec
CONSTANTS
  MaxOut = 1
  MaxErr = 1
  MaxRead = 1
CHECK_DEADLOCK FALSE
INVARIANTS
  ResultIsSent
