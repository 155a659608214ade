SPECIFICATION Spec
CONSTANTS
  g1 = g1
  g2 = g2
  j1 = j1
  None = None
  Sessions = {g1, j1}
  Acking = {g1}
  Rcpts = {1, 2}
  Targets <- SingleNicks
  MaxMsgs = 2
  MaxEntries = 6
  MaxRestarts = 1
INVARIANTS NothingForgotten NumbersAreLive SentOncePerConnection SentInOrder
PROPERTIES FlushEnds FlushLeavesOthers
