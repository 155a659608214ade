SPECIFICATION FairSpec
CONSTANTS
  Conns = {c1, c2, c3}
  None = None
  Servers = 2
  AutoReconnect = TRUE
INVARIANTS
  TypeOK
  OneAtATime
  BitsAgree
  CommandsHaveAStream
  NoStrayTimer
  RetryGoesOn
PROPERTIES
  ReconnectsEventually
