SPECIFICATION FairSpec
CONSTANTS
  s1 = s1
  s2 = s2
  s3 = s3
  Sessions = {s1, s2, s3}
  MayFail = {s3}
  Rivchat = {s2}
INVARIANTS LinkAgrees NoStrayTimer LockFreeWhenIdle RetryGoesOn
PROPERTY ReconnectsEventually
