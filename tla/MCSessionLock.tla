--------------------------- MODULE MCSessionLock ---------------------------
\* Instances of SessionLock for TLC.
EXTENDS SessionLock, TLC

CONSTANTS c1, c2, c3, i1, i2, i3
=============================================================================
