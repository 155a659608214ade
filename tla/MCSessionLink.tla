--------------------------- MODULE MCSessionLink ---------------------------
\* Instances of SessionLink for TLC.
EXTENDS SessionLink, TLC

CONSTANTS s1, s2, s3

=============================================================================
