----------------------------- MODULE MCMsgQueue -----------------------------
\* Instances of MsgQueue for TLC.
EXTENDS MsgQueue, TLC

CONSTANTS g1, g2, j1

SingleNicks == {{1}, {2}}
NickLists   == {{1}, {1, 2}}
=============================================================================
