------------------------ MODULE MCFastReadDynamicPtr ------------------------
\* Instances of FastReadDynamicPtr for TLC.
EXTENDS FastReadDynamicPtr

CONSTANTS w1, w2, w3, r1, r2, r3, u1, u2
=============================================================================
