---------------------------- MODULE MCX1000Ota ----------------------------
\* Instances of X1000Ota for TLC.
EXTENDS X1000Ota, TLC
============================================================================
