---------------------------- MODULE MCWiBusRecv ----------------------------
\* Instances of WiBusRecv for TLC.
EXTENDS WiBusRecv, TLC
============================================================================
