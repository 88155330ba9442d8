--------------------------- MODULE MCIpcStartup ---------------------------
\* Instances of IpcStartup for TLC.
EXTENDS IpcStartup, TLC

CONSTANTS a, b

TwoClients == {a, b}
============================================================================
