----------------------------- MODULE MCIpcCmd -----------------------------
\* Instances of IpcCmd for TLC.
EXTENDS IpcCmd, TLC

CONSTANTS a, b, c

TwoSenders == {a, b}
ThreeSenders == {a, b, c}
============================================================================
