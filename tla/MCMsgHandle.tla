---------------------------- MODULE MCMsgHandle ----------------------------
\* Instances of MsgHandle for TLC.
EXTENDS MsgHandle, TLC

CONSTANTS o, a

OwnerAndOne == {o, a}
============================================================================
