----------------------------- MODULE MCDataBus -----------------------------
\* Instances of DataBus for TLC: connection k1 is of a device with dev_id 0,
\* connection k2 of one of the same type with another dev_id.  The second
\* connection may get the descriptor of the first again.
EXTENDS DataBus, TLC

CONSTANTS k1, k2, d0, d1, f1, f2

TwoConns == {k1, k2}
TwoDevs == {d0, d1}
DeviceOf == [k \in Conns |-> IF k = k2 THEN d1 ELSE d0]
TypeOnly == [d \in TwoDevs |-> d0]
TwoFds == {f1, f2}
Quota == [k \in Conns |-> IF k = k2 THEN 4 ELSE 1]
============================================================================
