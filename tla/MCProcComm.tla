---------------------------- MODULE MCProcComm ----------------------------
\* Instances of ProcComm for TLC: addresses i1 and i2 are in one group, i3 in
\* another, so that a broadcast reaches some clients and not others.
EXTENDS ProcComm, TLC

CONSTANTS a, b, c, i1, i2, i3, g1, g2

TwoClients == {a, b}
ThreeClients == {a, b, c}
TwoIds == {i1, i2}
ThreeIds == {i1, i2, i3}
OneGroup == [i \in TwoIds |-> g1]
TwoGroups == [i \in ThreeIds |-> IF i = i3 THEN g2 ELSE g1]
Nobody == {}
Relayed == {i2}
Interchangeable2 == Permutations(TwoClients)
Interchangeable3 == Permutations(ThreeClients)
============================================================================
