SPECIFICATION Spec
CONSTANTS
  a = a
  b = b
  c = c
  i1 = i1
  i2 = i2
  i3 = i3
  g1 = g1
  g2 = g2
  Wild = Wild
  NoOne = NoOne
  Clients <- TwoClients
  Ids <- TwoIds
  Group <- OneGroup
  ViaServer <- Nobody
  CharIsSigned = TRUE
  MaxChan = 2
  MaxSends = 2
  Faults = {}
CHECK_DEADLOCK FALSE
INVARIANT ResultTruthful
