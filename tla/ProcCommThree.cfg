SPECIFICATION Spec
CONSTANTS
  a = a
  b = b
  c = c
  i1 = i1
  i2 = i2
  i3 = i3
  g1 = g1
  g2 = g2
  Wild = Wild
  NoOne = NoOne
  Clients <- ThreeClients
  Ids <- ThreeIds
  Group <- TwoGroups
  ViaServer <- Nobody
  CharIsSigned = FALSE
  MaxChan = 3
  MaxSends = 1
  Faults = {}
CHECK_DEADLOCK FALSE
SYMMETRY Interchangeable3
INVARIANT BroadcastComplete
