SPECIFICATION Spec
CONSTANTS
  a = a
  b = b
  Clients <- TwoClients
  MaxObj = 6
  MaxTries = 2
  MaxStarts = 2
  Faults = {}
CHECK_DEADLOCK FALSE
INVARIANT NoWildAccess
