SPECIFICATION FairSpec
CONSTANTS
  a = a
  b = b
  Clients <- TwoClients
  MaxObj = 6
  MaxTries = 2
  MaxStarts = 2
  Faults = {"stop", "kill"}
CHECK_DEADLOCK FALSE
INVARIANTS TypeOK NoLeaks RequestKept OneExchange NoWildServer
PROPERTY LookupServed
