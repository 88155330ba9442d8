SPECIFICATION FairSpec
CONSTANTS
  a = a
  b = b
  c = c
  Senders <- TwoSenders
  MaxCalls = 3
  Faults = {"exit", "eintr", "sigint", "destroy"}
CHECK_DEADLOCK FALSE
INVARIANTS TypeOK SendLock TokensConserved CallbacksExclusive OwnAnswer
PROPERTY CallReturns
