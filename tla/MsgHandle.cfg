SPECIFICATION FairSpec
CONSTANTS
  o = o
  a = a
  Owner = o
  Nobody = Nobody
  Senders <- OwnerAndOne
  MaxSends = 3
  Faults = {"nomem", "eintr"}
CHECK_DEADLOCK FALSE
INVARIANTS InOrder NoUseAfterFree Flushed
PROPERTY DestroyReturns
