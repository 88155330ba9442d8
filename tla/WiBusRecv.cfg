SPECIFICATION FairSpec
CONSTANTS
  MaxMsgs = 4
  Faults = {"nomem", "eintr"}
INVARIANTS NoLostWakeup PriorityOrder LowInOrder EachOnce NoUseAfterFree
PROPERTY AllDelivered
