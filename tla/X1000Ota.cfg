SPECIFICATION FairSpec
CONSTANTS
  MaxRounds = 2
  MaxTime = 1
  MaxNet = 2
  Skew = 5
  Stamps = {9}
  Faults = {"dup", "damage", "stray", "sendfail", "nomem"}
CHECK_DEADLOCK FALSE
INVARIANTS FreshAnswers ClockTracked RedirectContained
PROPERTY RoundEnds
