SPECIFICATION FairSpec
CONSTANTS
  MaxEvents = 2
  Containers <- MCCounted
  SeqSteps = {0, 2}
  MaxLosses = 1
  MaxDrops = 1
  MaxFailures = 1
  MaxRefusals = 1
  MaxForced = 1
INVARIANTS
  DifferenceIsAwaited
PROPERTIES
  ImplementsFeed
  CaughtUp
  GapIsHealed
CHECK_DEADLOCK FALSE
