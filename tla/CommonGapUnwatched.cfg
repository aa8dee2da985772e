SPECIFICATION Spec
CONSTANTS
  MaxEvents = 3
  Containers <- MCZero
  SeqSteps = {0, 1}
  MaxLosses = 0
  MaxDrops = 1
  MaxFailures = 0
  MaxRefusals = 0
  MaxForced = 0
INVARIANTS
  GapIsWatched
CHECK_DEADLOCK FALSE
