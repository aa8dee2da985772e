SPECIFICATION Spec
CONSTANTS
  MaxEvents = 3
  Containers <- MCSingle
  SeqSteps = {0, 1}
  MaxLosses = 0
  MaxDrops = 1
  MaxFailures = 0
  MaxRefusals = 0
  MaxForced = 0
INVARIANTS
  ClaimedPtsWasSeen
  NothingIsRepeated
  GapIsWatched
  ClaimedSeqWasSeen
CHECK_DEADLOCK FALSE
