SPECIFICATION FairSpec
CONSTANTS
  c1 = c1
  c2 = c2
  Channels <- OneChannel
  Dialogs = {c1}
  Browsed = {c1}
  Counts = {1, 2}
  MaxPts = 3
  MaxTransit = 2
INVARIANTS
  ClaimedPtsWasSeen
  DifferenceIsAwaited
PROPERTIES
  NeverGoesBack
  ActiveCatchesUp
CHECK_DEADLOCK FALSE
