SPECIFICATION Spec
CONSTANTS
  c1 = c1
  c2 = c2
  Channels <- OneChannel
  Dialogs = {c1}
  Browsed = {c1}
  Counts = {1}
  MaxPts = 4
  MaxTransit = 2
INVARIANTS
  GapIsWatched
CHECK_DEADLOCK FALSE
