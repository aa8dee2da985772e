SPECIFICATION Spec
CONSTANTS
  c1 = c1
  c2 = c2
  Channels <- OneChannel
  Dialogs = {}
  Browsed = {c1}
  Counts = {1}
  MaxPts = 3
  MaxTransit = 2
INVARIANTS
  ActiveIsPolled
CHECK_DEADLOCK FALSE
