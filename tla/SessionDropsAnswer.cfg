SPECIFICATION SessionSpec
CONSTANTS
  Requests = {1, 2}
  Quiet = {}
  Cancellable = {}
  AckedLimit = 1
  SeenLimit = 20
  MaxTrouble = 0
INVARIANTS
  NothingIsForgotten
CHECK_DEADLOCK FALSE
