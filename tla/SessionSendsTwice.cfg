SPECIFICATION SessionSpec
CONSTANTS
  Requests = {1, 2}
  Quiet = {}
  Cancellable = {}
  AckedLimit = 20
  SeenLimit = 20
  MaxTrouble = 1
INVARIANTS
  NothingIsSentTwice
CHECK_DEADLOCK FALSE
