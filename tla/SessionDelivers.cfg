SPECIFICATION SessionFairSpec
CONSTANTS
  Requests = {1}
  Quiet = {}
  Cancellable = {1}
  AckedLimit = 20
  SeenLimit = 20
  MaxTrouble = 2
PROPERTIES
  EverythingIsAnswered
CHECK_DEADLOCK FALSE
