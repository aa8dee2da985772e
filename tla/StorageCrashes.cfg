SPECIFICATION FairSpec
CONSTANTS
  Bases = {a, b}
  Legacy = {b}
  MaxContent = 3
  MaxFaults = 3
PROPERTIES
  ContentGoesForward
  SyncMeansWritten
  LastIsWritten
CHECK_DEADLOCK FALSE
