SPECIFICATION Spec
CONSTANTS
  Bases = {a, b}
  Legacy = {b}
  MaxContent = 3
  MaxFaults = 2
PROPERTIES
  ContentIsKept
CHECK_DEADLOCK FALSE
