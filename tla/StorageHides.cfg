SPECIFICATION Spec
CONSTANTS
  Bases = {a, b}
  Legacy = {b}
  MaxContent = 2
  MaxFaults = 3
PROPERTIES
  CopyIsRead
CHECK_DEADLOCK FALSE
