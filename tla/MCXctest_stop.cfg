SPECIFICATION Spec
CONSTANTS
  MaxStarts = 2
INVARIANTS
  StoppedMeansClosed
CHECK_DEADLOCK FALSE
