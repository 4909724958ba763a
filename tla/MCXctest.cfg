SPECIFICATION Spec
CONSTANTS
  MaxStarts = 2
INVARIANTS
  StopClosesAll
  ExecutedOnce
  FieldsAreLive
CHECK_DEADLOCK FALSE
