SPECIFICATION Spec
CONSTANTS
  Operations = {"StartSession", "GetValue"}
  MaxRequests = 3
INVARIANTS
  SessionValues
CHECK_DEADLOCK FALSE
