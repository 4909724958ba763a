SPECIFICATION FairSpec
CONSTANTS
  Calls = {c1}
  c1 = c1
  Kinds <- AllKinds
INVARIANTS
  NothingLeaks
  ReturnedIsUsable
  SpokenTo
PROPERTIES
  EveryCallEnds
CHECK_DEADLOCK FALSE
