SPECIFICATION Spec
CONSTANTS
  Base = 3
  FieldLength = 2
  Layouts <- SmallPlistLayout
  MaxFrames = 2
  SplitsFields = TRUE
INVARIANTS
  ErrorMeansLargeFrame
CHECK_DEADLOCK FALSE
