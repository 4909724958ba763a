SPECIFICATION FairSpec
CONSTANTS
  Base = 3
  FieldLength = 2
  Layouts <- AllLayouts
  MaxFrames = 3
  SplitsFields = FALSE
INVARIANTS
  MessagesAreFrames
  NothingLostAtShutdown
PROPERTIES
  EveryFrameEmerges
CHECK_DEADLOCK FALSE
