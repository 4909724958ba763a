SPECIFICATION Spec
CONSTANTS
  Writers = {"w"}
  Readers = {"r"}
  Handles = {1}
  MaxChunks = 2
  Options = {"nothing", "true", "false"}
INVARIANTS
  OwnResponse
  StreamsAreFiles
  NoHandleLeaks
CHECK_DEADLOCK FALSE
