SPECIFICATION MCSpec
CONSTANTS
  Channels = {1, 2}
  DTXHeaderLength = 3
  MagicLength = 2
  BodyLengths = {1, 2}
  MaxCount = 3
  MaxFragments = 4
  MaxSkipped = 1
  Lengths = {3, 40}
  MaxArguments = 3
  Values <- MCValues
  Archives <- MCArchives
  ChunkSize = 2
  FrameBuffer = 4
  PayloadLengths = {1, 2, 3, 5}
  MaxMessages = 3
  LineBuffer = 5
  MaxLine = 7
INVARIANTS
  MessagesAreWhole
  ArgumentsParsed
  RoundTrip
  EndsUnlessCyclic
  ReturnedArrives
  DecodedUpToTooLong
  LinesUnescaped
CHECK_DEADLOCK FALSE
