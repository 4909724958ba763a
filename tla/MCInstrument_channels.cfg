SPECIFICATION Spec
CONSTANTS
  c1 = c1
  c2 = c2
  deviceinfo = deviceinfo
  opengl = opengl
  Callers <- MCCallers
  Channels <- MCChannels
  MaxIdentifier = 4
  MaxPushed = 1
INVARIANTS
  SeparateChannels
CHECK_DEADLOCK FALSE
