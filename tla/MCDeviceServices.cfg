SPECIFICATION MCSpec
CONSTANTS
  Operations = {"StartSession", "GetValue", "StartService"}
  MaxRequests = 3
  MaxCalls = 2
  MaxProgress = 2
  Sizes = {1, 2}
  Images = {i1, i2}
  Apps = {"notes", "mail"}
  MaxMade = 4
  MaxNews = 3
  Names = {n1, n2}
  Callers = {c1, c2, c3}
  MaxFinds = 4
  Items = {i1, i2}
  MaxDepth = 2
  MaxChanges = 2
SYMMETRY Symmetry
INVARIANTS
  OwnReply
  LayersAgree
  OwnMessages
  InStep
  ReturnedMeansDone
  AfcIsAlone
  ObservedUntilTold
  ReturnedIsWhole
  TornZipIsUnderWay
  WalkMeetsAll
PROPERTIES
  WholeZipKept
CHECK_DEADLOCK FALSE
