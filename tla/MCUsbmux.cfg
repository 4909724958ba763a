SPECIFICATION FairSpec
CONSTANTS
  Operations = {"ReadBUID", "ReadPairRecord", "ListDevices", "Connect"}
  MaxRequests = 2
  MaxTunnel = 2
INVARIANTS
  TypeOK
  OwnAnswer
  OneOwner
  TunnelIntact
  MisframedOnlyAfterTimeout
PROPERTIES
  ImplementsExchange
  TunnelDelivers
CHECK_DEADLOCK FALSE
