SPECIFICATION FairReplicationSpec
CONSTANTS
  c1 = c1
  c2 = c2
  puppet = puppet
  car = car
  Puppet = puppet
  Car = car
  Conns <- TwoConns
  Items <- NoItems
  Positions <- OnePlace
  FaultyPosition = 0
  TrackingRange = 1
  FilteredOut <- NoFilter
  MaxEntities = 2
  me = c1
  MyRequests <- Standing
  OthersRequests <- Joining
  FirstEntityID = 10
  MaxEntityID = 11
  Origin = 0
  TenthSecond = 1
  DeltaTimes <- OneTick
  MaxRequests = 1
  MaxInbox = 1
  MaxLists = 1
  MaxJoins = 1
PROPERTIES
  SignInSettles
  NeighbourAppears
CHECK_DEADLOCK FALSE
