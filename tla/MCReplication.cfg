SPECIFICATION ReplicationSpec
CONSTANTS
  c1 = c1
  c2 = c2
  puppet = puppet
  car = car
  Puppet = puppet
  Car = car
  Conns <- TwoConns
  Items <- NoItems
  Positions <- NearAndFar
  FaultyPosition = 0
  TrackingRange = 1
  FilteredOut <- NoFilter
  MaxEntities = 2
  me = c1
  MyRequests <- StandingOrRefused
  OthersRequests <- InAndAbout
  FirstEntityID = 10
  MaxEntityID = 11
  Origin = 0
  TenthSecond = 1
  DeltaTimes <- OneTick
  MaxRequests = 2
  MaxInbox = 1
  MaxLists = 0
  MaxJoins = 1
INVARIANTS
  QuietWorldsAgree
PROPERTIES
  ServerKeepsItsPart
  ClientKeepsItsPart
VIEW WithoutOutput
CHECK_DEADLOCK FALSE
