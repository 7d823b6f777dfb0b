SPECIFICATION FairTickSpec
CONSTANTS
  c1 = c1
  c2 = c2
  puppet = puppet
  car = car
  Puppet = puppet
  Car = car
  Conns <- OneConn
  Items <- NoItems
  Positions <- OnePlace
  FaultyPosition = 0
  TrackingRange = 100
  FilteredOut <- NoFilter
  MaxEntities = 2
  Asked <- SignInJoinDrive
  MaxRequests = 3
PROPERTIES
  NeverSignedIn
CHECK_DEADLOCK FALSE
