SPECIFICATION TrackerSpec
CONSTANTS
  c1 = c1
  i1 = i1
  puppet = puppet
  car = car
  Puppet = puppet
  Car = car
  Conns <- OneConn
  Items <- OneItem
  Positions <- OnePlace
  FaultyPosition = 0
  TrackingRange = 100
  FilteredOut <- NoFilter
  MaxEntities = 4
  me = c1
  MaxSent = 3
  MaxJoins = 2
INVARIANTS
  CarFollowsRide
  PuppetPerJoin
CHECK_DEADLOCK FALSE
