SPECIFICATION Spec
CONSTANTS
  c1 = c1
  c2 = c2
  i1 = i1
  puppet = puppet
  car = car
  Puppet = puppet
  Car = car
  Conns <- TwoConns
  Items <- OneItem
  Positions <- EdgeAndFar
  FaultyPosition = 0
  TrackingRange = 100
  FilteredOut <- HidesFirstFromSecond
  MaxEntities = 3
INVARIANTS
  TypeOK
  NoDanglingTracking
  NeverTracksOwn
  OneVehiclePerOwner
  StartsWithEmptyView
  PuppetsBelongToPlayers
PROPERTIES
  KeepsThePromise
  OutboxExplainsTracking
  MovesSettleTracking
  AbsentSeeNothingNew
VIEW WithoutOutbox
CHECK_DEADLOCK FALSE
