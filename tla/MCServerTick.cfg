SPECIFICATION FairTickSpec
CONSTANTS
  c1 = c1
  c2 = c2
  puppet = puppet
  car = car
  Puppet = puppet
  Car = car
  Conns <- TwoConns
  Items <- NoItems
  Positions <- OnePlace
  FaultyPosition = 0
  TrackingRange = 100
  FilteredOut <- NoFilter
  MaxEntities = 2
  Asked <- SignInJoin
  MaxRequests = 2
INVARIANTS
  TickTypeOK
  PipelineExplainsTracking
  HandledInOrder
PROPERTIES
  DrivesTheHandlers
  EndIsNoticed
  AnswerArrives
CHECK_DEADLOCK FALSE
