SPECIFICATION FairSpec
CONSTANTS
  NetworkedIds <- OneId
  FirstEntityID = 10
  MaxEntityID = 11
  Places <- TwoPlaces
  Origin = 0
  TenthSecond = 2
  DeltaTimes <- ShortAndLong
  MaxInbox = 2
  MaxLists = 2
INVARIANTS
  TypeOK
  GreetsOnce
  ListAndOkLoad
  HeadsForTold
PROPERTIES
  RepeatsPosition
  PuppetsComeToRest
CHECK_DEADLOCK FALSE
