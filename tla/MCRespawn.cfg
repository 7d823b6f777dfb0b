SPECIFICATION Spec
CONSTANTS
  NetworkedIds <- OneId
  FirstEntityID = 10
  MaxEntityID = 10
  Places <- TwoPlaces
  Origin = 0
  TenthSecond = 2
  DeltaTimes <- ShortAndLong
  MaxInbox = 2
  MaxLists = 0
INVARIANTS
  RespawnsAreSeen
CHECK_DEADLOCK FALSE
