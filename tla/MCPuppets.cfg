SPECIFICATION Spec
CONSTANTS
  NetworkedIds <- TwoIds
  FirstEntityID = 10
  MaxEntityID = 11
  Places <- OnePlace
  Origin = 0
  TenthSecond = 2
  DeltaTimes <- ShortAndLong
  MaxInbox = 2
  MaxLists = 0
INVARIANTS
  NoGhosts
  FirstSpawnsAreSeen
  OnlyRespawnsLeak
VIEW WithoutOutgoing
CHECK_DEADLOCK FALSE
