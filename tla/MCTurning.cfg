SPECIFICATION Spec
CONSTANTS
  HalfTurn = 6
  TenthSecond = 3
  DeltaTimes = {1, 2, 3}
INVARIANTS
  TypeOK
  TurnsTheShorterWay
PROPERTIES
  NeverTurnsAway
CHECK_DEADLOCK FALSE
