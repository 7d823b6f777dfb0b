------------------------ MODULE MCPlayerActionTracker ------------------------
(* One player, one item, one place.                                         *)
EXTENDS PlayerActionTracker

CONSTANTS c1, i1, puppet, car

OneConn == {c1}
OneItem == {i1}
OnePlace == {1}
NoFilter == {}
=============================================================================
