--------------------------- MODULE MCEntityTracking ---------------------------
(* Small worlds for TLC: a player at 0 or 100 is near to the other, at the  *)
(* very edge of the range, and one at 250 is out of range of both.          *)
EXTENDS EntityTracking

CONSTANTS c1, c2, i1, puppet, car

TwoConns == {c1, c2}
OneItem == {i1}
EdgeAndFar == {0, 100, 250}
HidesFirstFromSecond == {<<c2, c1>>}

(* What the last step enqueued says nothing of what the next may do.        *)
WithoutOutbox == <<managed, greeted, closed>>
=============================================================================
