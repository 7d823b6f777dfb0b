---------------------------- MODULE MCReplication ----------------------------
(* One client and one other connection; entities at 1 or, out of range, 3.  *)
EXTENDS Replication

CONSTANTS c1, c2, puppet, car

TwoConns == {c1, c2}
NoItems == {}
NoFilter == {}
OnePlace == {1}
NearAndFar == {1, 3}

RightVersion == [type |-> "InitAuth", versionMatches |-> TRUE]
WrongVersion == [type |-> "InitAuth", versionMatches |-> FALSE]
At(type, position) == [type |-> type, pos |-> position]

Standing == {RightVersion, At("PlayerJoinWorld", 1), At("PlayerPositionUpdate", 1)}
InAndAbout == Standing \cup {At("PlayerPositionUpdate", 3)}

Joining == {RightVersion, At("PlayerJoinWorld", 1)}
StandingOrRefused == Standing \cup {WrongVersion}

OneTick == {1}

(* What the last step sent says nothing of what the next may do.            *)
WithoutOutput ==
    <<managed, greeted, closed, phase, session, puppets, link, statusChanges, inbox,
      answered, told, streams, joins>>
=============================================================================
