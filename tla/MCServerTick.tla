----------------------------- MODULE MCServerTick -----------------------------
(* Small instances of the server's loop: everybody is near to everybody.    *)
EXTENDS ServerTick

CONSTANTS c1, c2, puppet, car

OneConn == {c1}
TwoConns == {c1, c2}
NoItems == {}
OnePlace == {1}
NoFilter == {}

SignInJoin ==
    [type : {"InitAuth"}, versionMatches : BOOLEAN]
      \cup [type : {"PlayerJoinWorld"}, pos : OnePlace]

SignInJoinDrive ==
    [type : {"InitAuth"}, versionMatches : BOOLEAN]
      \cup [type : {"PlayerJoinWorld", "PlayerSpawnCar"}, pos : OnePlace]
      \cup [type : {"PlayerUnmountCar"}]
=============================================================================
