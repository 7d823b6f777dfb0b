---------------------------- MODULE MCGameClient ----------------------------
(* Small clients for TLC: entities at 2 and 6, half way is 4, and a frame   *)
(* takes 0.05 s or 0.1 s.                                                   *)
EXTENDS GameClient

OneId == {1}
OnePlace == {2}
TwoIds == {1, 2}
TwoPlaces == {2, 6}
ShortAndLong == {1, 2}

(* What the last step sent says nothing of what the next may do.            *)
WithoutOutgoing ==
    <<phase, connecting, session, puppets, timeSinceLastPlayerPositionSync,
      link, statusChanges, inbox, menu, server>>
=============================================================================
