--------------------------- MODULE MCRoomMetrics ---------------------------
(* An instance of RoomMetrics for TLC: a local client and a relay, so that *)
(* one can leave while the other is driven, scored and reported on.        *)
EXTENDS RoomMetrics

CONSTANTS a, r

TwoIds   == {a, r}
OneRelay == {r}
OneMid   == {"video"}

=============================================================================
