CONSTANTS
  a = a
  r = r
  Ids <- TwoIds
  Relays <- OneRelay
  Mids <- OneMid
  MaxQueue = 2
  LateCalls = FALSE
SPECIFICATION MetricsSpec
INVARIANTS SeriesFollowRoom
PROPERTIES DeadGetReaped
