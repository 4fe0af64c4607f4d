CONSTANTS
  a = a
  b = b
  r = r
  Ids <- TwoIds
  Relays <- OneRelay
  Mids <- OneMid
  MaxQueue = 3
  LateCalls = TRUE
SPECIFICATION Spec
INVARIANTS EstimatorTracksRoom
