CONSTANTS
  a = a
  b = b
  r = r
  Ids <- ThreeIds
  Relays <- OneRelay
  Mids <- OneMid
  MaxQueue = 3
  LateCalls = FALSE
SPECIFICATION Spec
INVARIANTS TypeOK AdvertisedOnce MediaFollowsItsTrack DetectorMirrorsRoom EstimatorTracksRoom QueueStaysShort
