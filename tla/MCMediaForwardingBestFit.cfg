CONSTANTS
  Sends <- LowMedium
  OwnSends <- LowMedium
  Cap <- NoCap
  KEYFRAME_REQUEST_MIN_GAP = 1
  ByteBase = 4
  SFRAME_KID_WIDTH = 2
  MaxKid = 20
SPECIFICATION Spec
INVARIANTS ForwardsBestFit
