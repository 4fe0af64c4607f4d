CONSTANTS
  Delays <- SomeDelays
  OveruseThreshold = 1
  MaxSendTimes = 2
  LossWindow = 3
  LossHigh = 50
  LossLow = 20
  MinBitrate = 4
  MaxBitrate = 6
  InitialBitrate = 5
  DelayIncrease = 2
  LossIncrease = 1
  DelayCooldown = 1
  LossCooldown = 2
  MaxSeq = 3
  MaxTime = 3
SPECIFICATION Spec
INVARIANTS TypeOK RecentSendsKnown
PROPERTIES NoPhantomCongestion CleanFeedbackNeverCuts
