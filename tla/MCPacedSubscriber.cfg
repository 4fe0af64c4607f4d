CONSTANTS
  Bps <- SixClasses
  U8Max = 3
  DefaultConfig <- Defaults
  Rates <- AnyRates
  Ceilings <- LowOrHigh
  MinBitrate = 1
  InitialBitrate = 3
  GoogccMin = 2
  GoogccInitial = 3
  MinTick = 2
  HintMaxAge = 3
  DesiredAtInsert <- AllRids
  TwccReports = TRUE
SPECIFICATION PacedFairSpec
INVARIANTS PacedTypeOK EveryoneKnowsTheMode DesiredAtLeastPaced UnmeasuredIsNotPaced
PROPERTIES SuspendSpansTime OnlyCeilingsSuspend HintsWearOff
