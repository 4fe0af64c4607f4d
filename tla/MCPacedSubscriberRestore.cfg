CONSTANTS
  Bps <- SixClasses
  U8Max = 3
  DefaultConfig <- Defaults
  Rates <- AnyRates
  Ceilings <- LowOrHigh
  MinBitrate = 1
  InitialBitrate = 3
  GoogccMin = 2
  GoogccInitial = 3
  MinTick = 2
  HintMaxAge = 3
  DesiredAtInsert <- OnlyLow
  TwccReports = TRUE
SPECIFICATION PacedSpec
PROPERTIES RestoreVideoLiftsToLow
