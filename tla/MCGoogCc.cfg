CONSTANTS
  Publishers = {p1, p2}
  Clock <- Apart
  Transits <- FewTransits
  OVERUSE_THRESHOLD = 1
  WINDOW = 4
  GOOGCC_INITIAL_BPS = 5
  GOOGCC_MIN_BPS = 3
  GOOGCC_MAX_BPS = 10
  AI_PERCENT = 30
  MD_PERCENT = 60
  MinIncrease = 1
  Unset = Unset
  App = App
  p1 = p1
  p2 = p2
SPECIFICATION FairSpec
INVARIANTS TypeOK SteadyGrowthIsOveruse JitterIsHarmless
PROPERTIES CutsFollowARise 
