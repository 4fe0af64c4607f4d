CONSTANTS
  Bps <- BpsUpTo5
  U8Max = 3
SPECIFICATION FairSpec
INVARIANTS TypeOK SubStates
PROPERTIES SuspendDebounced UpgradeDebounced NoFlapping ImplementsLadder Recovers Sheds
