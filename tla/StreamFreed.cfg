SPECIFICATION FairSpec
CONSTANTS
  MaxTurns = 2
  Stopper = {c1}
  MaxCrashes = 1
PROPERTY SessionIsFreed
CHECK_DEADLOCK FALSE
