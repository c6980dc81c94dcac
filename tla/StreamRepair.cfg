SPECIFICATION Spec
CONSTANTS
  MaxTurns = 2
  Stopper = {c1}
  MaxCrashes = 0
INVARIANT NeverClearsALiveStream
CHECK_DEADLOCK FALSE
