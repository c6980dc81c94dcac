SPECIFICATION Spec
CONSTANTS
  MaxTurns = 2
  Stopper = {c1, c2}
  MaxCrashes = 1
INVARIANTS
  TypeOK
  NoLiveOrphan
  PromptKept
  RegistriesReleased
  DoneMeansSaved
PROPERTIES
  SuccessorWaits
  NoWriteOverSuccessor
SYMMETRY Symmetric
CHECK_DEADLOCK FALSE
