SPECIFICATION Spec
CONSTANTS
  Session = {s1}
  Agent = {a1, a2}
  Thread = {t1, t2, t3}
  NoAgent = NoAgent
  NoSession = NoSession
  MaxGeneration = 4
INVARIANTS
  TypeOK
  SegmentsTile
  SingleFlight
PROPERTIES
  OnlyTheOwnerExtracts
  ImplementsLedger
SYMMETRY Symmetric
CHECK_DEADLOCK FALSE
