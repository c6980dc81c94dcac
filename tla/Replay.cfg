SPECIFICATION Spec
CONSTANTS
  Tab = {b1}
  Conn = {c1, c2, c3}
  None = None
  MaxRows = 1
  OfflineMax = 1
SYMMETRY Symmetric
INVARIANTS
  TypeOK
  EndSurvives
  RenderedOnce
PROPERTY NoHole
CHECK_DEADLOCK FALSE
