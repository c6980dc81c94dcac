SPECIFICATION Spec
CONSTANTS
  Publisher = {w1}
  Tab = {b1, b2}
  Profile = {p1, p2}
  Everything = Everything
  Unscoped = Unscoped
  None = None
  MaxChanges = 1
  CacheMax = 2
  MaxAttempts = 2
SYMMETRY Symmetric
INVARIANTS
  SidebarTypeOK
  ClearsAreFinal
PROPERTIES
  AnswersAreCurrent
CHECK_DEADLOCK FALSE
