SPECIFICATION Spec
CONSTANTS
  Proc = {p1, p2}
  Runner = {r1, r2}
  Drainer = {d1, d2}
  None = None
  MaxHuman = 1
  MaxCopies = 2
  MaxAbort = 1
  MaxFail = 1
INVARIANTS
  WakeupTypeOK
  LostOnlyIfMisfiled
  WokenOnce
PROPERTY ReadStaysQuiet
SYMMETRY Symmetric
CHECK_DEADLOCK FALSE
