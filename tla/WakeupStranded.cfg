SPECIFICATION Spec
CONSTANTS
  Proc = {p1}
  Runner = {r1, r2}
  Drainer = {d1, d2}
  None = None
  MaxHuman = 1
  MaxCopies = 1
  MaxAbort = 0
  MaxFail = 0
INVARIANT NoneStranded
CHECK_DEADLOCK FALSE
