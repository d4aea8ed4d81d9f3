CONSTANTS
  t1 = t1
  t2 = t2
  None = None
  Setups = {t1, t2}
  CrashBound = 0
SPECIFICATION Spec
INVARIANT NeverHalfInstalled
