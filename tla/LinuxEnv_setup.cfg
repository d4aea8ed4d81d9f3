CONSTANTS
  t1 = t1
  t2 = t2
  None = None
  Setups = {t1, t2}
  CrashBound = 2
SPECIFICATION Spec
SYMMETRY SetupSymmetry
INVARIANT InstalledIsWhole
INVARIANT SetupInstalls
PROPERTY NothingLeftBehind
PROPERTY InstalledStays
