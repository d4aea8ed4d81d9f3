CONSTANTS
  t1 = t1
  t2 = t2
  NoThread = NoThread
  Ops = {t1, t2}
  Emitters = {}
  MaxSessions = 2
  Geoms = {1}
  DefaultGeom = 1
  IdBound = 4
  OutBound = 1
  DropBound = 1
SPECIFICATION Spec
SYMMETRY Symmetry
INVARIANT RegistryConsistent
INVARIANT NeverLeavesZero
INVARIANT NoOrphanSession
