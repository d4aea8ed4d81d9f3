CONSTANTS
  t1 = t1
  e1 = e1
  e2 = e2
  NoThread = NoThread
  Ops = {t1}
  Emitters = {e1, e2}
  MaxSessions = 2
  Geoms = {1, 2}
  DefaultGeom = 1
  IdBound = 4
  OutBound = 2
  DropBound = 0
SPECIFICATION ConnectedSpec
SYMMETRY Symmetry
INVARIANT ActiveAtRest
INVARIANT ScreenComplete
INVARIANT GeometryFollows
INVARIANT TabStripCurrent
