SPECIFICATION ProcessSpec
CHECK_DEADLOCK FALSE
CONSTANTS
  Tabs = {t1, t2}
  Requests = {r1, r2}
  Dirs = {home, d}
  Home = home
  MaxCommands = 3
  MaxOverlap = 2
  None = None
SYMMETRY Symmetry
INVARIANTS
  NestedRunsIsolated
  PromptIsTrue
