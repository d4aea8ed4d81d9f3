SPECIFICATION Spec
CHECK_DEADLOCK FALSE
CONSTANTS
  Launches = {1, 2}
  Pages = {p1, p2}
  HttpRange = 1
  WsRange = 3
  Restricted = {2}
  Main = Main
  None = None
INVARIANTS
  OldPagesAccepted
  InputReachesShown
PROPERTY PageGetsTerminal
