SPECIFICATION Spec
CHECK_DEADLOCK FALSE
CONSTANTS
  Scripts <- MCScripts
  MaxInterrupts = 2
  Ctypes = TRUE
INVARIANTS
  EachLineOnce
  LatchedMeansSignalled
PROPERTY InterruptEnds
