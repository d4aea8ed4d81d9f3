SPECIFICATION Spec
CONSTANTS
  Pages = {p1, p2}
  Reader = reader
INVARIANTS NothingMissed
PROPERTIES OutputFlows GoneIsForgotten
