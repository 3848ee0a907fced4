SPECIFICATION Spec
CONSTANTS
  m = 3
  s = 2
  GreenComponents = 2
  GlobalMoves = {}
  globalUpdateInterval = 1
  Assertions = TRUE
  MaxSweeps = 2
INVARIANTS
  NoAssertionFails
