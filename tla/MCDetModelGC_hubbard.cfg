SPECIFICATION Spec
CONSTANTS
  m = 5
  s = 2
  GreenComponents = 2
  GlobalMoves = {}
  globalUpdateInterval = 1
  Assertions = FALSE
  MaxSweeps = 3
INVARIANTS
  GreenIsCurrent
  AdvancePreconditions
