SPECIFICATION Spec
CONSTANTS
  m = 5
  s = 2
  GreenComponents = 1
  GlobalMoves = {"shift", "wolff"}
  globalUpdateInterval = 2
  Assertions = TRUE
  MaxSweeps = 4
INVARIANTS
  TypeOK
  GreenIsCurrent
  NoAssertionFails
  EverySliceMeasured
  MoveDecidedOnCurrentDeterminants
  TermsConsistent
PROPERTIES
  ResumeIsSeamless
