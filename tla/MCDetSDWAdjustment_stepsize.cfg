SPECIFICATION Spec
CONSTANTS
  m = 3
  AccRatioAdjustmentSamples = 2
  adaptScaleVariance = TRUE
  MaxSweeps = 8
  MaxHalvings = 12
INVARIANTS
  TypeOK
  AverageOfWindow
  BisectionRemembers
PROPERTIES
  ChangedByOwnSamples
