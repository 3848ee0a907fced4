SPECIFICATION Spec
CONSTANTS
  m = 3
  AccRatioAdjustmentSamples = 2
  adaptScaleVariance = TRUE
  MaxSweeps = 4
  MaxHalvings = 6
INVARIANTS
  ScaleBelowTooLow
