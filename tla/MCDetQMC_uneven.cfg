SPECIFICATION Spec
CONSTANTS
  Thermalization = 2
  MeasureInterval = 3
  ConfigInterval = 3
  JkBlocks = 3
  TargetSweeps = {12}
  SaveIntervals = {6}
  Unspecified = 0
  MayBeKilled = FALSE
  MaxSessions = 1
  NoFile = NoFile
  Torn = Torn
INVARIANTS
  JackknifeNormalised
