SPECIFICATION Spec
CONSTANTS
  Thermalization = 2
  MeasureInterval = 1
  ConfigInterval = 1
  JkBlocks = 2
  TargetSweeps = {8}
  SaveIntervals = {2, 4}
  Unspecified = 0
  MayBeKilled = FALSE
  MaxSessions = 2
  NoFile = NoFile
  Torn = Torn
INVARIANTS
  FinishedIsSaved
