SPECIFICATION Spec
CONSTANTS
  Thermalization = 2
  MeasureInterval = 4
  ConfigInterval = 8
  JkBlocks = 3
  TargetSweeps = {12, 24}
  SaveIntervals = {6, 12, 24}
  Unspecified = 0
  MayBeKilled = TRUE
  MaxSessions = 4
  NoFile = NoFile
  Torn = Torn
INVARIANTS
  TypeOK
  
  FinishedIsSavedUnlessRetimed
  EvenSweepsSaved
  JackknifeNormalised
  StatisticsExact
  SeriesHasNoHoles
