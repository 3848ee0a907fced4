SPECIFICATION Spec
CONSTANTS
  NumProcesses = 4
  Thermalization = 6
  Sweeps = 4
  MeasureInterval = 1
  SaveInterval = 4
  ConfigInterval = 2
  ExchangeInterval = 4
  NoFile = NoFile
INVARIANTS
  TypeOK
  NoMismatch
  StreamsComplete
  CheckpointsCoherent
  CollectivesMatch
  ResultsSaved
  TablesInverse
  ExchangeInv
  ControlDataFollowsParameter
  StatisticsSound
PROPERTIES
  ImplementsEnsemble
  Termination
  DownByOneAtMost
