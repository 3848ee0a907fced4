SPECIFICATION SessionsSpec
CONSTANTS
  NumProcesses = 3
  Thermalization = 0
  Sweeps = 4
  MeasureInterval = 2
  SaveInterval = 2
  ConfigInterval = 2
  ExchangeInterval = 1
  MayBeKilled = TRUE
  MaxSessions = 2
  NoFile = NoFile
  Torn = Torn
INVARIANTS
  SessionsTypeOK
  StaysInStep
  OnlySavesAreFragile
  SavedSweepsAreRecorded
  StoppingLeavesNoTrace
  ExchangeKeepsPace
PROPERTIES
  SessionsEnd
