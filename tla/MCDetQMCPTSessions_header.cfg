SPECIFICATION SessionsSpec
CONSTANTS
  NumProcesses = 2
  Thermalization = 0
  Sweeps = 2
  MeasureInterval = 1
  SaveInterval = 2
  ConfigInterval = 1
  ExchangeInterval = 1
  MayBeKilled = FALSE
  MaxSessions = 1
  NoFile = NoFile
  Torn = Torn
INVARIANTS
  StreamsStartWithHeader
