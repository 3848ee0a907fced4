SPECIFICATION Spec
CONSTANTS
  NumProcesses = 2
  Thermalization = 0
  Sweeps = 4
  MeasureInterval = 2
  SaveInterval = 4
  ConfigInterval = 4
  ExchangeInterval = 1
  NoFile = NoFile
INVARIANTS
  GoingUpComesFromTheTop
