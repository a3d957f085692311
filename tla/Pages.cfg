SPECIFICATION PagesSpec
CONSTANTS
  JsonEcus <- MCJsonEcus
  MaxBatch = 2
  MaxThreads = 2
  LastId = 5
  ObdId = 3
  Networks <- MCNetworks
  MaxRx = 1
  MaxNoted = 2
  LastGroup = 1
  Vehicles <- MCVehicles
  Misreadings <- MCMisreadings
  MaxSessions = 2
  MaxUnderway = 2
INVARIANTS
  PageOwnsWhatRuns
  ScanFindsEcus
  PageTellsOfThisEcu
PROPERTIES
  StoppedServerNoticed
  ScanEnds
  ObdCallsEnd
CHECK_DEADLOCK FALSE
