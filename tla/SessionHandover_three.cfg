SPECIFICATION FairSpec
CONSTANTS
  MaxSessions = 3
  MaxQueue = 2
INVARIANTS
  TypeOK
  LoneSessionKeepsChannel
  LoneSessionHearsItsEcu
  OneServerRuns
PROPERTIES
  CallsAndThreadsEnd
CHECK_DEADLOCK FALSE
