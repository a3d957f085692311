SPECIFICATION FairSpec
CONSTANTS
  Protocol = "KWP2000"
  Modes <- TwoModes
  Services <- OneService
  MaxInFlight = 1
INVARIANTS
  TypeOK
  ChannelDiscipline
  UndisturbedSession
PROPERTIES
  CallsEnd
CHECK_DEADLOCK FALSE
