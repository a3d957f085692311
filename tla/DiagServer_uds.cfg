SPECIFICATION FairSpec
CONSTANTS
  Protocol = "UDS"
  Modes <- TwoModes
  Services <- OneService
  MaxInFlight = 1
PROPERTIES
  CallsReturn
  ExitClosesInterface
CHECK_DEADLOCK FALSE
