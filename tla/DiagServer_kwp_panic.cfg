SPECIFICATION Spec
CONSTANTS
  Protocol = "KWP2000"
  Modes <- TwoModes
  Services <- OneService
  MaxInFlight = 1
INVARIANTS
  ClientNeverPanics
CHECK_DEADLOCK FALSE
