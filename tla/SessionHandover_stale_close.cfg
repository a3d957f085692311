SPECIFICATION Spec
CONSTANTS
  MaxSessions = 2
  MaxQueue = 1
INVARIANT
  SendsWithOwnFilter
CHECK_DEADLOCK FALSE
