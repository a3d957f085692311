SPECIFICATION Spec
CONSTANTS
  PeerBlockSizes <- TwoOrNone
  SeqModulus = 4
  CounterLimit = 4
  Lengths <- FewLengths
  MaxPayloads = 3
  MaxLost = 2
  MaxQueued = 2
INVARIANTS
  CountersFit
  PayloadsWhole
  BlocksRespected
  NobodyWaits
CHECK_DEADLOCK FALSE
