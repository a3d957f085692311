SPECIFICATION Spec
CONSTANTS
  BlockSizes <- TwoOrNone
  SeqModulus = 4
  CounterLimit = 4
  Lengths <- FewLengths
  MaxPayloads = 3
  MaxLost = 4
INVARIANTS
  CountersFit
  PayloadsWhole
  NobodyWaits
PROPERTIES
  PayloadsInOrder
CHECK_DEADLOCK FALSE
