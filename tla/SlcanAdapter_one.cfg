SPECIFICATION Spec
CONSTANTS
  Clients <- OneClient
  Ids <- OneId
  Slots <- OneSlot
  MaxFrames = 3
  MaxLate = 1
INVARIANTS
  TypeOK
  LayersAndFilterNest
  RepliesCorrelatedInTime
  FramesKept
