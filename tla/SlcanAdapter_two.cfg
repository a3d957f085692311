SPECIFICATION FairSpec
CONSTANTS
  Clients <- TwoClients
  Ids <- OneId
  Slots <- NoSlots
  MaxFrames = 1
  MaxLate = 1
INVARIANT
  OpenOnBothSides
PROPERTY
  CallsReturn
