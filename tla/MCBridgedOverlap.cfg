SPECIFICATION Spec
CONSTANTS
  MaxTransfers = 2
  Targets = {"trunk"}
  TrunkLegs = {1, 2}
  Holders = {}
  Overlap = TRUE
INVARIANT OffloadOver
