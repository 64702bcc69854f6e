SPECIFICATION Spec
CONSTANTS
  MaxTransfers = 1
  Targets = {"unknown", "echo", "trunk", "local"}
  TrunkLegs = {1}
  Holders = {1, 2}
  Overlap = FALSE
INVARIANTS NoOrphan CallIntact
PROPERTIES CallOver 
