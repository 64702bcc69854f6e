SPECIFICATION FairSpec
CONSTANTS
  Targets = {"app", "trunk", "unknown"}
  MaxRoutes = 3
  maxRetargets = 1
  MayHangUp = TRUE
INVARIANTS  NoGhostRing
PROPERTIES BusyKept CallEnds
