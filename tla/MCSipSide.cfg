INIT SideInit
NEXT SideNext
CONSTANTS
  \* media
  NumMod = 16
  TsMod = 64
  Reorder = 4
  TimelineBreak = 3
  FrozenBreak = 1
  Starts = {13}
  Arrivals <- MCArrivals
  MaxArrivals = 4
  MaxPlays = 2
  MaxEvents = 5
  MayFail = TRUE
  \* registrar
  Phones = {"p1", "p2", "p3"}
  Devices = {"d1", "d2"}
  SipUsers = {"u1", "u2"}
  DeviceOf <- MCDeviceOf
  UserOf <- MCUserOf
  MaxFlows = 2
  MaxAdmin = 2
  MaxIncoming = 1
  \* trunk
  TrunkCalls = {"c1", "c2"}
  MaxConns = 3
  MaxBreaks = 2
INVARIANTS
  StreamCarriesOn TimelineKept
   
  NoGhostInvite
CHECK_DEADLOCK FALSE
