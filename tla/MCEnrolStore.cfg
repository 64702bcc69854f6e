SPECIFICATION Spec
CONSTANTS
  Devices <- MCDevices
  Users = {u1, u2}
  Credentials = {1, 2}
  Times <- MCTimes
  CodeTTL = 1
  SsidLists = {s1}
  Details = {x1, x2}
  MaxVersion = 2
  Absent = Absent
  SeatCounts = {1}
  Clients = {c1}
  SaveMayFail = TRUE
  MayCrash = TRUE
  Nothing = Nothing
INVARIANTS StoreSound NoOlderCredential CodeSingleUse
PROPERTIES NoOversell ImplementsStore
