SPECIFICATION Spec
CONSTANTS
  Devices <- MCDevices
  Users = {u1, u2}
  Credentials = {1, 2, 3}
  Times <- MCTimes
  CodeTTL = 1
  SsidLists = {s1}
  Details = {x1}
  MaxVersion = 2
  Absent = Absent
  SeatCounts <- MCSeatCounts
  Clients = {}
  SaveMayFail = FALSE
  MayCrash = TRUE
  Nothing = Nothing
 
PROPERTY SeatKept
