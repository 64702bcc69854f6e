INIT SideInit
NEXT SideNext
CONSTANTS
  \* hooks
  Devices <- MCDevices
  Requests = {r1}
  SeatCounts = {0, 1, 2}
  MayRestart = TRUE
  Absent = Absent
  \* directory
  Ids = {1, 2}
  Drafts <- MCDrafts
  Legacy <- MCLegacy
  Files <- MCFiles
  MaxVersion = 4
  MaxWrites = 2
  MaxFaults = 1
  Overlap = TRUE
  \* licence
  Tokens <- MCTokens
  Installers = {i1, i2}
  MaxClock = 2
  MaxStarts = 2
  \* events
  RingSize = 3
  Limits = {1, 2}
  MaxSeq = 6
  MaxLives = 2
  \* door and claims
  Visits = {"r1", "r2", "r3"}
  Sources = {"a", "b"}
  MaxConnections = 2
  MaxInflight = 1
  PerRate = 1
  PerCap = 2
  GlobalRate = 2
  GlobalCap = 3
  IdleTicks = 2
  ClaimLimit = 1
  ClaimWindow = 2
  MaxTime = 3
  \* console
  Operators = {"o1"}
  MaxPresses = 2
  MaxLogins = 3
  MaxElsewhere = 2
INVARIANTS
  
   BookCaughtUp NothingOverwritten
  SeatsTold
  NoSilentGap
  DoorSound
  OnceAsTold 
CHECK_DEADLOCK FALSE
