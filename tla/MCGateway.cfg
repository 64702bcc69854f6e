SPECIFICATION Spec
CONSTANTS
  Devices = {d1}
  Calls = {k1}
  Conns = {c1, c2}
  NoConn = NoConn
  Scenarios <- MCScenarios
INVARIANTS ReachesAll TableSound
PROPERTIES ReplacedEnds
CHECK_DEADLOCK FALSE
