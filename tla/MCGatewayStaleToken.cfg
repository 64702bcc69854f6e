SPECIFICATION Spec
CONSTANTS
  Devices = {d1}
  Calls = {k1}
  Conns = {c1}
  NoConn = NoConn
  Scenarios <- MCRotation
INVARIANTS CredentialEnforced
CHECK_DEADLOCK FALSE
