SPECIFICATION Spec
CONSTANTS
  MaxRetries = 2
  MaxId = 2
  Faults = {}
  NoConn = NoConn
INVARIANTS InitializedServer
CHECK_DEADLOCK FALSE
