SPECIFICATION FairSpec
CONSTANTS
  MaxRetries = 2
  MaxId = 2
  Faults = {"drop", "redis", "tcp"}
  NoConn = NoConn
INVARIANTS TypeOK BelievedIsServed RequestNotLost
PROPERTIES CallsSettle StreamEnded
CHECK_DEADLOCK FALSE
