SPECIFICATION Spec
CONSTANTS
  Sessions = {s1}
  Files = {f1}
  Calls = {r1, r2}
  Kinds = {"activity"}
  Ids = {i1, i2}
  Scans = {k1}
  Cleanups = {c1}
  TTL = 2
  Faults = {}
  MaxFaults = 0
  IdleUsers = TRUE
  NoKey = NoKey
  NoId = NoId
  NoDir = NoDir
INVARIANTS RenewalKeepsAlive
CHECK_DEADLOCK FALSE
