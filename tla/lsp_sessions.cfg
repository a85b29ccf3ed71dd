SPECIFICATION FairSpec
CONSTANTS
  Sessions = {s1}
  Files = {f1}
  Calls = {r1}
  Kinds = {"upload", "activity"}
  Ids = {i1, i2}
  Scans = {k1, k2}
  Cleanups = {c1}
  TTL = 2
  Faults = {"crash", "stop", "docker", "redis"}
  MaxFaults = 1
  IdleUsers = FALSE
  NoKey = NoKey
  NoId = NoId
  NoDir = NoDir
INVARIANTS TypeOK ContainerTracked OneContainerPerSession RenewedStaysAlive
PROPERTIES ExpiredReclaimed SessionGetsContainer TakenOver ShutdownStops
CHECK_DEADLOCK FALSE
