SPECIFICATION FairClientSpec
CONSTANTS
  Jobs = {j1}
  Slots = {s1}
  NoJob = NoJob
  MaxStalledCount = 1
  Faults = {"docker", "fs", "api", "tie", "stop"}
  MaxPolls = 3
INVARIANTS ClientTypeOK ColumnsMatchStatus ShownJobIsComplete ShownVerdictStands
PROPERTIES FollowsLifecycle AcceptedSettles ShutdownCompletes MenuReturns
CHECK_DEADLOCK FALSE
