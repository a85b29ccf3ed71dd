SPECIFICATION Spec
CONSTANTS
  Jobs = {j1}
  Slots = {s1, s2}
  NoJob = NoJob
  MaxStalledCount = 2
  Faults = {"docker", "fs", "api", "crash", "stop"}
SYMMETRY Symmetry
INVARIANTS TypeOK PublishedAfterCommit JobExclusive VerdictMatchesExitCode
CHECK_DEADLOCK FALSE
