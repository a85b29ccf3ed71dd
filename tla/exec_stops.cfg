SPECIFICATION FairSpec
CONSTANTS
  Jobs = {j1}
  Slots = {s1, s2}
  NoJob = NoJob
  MaxStalledCount = 1
  Faults = {"db", "stall"}
INVARIANTS TerminalHasResult ContainerOwned
PROPERTIES ProgramStops
CHECK_DEADLOCK FALSE
