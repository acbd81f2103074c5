SPECIFICATION Spec
CONSTANTS
  None = None
  NewJobs <- JustCron
  Edits <- NameOnly
  Grace = 1
  MaxTime = 2
  MaxCalls = 3
  MaxRuns = 2
  MaxFaults = 0
INVARIANT
  NoOverlap
CHECK_DEADLOCK FALSE
