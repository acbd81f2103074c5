SPECIFICATION FairSpec
CONSTANTS
  None = None
  NewJobs <- MCNewJobs
  Edits <- MCEdits
  Grace = 1
  MaxTime = 2
  MaxCalls = 3
  MaxRuns = 2
  MaxFaults = 1
INVARIANTS
  EnabledIsScheduled
PROPERTIES
  PauseHolds
  RunsAreClosed
CHECK_DEADLOCK FALSE
