SPECIFICATION FairSpec
CONSTANTS
  j1 = j1
  q1 = q1
  q2 = q2
  None = None
  Jobs <- OneJob
  Requests <- TwoCallers
  Bars = 2
  MaxCalls = 3
  MaxFaults = 2
INVARIANTS
  LedgerAccounted
  CompletedIsComplete
  StopIsPrompt
  PauseIsPrompt
PROPERTIES
  StopEnds
CHECK_DEADLOCK FALSE
