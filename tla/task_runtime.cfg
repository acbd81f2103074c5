SPECIFICATION Spec
CONSTANTS
  t1 = t1
  t2 = t2
  c1 = c1
  c2 = c2
  None = None
  Tasks <- TwoTasks
  Callers <- TwoCallers
  MaxCalls = 4
  MaxFaults = 1
SYMMETRY
  Alike
INVARIANTS
  RunningIsStored
  KillStopsTheRest
  WorkerIsCurrent
CHECK_DEADLOCK FALSE
