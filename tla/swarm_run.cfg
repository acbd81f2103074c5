SPECIFICATION FairSpec
CONSTANTS
  a = a
  b = b
  c = c
  x = x
  y = y
  z = z
  None = None
  Tasks <- ThreeTasks
  Agents <- ThreeAgents
  Presets <- ThePresets
  MaxWorkers = 2
  MaxRetries = 1
  MaxFaults = 2
INVARIANTS
  EndIsTrue
  NothingLeftBehind
PROPERTIES
  KeepsPromise
  RunEnds
CHECK_DEADLOCK FALSE
