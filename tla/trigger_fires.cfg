SPECIFICATION FairSpec
CONSTANTS
  signals = signals
  once = once
  Sched = Sched
  Tick = Tick
  None = None
  Triggers <- MCTriggers
  Kind <- MCKind
  Period <- MCPeriod
  AtTime <- MCAtTime
  Intent <- MCIntent
  OneTime <- MCOneTime
  Modes <- MCModes
  MaxTime = 1
  MaxCalls = 1
  MaxUpdates = 1
  MaxFaults = 1
INVARIANTS
  ExtraFireIsExplained
  SwitchedOffFiresOnce
  SignalOnlyNeverTrades
PROPERTIES
  DueTriggerIsServed
CHECK_DEADLOCK FALSE
