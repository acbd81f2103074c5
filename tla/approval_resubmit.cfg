SPECIFICATION Spec
CONSTANTS
  i1 = i1
  i2 = i2
  t1 = t1
  None = None
  Intents <- TwoIntents
  Tasks <- OneTask
  TaskOf <- TwoTaskOf
  Notional <- TwoNotional
  MinNotional = 2
  Mode = "live"
  ApprovalModes = {"live"}
  Payload <- TwoPayload
  Timeout = 1
  MaxAttempts = 2
  MaxTime = 2
  MaxCycles = 2
  MaxFaults = 2
INVARIANT
  NeverResubmitted
CHECK_DEADLOCK FALSE
