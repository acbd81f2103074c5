SPECIFICATION Spec
CONSTANTS
  r1 = r1
  r2 = r2
  s = s
  o = o
  c1 = c1
  acc = acc
  n1 = n1
  n2 = n2
  n3 = n3
  None = None
  Rules <- OneRule
  Scope <- OnS
  Asks <- TheAsks
  Symbols <- TheSymbols
  Clients <- OneClient
  Accounts <- OneAccount
  Streams <- TheStreams
  Cooldown = 2
  MaxTime = 2
  MaxSockets = 1
  MaxMoves = 1
  MaxFaults = 1
  MaxEdits = 1
  MaxDays = 1
INVARIANTS
  ConnectedIsStreaming
CHECK_DEADLOCK FALSE
