SPECIFICATION Spec
CONSTANTS
  None = None
  Unstated = Unstated
  a = a
  b = b
  Symbols <- MCSymbols
  Universe <- MCUniverse
  Commission = 1
  StampTax = 1
  Fraction = 60
  Ratio = 50
  OrderCaps <- PerOrder
  Lot = 2
  DeadBand = 1
  Openings <- MCOpenings
  OpeningCash = 100
  Signals <- MCSignals
  TaskAmounts <- Amount
  TaskRatios <- ThreeQuarters
  Drawdown = 10
  Markets <- MCMarkets
  Leftovers <- Anything
  Slots = 4
  PerDay = 2
  MaxFaults = 1
INVARIANTS
  T1Holds
PROPERTIES
  BuysWithinLimits
  HaltHolds
  FillsReachLedger
CHECK_DEADLOCK FALSE
