SPECIFICATION FairSpec
CONSTANTS
  a = a
  b = b
  trade = trade
  graph = graph
  ask = ask
  tradeRule = tradeRule
  graphRule = graphRule
  prefix = prefix
  other = other
  None = None
  Attempts <- TwoAttempts
  Commands <- TheCommands
  Rules <- TheRules
  RuleOf <- TheRuleOf
  Questions <- Asking
  OneTime <- TheOneTime
  Prefixes <- ThePrefixes
  Covers <- TheCovers
  Answers <- TheAnswers
  MaxCalls = 2
  Plans <- ThePlans
  MaxFaults = 1
INVARIANTS
  ConsentFirst
  AnswerStands
  OpenIsAwaited
  StopIsPrompt
PROPERTIES
  GrantsKept
  AttemptsEnd
CHECK_DEADLOCK FALSE
