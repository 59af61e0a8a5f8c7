\* Two findings on others' work; a cost cap; the gate must let the agent go.
CONSTANTS
  f1 = f1
  f2 = f2
  f3 = f3
  Findings = {f1, f2}
  Severity <- TwoSeverities
  Region <- TwoRegions
  Owner <- TwoOwners
  None = None
  MaxIterations = 2
  Overrides = {None}
  StuckThreshold = 2
  MaxSigRecurrence = 0
  MaxLocRecurrence = 0
  RejectPercent = 0
  MinDecisions = 4
  FpThreshold = 0
  FpChurnGuard = TRUE
  QuotaCap = 1
  InfraCap = 1
  MaxIncomplete = 2
  CostCap = 2
  Costs = {1}
  AcknowledgePass = TRUE
  UnseenCommits = {}
  MaxEdits = 2
  MaxCommits = 1
SPECIFICATION FairSpec
INVARIANTS DefersBounded
PROPERTIES LetsAgentGo
CHECK_DEADLOCK FALSE
