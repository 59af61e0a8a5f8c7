\* Three findings of different severity, region and owner; rounds up to a
\* moving cap; edits and a commit at any moment, every kind of outage.  Nothing
\* is explored beyond a latch that has lost its dirty flag.
CONSTANTS
  f1 = f1
  f2 = f2
  f3 = f3
  Findings = {f1, f2, f3}
  Severity <- ThreeSeverities
  Region <- ThreeRegions
  Owner <- ThreeOwners
  None = None
  MaxIterations = 2
  Overrides = {None, 1}
  StuckThreshold = 2
  MaxSigRecurrence = 3
  MaxLocRecurrence = 3
  RejectPercent = 60
  MinDecisions = 2
  FpThreshold = 2
  FpChurnGuard = TRUE
  QuotaCap = 1
  InfraCap = 0
  MaxIncomplete = 2
  CostCap = 2
  Costs = {0}
  AcknowledgePass = TRUE
  UnseenCommits = {}
  MaxEdits = 2
  MaxCommits = 1
SPECIFICATION Spec
INVARIANTS GreenIsEarned StandDownIsTold NoFindingDropped
CHECK_DEADLOCK FALSE
CONSTRAINT LatchKeepsFlag
