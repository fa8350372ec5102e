SPECIFICATION Spec
CONSTANTS
  g1 = g1
  g2 = g2
  Graph <- TwoGraphs
  N = 2
  Deps <- TwoDeps
  Driver <- TwoDrivers
  Budgeted <- DriverBudgeted
  OnFailure = "fail-fast"
  Barrier = "all"
  Fan = 2
  MaxGlobalSubAgents = 1
  MaxConcurrency = 2
  Retries <- TwoRetries
  MaxTurns = 2
  MaxFaults = 1
CHECK_DEADLOCK FALSE
PROPERTY ExpiryEndsNodes
