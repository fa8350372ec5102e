SPECIFICATION FairSpec
CONSTANTS
  g1 = g1
  g2 = g2
  Graph <- TwoGraphs
  N = 2
  Deps <- TwoDeps
  Driver <- TwoDrivers
  Budgeted <- TwoBudgeted
  OnFailure = "fail-fast"
  Barrier = "all"
  Fan = 3
  MaxGlobalSubAgents = 1
  MaxConcurrency = 2
  Retries <- TwoRetries
  MaxTurns = 2
  MaxFaults = 1
CHECK_DEADLOCK FALSE
INVARIANTS WithinLimit TrackedIsAlive RunningCountExact RoundComplete
PROPERTIES EndedStaysEnded GraphsEnd
