\* Every relation on four nodes, both policies, all barrier modes.
CONSTANTS
    N = 4
    Policies = {"fail-fast", "continue"}
    Barriers = {"all", "majority", "best-effort"}
    MaxRetries = 1
    MaxRestarts = 1
SPECIFICATION Spec
INVARIANTS TypeOK StartedMeetsBarrier SkippedIsHopeless StallsOnlyInModes
PROPERTY ValidationExact
CHECK_DEADLOCK FALSE
