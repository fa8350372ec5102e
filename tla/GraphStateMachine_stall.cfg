\* Three nodes are enough for a pending node nobody revisits.
CONSTANTS
    N = 3
    Policies = {"continue"}
    Barriers = {"all", "majority", "best-effort"}
    MaxRetries = 0
    MaxRestarts = 0
SPECIFICATION Spec
INVARIANT NoStalledNode
CHECK_DEADLOCK FALSE
