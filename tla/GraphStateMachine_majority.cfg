\* A node with two dependencies is enough for exactly half of them.
CONSTANTS
    N = 3
    Policies = {"continue"}
    Barriers = {"all", "majority"}
    MaxRetries = 0
    MaxRestarts = 0
SPECIFICATION Spec
INVARIANT MajoritySkippedAsDocumented
CHECK_DEADLOCK FALSE
