\* Three lanes of two conversations; one conversation in every mode and policy, a gate of one.
CONSTANTS
    a1 = a1
    a2 = a2
    b1 = b1
    Lane = {a1, a2, b1}
    SessionOf <- MCSessionOf
    ModesOf <- MCModesOf
    Policies = {"drop-old", "drop-new", "summarize"}
    GateWidths = {1, 2}
    MaxDepth = 2
    MaxMsg = 4
    MaxQueues = 3
SPECIFICATION FairSpec
INVARIANTS OneHandlerPerSession DepthExact LaneOrder
    ResourcesFollowEntry ShutdownSettlesAll
PROPERTY MessagesSettle
CHECK_DEADLOCK FALSE
