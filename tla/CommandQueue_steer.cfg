\* One lane in steer mode: a left-over steer task overtakes a waiting message.
CONSTANTS
    a1 = a1
    a2 = a2
    b1 = b1
    Lane = {a1}
    SessionOf <- MCSessionOf
    ModesOf <- MCSteering
    Policies = {"drop-new"}
    GateWidths = {1}
    MaxDepth = 2
    MaxMsg = 5
    MaxQueues = 1
SPECIFICATION Spec
INVARIANT StrictLaneOrder
CHECK_DEADLOCK FALSE
