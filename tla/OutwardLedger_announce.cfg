\* One announcement, sent, drained and decided concurrently, under two contents.
CONSTANTS
    WrapOp = {}
    BackgroundOp = {}
    AnnounceOp = {n1}
    Payload = {p1, p2}
    Attempt = {a1, a2, a3}
    MaxStep = 0
    BatchSize = 1
    MaxRestarts = 1
SYMMETRY AttemptSymmetry
SPECIFICATION Spec
INVARIANTS AtMostOneCall CommittedIsAccepted DecisionsAgree
